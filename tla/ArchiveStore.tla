------------------------------ MODULE ArchiveStore ------------------------------
(***************************************************************************)
(* The archives of a run on the shared file system, and the nix stores of  *)
(* the nodes they are imported into.  A closure has the name of the        *)
(* archive that carries it: the derivations of the toolchains, the paths   *)
(* common to all toolchains, the rest of each toolchain, the derivations   *)
(* of each binary's variants, the build inputs, and a shared dependency.   *)
(*                                                                         *)
(* A file is replaced by renaming a complete one, so it is absent, empty   *)
(* (the archive of a binary without variants) or whole.  nix-store imports *)
(* a closure only where what it refers to is valid already.                *)
(***************************************************************************)
EXTENDS ToolchainSplit

CONSTANTS
  Node,     \* the secondaries of the run
  Binary,
  MaxFault  \* bound: node deaths, failing tools and failing file accesses

ASSUME StoreAssumption ==
  /\ MaxFault \in Nat
  /\ Binary \cap Toolchain = {}
  /\ (Binary \cup Toolchain) \cap {"drvs", "common", "build_deps", "common_dep"} = {}

VARIABLES
  file,     \* file[a]: archive a on the shared file system
  sidecar,  \* the binaries whose aggregate derivation a sidecar file records
  store,    \* store[n]: the closures valid in the nix store of n
  faults    \* how many faults have happened

storeVars == <<file, sidecar, store, faults>>

Archive == {"drvs", "common", "build_deps", "common_dep"} \cup Toolchain \cup Binary

StoreTypeOK ==
  /\ file \in [Archive -> {"absent", "empty", "whole"}]
  /\ sidecar \subseteq Binary
  /\ store \in [Node -> SUBSET Archive]
  /\ faults \in 0..MaxFault

\* Toolchain deltas and build inputs leave out the common closure, a binary's
\* archive leaves out the toolchain derivations; the others are self-contained.
References(a) ==
  CASE a \in Binary -> {"drvs"}
    [] a \in Toolchain \cup {"build_deps"} -> {"common"}
    [] OTHER -> {}

Fault == faults < MaxFault /\ faults' = faults + 1
NoFault == UNCHANGED faults

Whole(a) == file[a] = "whole"

\* nix-store --import, repeated while its error is transient.
Importable(n, a) == Whole(a) /\ References(a) \subseteq store[n]

Gain(n, closures) == store' = [store EXCEPT ![n] = @ \cup closures]

\* Query the requisites, export them to a temporary file, rename it.
Export(a) == file' = [file EXCEPT ![a] = "whole"]
=============================================================================
