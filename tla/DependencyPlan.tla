----------------------------- MODULE DependencyPlan -----------------------------
(***************************************************************************)
(* How the dependency graph of one binary becomes tasks: the positions of  *)
(* its per-architecture templates are merged by role (template_graph), a   *)
(* position with the same derivation on every architecture, or on every    *)
(* architecture of a family, gets one task for all of them, and the other  *)
(* shared dependencies one task each (dependency_graph_planner).           *)
(*                                                                         *)
(* The input is the classified template of every architecture.  All        *)
(* variants of an architecture are treated alike, so an architecture       *)
(* stands for its variants.                                                *)
(***************************************************************************)
EXTENDS Integers, FiniteSets

CONSTANTS
  TargetArch,
  Family,          \* Family[a]: the family of architecture a
  Role,            \* the roles of template nodes
  Ident,           \* the derivations found there
  SourceIdent,     \* sources, patches and the like, which nix fetches
  ToolchainIdent   \* derivations of toolchains

ASSUME DependencyPlanAssumption ==
  /\ IsFiniteSet(TargetArch) /\ DOMAIN Family = TargetArch
  /\ SourceIdent \subseteq Ident /\ ToolchainIdent \subseteq Ident

VARIABLES
  node,   \* node[a][r]: class and derivation of role r in the template of a
  indep   \* the derivations all architectures of the binary share by construction

planVars == <<node, indep>>

NodeClasses == {"absent", "toolchain", "variant_specific"}
Nodes == NodeClasses \cup Ident   \* a shared dependency is given by its derivation

PlanTypeOK == node \in [TargetArch -> [Role -> Nodes]] /\ indep \subseteq Ident

-------------------------------------------------------------------------------
\* template_graph: merging the templates.

\* The architectures on which the role is a shared dependency.
SharedOn(r) == {a \in TargetArch : node[a][r] \in Ident}
IdentsAt(r) == {node[a][r] : a \in SharedOn(r)}
HoldersOf(r, i) == {a \in SharedOn(r) : node[a][r] = i}

\* What is specific to a variant somewhere is so in the merged template.
VariantSpecific(r) == SharedOn(r) = {} \/ \E a \in TargetArch : node[a][r] = "variant_specific"

\* Every derivation belongs to exactly the architectures of one family.
FamilyClean(r) == \A i \in IdentsAt(r) : \E a \in HoldersOf(r, i) :
  HoldersOf(r, i) = {b \in SharedOn(r) : Family[b] = Family[a]}

\* _classify_cross_arch_sharing
Sharing(r) ==
  CASE Cardinality(SharedOn(r)) <= 1 -> "uni_arch"
    [] Cardinality(SharedOn(r)) > 1 /\ Cardinality(IdentsAt(r)) = 1 -> "cross_arch"
    [] Cardinality(IdentsAt(r)) = Cardinality(SharedOn(r)) /\ Cardinality(IdentsAt(r)) > 1 -> "uni_arch"
    [] OTHER -> IF FamilyClean(r) THEN "family" ELSE "uni_arch"

Class(r) == IF VariantSpecific(r) THEN "variant_specific" ELSE Sharing(r)

-------------------------------------------------------------------------------
\* plan_meta: one task for many architectures.

\* What the merged template gates above the single architecture: a scope and a derivation.
Positions ==
  UNION {{[scope |-> "cross_arch", ident |-> i] : i \in IdentsAt(r)} : r \in {s \in Role : Class(s) = "cross_arch"}}
  \cup UNION {{[scope |-> Family[a], ident |-> node[a][r]] : a \in SharedOn(r)}
              : r \in {s \in Role : Class(s) = "family"}}

\* A mutant: the architectures that have the derivation at the position.
HoldersOnly(p) ==
  IF p.scope = "cross_arch"
  THEN UNION {HoldersOf(r, p.ident) : r \in {s \in Role : Class(s) = "cross_arch"}}
  ELSE {a \in TargetArch : Family[a] = p.scope}

\* The architectures a position stands for: all, or all of the family.
Covered(p) == {a \in TargetArch : p.scope \in {"cross_arch", Family[a]}}

MetaSkip == {p.ident : p \in Positions}

\* Toolchains are tasks of another phase, sources are fetched.
MetaTasks == {p \in Positions : p.ident \notin ToolchainIdent \cup SourceIdent}

-------------------------------------------------------------------------------
\* plan_cell and plan_total: the remaining tasks, and what a variant depends on.

CellTasks(a) ==
  {[scope |-> "cell", ident |-> i] : i \in {node[a][r] : r \in Role} \cap (Ident \ MetaSkip)}

IndepTasks == {[scope |-> "arch_indep", ident |-> i] : i \in indep \ SourceIdent}

CommonDeps == IndepTasks \cup MetaTasks \cup UNION {CellTasks(a) : a \in TargetArch}

DependsOn(a) == IndepTasks \cup {p \in MetaTasks : a \in Covered(p)} \cup CellTasks(a)

\* The task ids are distinct, but one derivation may have several.
Builders(i) == {t \in CommonDeps : t.ident = i}

-------------------------------------------------------------------------------
(* A variant waits for every shared dependency its own template contains,  *)
(* as long as some task builds it: nothing is left out by the cell because *)
(* the merged template gates it, and then not gated there.  What is        *)
(* excepted is a derivation that the merged template gates for a family    *)
(* and that an architecture of another family has in another role: its     *)
(* variants do not wait, and only build it themselves or find it built.    *)
OtherFamilyOnly(a, i) ==
  /\ \A p \in Positions : p.ident = i => p.scope \notin {"cross_arch", Family[a]}
  /\ i \in MetaSkip

SharedDependenciesAreAwaited ==
  \A a \in TargetArch :
    /\ DependsOn(a) \subseteq CommonDeps
    /\ \A r \in Role : node[a][r] \in Ident =>
         \/ \E t \in DependsOn(a) : t.ident = node[a][r]
         \/ Builders(node[a][r]) = {}
         \/ OtherFamilyOnly(a, node[a][r])
=============================================================================
