------------------------------ MODULE TemplateGraph ------------------------------
(***************************************************************************)
(* The streaming planner of template_graph, for the variants of one binary *)
(* on one architecture.  nix-store --query --tree prints their dependency  *)
(* trees one after the other, each derivation with its references the      *)
(* first time only.  From the first two variants a template is built, with *)
(* a node per pair of derivations at the same position; then every variant *)
(* is walked along the template (the co-walk), which fills in a column of  *)
(* derivations and extends the template where the variant is different.    *)
(* Only the first two columns classify the nodes.  lax mode, as the worker *)
(* uses it: inconsistencies are recorded and the walk goes on.             *)
(*                                                                         *)
(* Recursive walks are work lists here, in the order of the recursion.     *)
(***************************************************************************)
EXTENDS Integers, FiniteSets, Sequences, SequencesExt

CONSTANTS
  Drv,         \* derivations: numbers, in the order of their identities
  DrvRole,     \* the role of each: its name without version and target, a number
  StopRole,    \* the roles that end a walk: stdenv, compiler wrappers, sources
  Toolchained, \* the derivations of the toolchain section
  CleanSplit,  \* pairs of derivations that differ in just the version or the target
  DrvReferences, \* the dependency graphs to plan: a sequence of references per derivation
  Printings    \* the variants' derivations in the order they are printed

ASSUME TemplateAssumption ==
  /\ Drv \subseteq Nat \ {0} /\ IsFiniteSet(Drv)
  /\ DrvRole \in [Drv -> Nat] /\ Toolchained \subseteq Drv
  /\ CleanSplit \subseteq Drv \X Drv
  /\ DrvReferences \subseteq [Drv -> Seq(Drv)] /\ Printings \subseteq Seq(Drv)

VARIABLES
  refs,     \* refs[d]: the references of d, in the order they are printed
  roots,    \* the variants' derivations in the order they are printed
  read,     \* how many variants have been read
  expanded, \* expanded[v]: the derivations printed with their references in variant v
  leftOver, \* unclassified_nodes
  pending,  \* variants without a template yet
  toWalk,     \* variants to be walked along the template
  column,   \* the variant being walked, 0 between the walks
  work,     \* the work list
  nodes,    \* the template: its root is node 1
  rows,     \* rows[n][i]: the derivation of the i-th walked variant at node n, or 0
  classes,  \* the classification of the nodes there were when it was made
  phase,    \* "read", "build", "walk" or "closed"
  records   \* the inconsistencies recorded

treeVars == <<refs, roots>>
readVars == <<read, expanded, pending>>
templateVars == <<treeVars, readVars, leftOver, toWalk, column, work, nodes, rows, classes, phase, records>>

Nothing == 0

TemplateTypeOK ==
  /\ read \in 0..Len(roots) /\ column \in 0..Len(roots)
  /\ leftOver \subseteq Drv
  /\ phase \in {"read", "build", "walk", "closed"}
  /\ Len(rows) \in {0, Len(nodes)} /\ Len(classes) <= Len(nodes)
  /\ \A n \in DOMAIN nodes : \A k \in ToSet(nodes[n].children) : k \in DOMAIN nodes
  /\ \A n \in DOMAIN rows : \A d \in ToSet(rows[n]) : d \in Drv \cup {Nothing}

TemplateInit ==
  /\ refs \in DrvReferences /\ roots \in Printings
  /\ read = 0 /\ expanded = <<>> /\ leftOver = {} /\ pending = <<>>
  /\ toWalk = <<>> /\ column = 0 /\ work = <<>>
  /\ nodes = <<>> /\ rows = <<>> /\ classes = <<>>
  /\ phase = "read" /\ records = {}

-------------------------------------------------------------------------------
\* The trees.

\* The elements of S in increasing order, and the elements of s at some positions.
Sorted(S) == [k \in 1..Cardinality(S) |-> CHOOSE d \in S : Cardinality({e \in S : e < d}) = k - 1]
ElementsAt(s, positions) == [k \in DOMAIN Sorted(positions) |-> s[Sorted(positions)[k]]]

WithRole(s, r) == ElementsAt(s, {i \in DOMAIN s : DrvRole[s[i]] = r})
Roles(s) == {DrvRole[d] : d \in ToSet(s)}

\* The children of d in the tree of variant v.
Children(v, d) == IF d \in expanded[v] THEN refs[d] ELSE <<>>

\* What a tree below d contains when what was printed before is not expanded again.
Below(d, before) ==
  LET Down[k \in 0..Cardinality(Drv)] ==
        IF k = 0 THEN {d}
        ELSE LET s == Down[k - 1] IN s \cup UNION {ToSet(refs[c]) : c \in s \ before}
  IN Down[Cardinality(Drv)]

Printed == Toolchained \cup UNION {expanded[v] : v \in DOMAIN expanded}

\* A mutant: only the derivation that ends the walk is discarded.
SubtreeRoot(v, d) == IF d = Nothing THEN {} ELSE {d} \cap expanded[v]

\* _discard_subtree, and the discarding of a single visited node.
Subtree(v, d) == IF d = Nothing THEN {} ELSE Below(d, Drv \ expanded[v]) \cap expanded[v]
Visited(v, d) == {d} \cap expanded[v]

IsStop(ds) == \E d \in ds \ {Nothing} : DrvRole[d] \in StopRole \/ d \in Toolchained

\* make_template_node
TemplateNode(key, role, stop, optional) ==
  [key |-> key, role |-> role, children |-> <<>>, stop |-> stop, optional |-> optional,
   enforce |-> Nothing, seen |-> FALSE]

WithChild(ns, parent, n) ==
  IF parent = Nothing \/ n \in ToSet(ns[parent].children) THEN ns
  ELSE [ns EXCEPT ![parent].children = Append(@, n)]

-------------------------------------------------------------------------------
\* Reading the stream.

\* feed_parsed and _finalise_current_variant for all lines of a variant.
ReadVariant ==
  /\ phase = "read" /\ read < Len(roots)
  /\ LET v == read + 1
         printed == Below(roots[v], Printed) IN
     /\ read' = v
     /\ expanded' = Append(expanded, printed \ Printed)
     /\ leftOver' = leftOver \cup (printed \ (Printed \cup {roots[v]}))
     /\ IF nodes # <<>>
        THEN phase' = "walk" /\ toWalk' = <<v>> /\ UNCHANGED <<pending, work>>
        ELSE /\ pending' = Append(pending, v) /\ UNCHANGED toWalk
             /\ IF pending = <<>> THEN UNCHANGED <<phase, work>>
                ELSE /\ phase' = "build"
                     /\ work' = <<[parent |-> Nothing, left |-> roots[pending[1]], right |-> roots[v]]>>
  /\ UNCHANGED <<treeVars, column, nodes, rows, classes, records>>

\* _close_current_matrix: a variant that stayed alone gets a template of its own.
CloseMatrix ==
  /\ phase = "read" /\ read = Len(roots)
  /\ IF pending = <<>>
     THEN phase' = "closed" /\ UNCHANGED work
     ELSE /\ phase' = "build"
          /\ work' = <<[parent |-> Nothing, left |-> roots[pending[1]], right |-> roots[pending[1]]]>>
  /\ UNCHANGED <<treeVars, readVars, leftOver, toWalk, column, nodes, rows, classes, records>>

-------------------------------------------------------------------------------
\* Building the template.

Alone == Len(pending) = 1
First == pending[1]
Second == pending[Len(pending)]

\* A node stands for a pair of derivations, or for a role when there is no pair.
NodeKey(w) == IF Alone THEN <<DrvRole[w.left]>> ELSE <<w.left, w.right>>

\* A mutant: children are paired in the order they are printed.
PrintedPairs(n, a, b, r) ==
  LET as == WithRole(a, r)
      bs == WithRole(b, r)
  IN [i \in 1..(IF Len(as) < Len(bs) THEN Len(as) ELSE Len(bs)) |->
        [parent |-> n, left |-> as[i], right |-> bs[i]]]

\* The children of a role on both sides, paired in the order of their identities.
RolePairs(n, a, b, r) ==
  LET as == Sorted(ToSet(WithRole(a, r)))
      bs == Sorted(ToSet(WithRole(b, r)))
  IN [i \in 1..(IF Len(as) < Len(bs) THEN Len(as) ELSE Len(bs)) |->
        [parent |-> n, left |-> as[i], right |-> bs[i]]]

OneSided(n, s, left) ==
  [i \in DOMAIN s |-> [parent |-> n, left |-> IF left THEN s[i] ELSE Nothing,
                                     right |-> IF left THEN Nothing ELSE s[i]]]

ByRole(Op(_), S) == FlattenSeq([i \in DOMAIN Sorted(S) |-> Op(Sorted(S)[i])])

\* _walk_pair_node and _walk_one_sided: what is walked below node n.
PairChildren(n, w) ==
  LET a == IF w.left = Nothing THEN <<>> ELSE Children(First, w.left)
      b == IF w.right = Nothing THEN <<>> ELSE Children(Second, w.right)
      both == Roles(a) \cap Roles(b)
      shared == IF a # <<>> THEN a ELSE b
  IN CASE w.right = Nothing -> OneSided(n, a, TRUE)
       [] w.left = Nothing -> OneSided(n, b, FALSE)
       [] w.left = w.right ->
            [i \in DOMAIN shared |-> [parent |-> n, left |-> shared[i], right |-> shared[i]]]
       [] OTHER ->
            ByRole(LAMBDA r : OneSided(n, WithRole(a, r), TRUE), Roles(a) \ both)
            \o ByRole(LAMBDA r : OneSided(n, WithRole(b, r), FALSE), Roles(b) \ both)
            \o ByRole(LAMBDA r : RolePairs(n, a, b, r), both)

\* A role with more children on one side: the surplus is not walked.
Uneven(w) ==
  /\ Nothing \notin {w.left, w.right} /\ w.left # w.right
  /\ LET a == Children(First, w.left)
         b == Children(Second, w.right)
     IN \E r \in Roles(a) \cap Roles(b) : Len(WithRole(a, r)) # Len(WithRole(b, r))

BuildVisit ==
  /\ phase = "build" /\ work # <<>>
  /\ LET w == Head(work)
         there == {n \in DOMAIN nodes : nodes[n].key = NodeKey(w)}
         n == IF there = {} THEN Len(nodes) + 1 ELSE CHOOSE m \in there : TRUE
         stop == IsStop({w.left, w.right})
         one == IF w.left = Nothing THEN w.right ELSE w.left
         grown == IF there # {} THEN nodes
                  ELSE Append(nodes, TemplateNode(NodeKey(w), DrvRole[one], stop, Nothing \in {w.left, w.right}))
     IN /\ nodes' = WithChild(grown, w.parent, n)
        /\ records' = IF there = {} /\ ~stop /\ Uneven(w) THEN records \cup {"count"} ELSE records
        /\ leftOver' = leftOver \ (IF there = {} /\ stop
                                   THEN Subtree(First, w.left) \cup Subtree(Second, w.right)
                                   ELSE Visited(First, w.left) \cup Visited(Second, w.right))
        /\ work' = (IF there = {} /\ ~stop THEN PairChildren(n, w) ELSE <<>>) \o Tail(work)
  /\ UNCHANGED <<treeVars, readVars, toWalk, column, rows, classes, phase>>

\* _build_and_drain_arch: the variants the template was built from are walked first.
TemplateBuilt ==
  /\ phase = "build" /\ work = <<>>
  /\ phase' = "walk"
  /\ toWalk' = pending /\ pending' = <<>>
  /\ rows' = [n \in DOMAIN nodes |-> <<>>]
  /\ UNCHANGED <<treeVars, read, expanded, leftOver, column, work, nodes, classes, records>>

-------------------------------------------------------------------------------
\* The co-walk.

Position == Len(rows[1])   \* of the current column

\* cowalk_into_arr
StartWalk ==
  /\ phase = "walk" /\ work = <<>> /\ toWalk # <<>>
  /\ column' = Head(toWalk) /\ toWalk' = Tail(toWalk)
  /\ rows' = [n \in DOMAIN rows |-> Append(rows[n], Nothing)]
  /\ nodes' = [n \in DOMAIN nodes |-> [nodes[n] EXCEPT !.seen = FALSE]]
  /\ work' = <<[kind |-> "pair", parent |-> Nothing, node |-> 1, drv |-> roots[column'], base |-> Nothing]>>
  /\ UNCHANGED <<treeVars, readVars, leftOver, classes, phase, records>>

\* Template children and children of the variant, per role.
TemplateRoles(n) == {nodes[c].role : c \in ToSet(nodes[n].children)}
Extensions(n, d) ==
  LET kids == Children(column, d) IN
  ByRole(LAMBDA r : [i \in DOMAIN WithRole(kids, r) |->
           [kind |-> "extend", parent |-> n, node |-> Nothing, drv |-> WithRole(kids, r)[i], base |-> Nothing]],
         Roles(kids) \ TemplateRoles(n))

SameRole(n, d, r) ==
  LET all == nodes[n].children
      cs == ElementsAt(all, {i \in DOMAIN all : nodes[all[i]].role = r})
      ds == Sorted(ToSet(WithRole(Children(column, d), r)))
  IN [i \in 1..(IF Len(cs) < Len(ds) THEN Len(cs) ELSE Len(ds)) |->
        [kind |-> "pair", parent |-> n, node |-> cs[i], drv |-> ds[i], base |-> Nothing]]

CommonRoles(n, d) == TemplateRoles(n) \cap Roles(Children(column, d))

Mismatch(n, d) == \E r \in CommonRoles(n, d) :
  Cardinality({c \in ToSet(nodes[n].children) : nodes[c].role = r}) # Len(WithRole(Children(column, d), r))

\* _cowalk_visit_children of node n, whose children are those of node m of the template ns.
WalkChildren(ns, n, m, d) ==
  /\ nodes' = [k \in DOMAIN ns |->
       IF k \in ToSet(nodes[m].children) /\ nodes[k].role \notin Roles(Children(column, d))
       THEN [ns[k] EXCEPT !.optional = TRUE] ELSE ns[k]]
  /\ LET below == Extensions(m, d) \o ByRole(LAMBDA r : SameRole(m, d, r), CommonRoles(m, d))
     IN work' = [i \in DOMAIN below |-> [below[i] EXCEPT !.parent = n]] \o Tail(work)
  /\ records' = records \cup (IF Mismatch(m, d) THEN {"count"} ELSE {})
                        \cup (IF Extensions(m, d) # <<>> THEN {"extended"} ELSE {})

Item(kind) == phase = "walk" /\ work # <<>> /\ Head(work).kind = kind
Fresh == Item("pair") /\ ~nodes[Head(work).node].seen
Again == Item("pair") /\ nodes[Head(work).node].seen

SkipWork == work' = Tail(work) /\ UNCHANGED records

\* _cowalk_visit on a node that ends the walk.
VisitStop ==
  /\ Fresh
  /\ LET w == Head(work) IN
     /\ nodes[w.node].stop
     /\ nodes' = [nodes EXCEPT ![w.node].seen = TRUE]
     /\ leftOver' = leftOver \ Subtree(column, w.drv)
  /\ SkipWork
  /\ UNCHANGED <<treeVars, readVars, toWalk, column, rows, classes, phase>>

VisitNode ==
  /\ Fresh
  /\ LET w == Head(work)
         ns == [nodes EXCEPT ![w.node].seen = TRUE]
     IN /\ ~nodes[w.node].stop
        /\ rows' = [rows EXCEPT ![w.node][Position] = w.drv]
        /\ leftOver' = leftOver \ Visited(column, w.drv)
        /\ IF w.drv \in expanded[column] THEN WalkChildren(ns, w.node, w.node, w.drv)
           ELSE nodes' = ns /\ SkipWork
  /\ UNCHANGED <<treeVars, readVars, toWalk, column, classes, phase>>

\* _handle_revisit
Occupant == rows[Head(work).node][Position]
Agrees == nodes[Head(work).node].stop \/ Occupant \in {Nothing, Head(work).drv}
Splits == ~Agrees /\ <<Occupant, Head(work).drv>> \in CleanSplit /\ Head(work).parent # Nothing

RevisitSame ==
  /\ Again /\ ~Splits
  /\ leftOver' = leftOver \ Visited(column, Head(work).drv)
  /\ work' = Tail(work)
  /\ records' = IF Agrees THEN records ELSE records \cup {"revisit"}
  /\ UNCHANGED <<treeVars, readVars, toWalk, column, nodes, rows, classes, phase>>

Replaced(s, old, new) ==
  LET i == CHOOSE k \in DOMAIN s : s[k] = old /\ \A j \in 1..(k - 1) : s[j] # old
  IN [s EXCEPT ![i] = new]

\* _split_dag_revisit: the parent gets a clone of the node.
RevisitSplit ==
  /\ Again /\ Splits
  /\ LET w == Head(work)
         old == nodes[w.node]
         new == Len(nodes) + 1
         ns == Append([nodes EXCEPT
                  ![w.node].enforce = IF @ = Nothing THEN Occupant ELSE @,
                  ![w.parent].children = Replaced(@, w.node, new)],
                [old EXCEPT !.enforce = w.drv, !.seen = TRUE])
     IN /\ rows' = Append(rows, [rows[w.node] EXCEPT ![Position] = w.drv])
        /\ leftOver' = leftOver \ Visited(column, w.drv)
        /\ IF w.drv \in expanded[column] THEN WalkChildren(ns, new, w.node, w.drv)
           ELSE nodes' = ns /\ SkipWork
  /\ UNCHANGED <<treeVars, readVars, toWalk, column, classes, phase>>

\* _extend_template_with_subtree: nodes are shared within one extension only.
Extend ==
  /\ Item("extend")
  /\ LET w == Head(work)
         there == IF w.base = Nothing THEN {}
                  ELSE {n \in w.base..Len(nodes) : nodes[n].key = <<w.drv>>}
         n == IF there = {} THEN Len(nodes) + 1 ELSE CHOOSE m \in there : TRUE
         stop == IsStop({w.drv})
         kids == Children(column, w.drv)
     IN /\ nodes' = WithChild(IF there # {} THEN nodes
                              ELSE Append(nodes, TemplateNode(<<w.drv>>, DrvRole[w.drv], stop, TRUE)),
                              w.parent, n)
        /\ rows' = IF there # {} THEN rows
                   ELSE Append(rows, [i \in 1..Position |-> IF i = Position /\ ~stop THEN w.drv ELSE Nothing])
        /\ leftOver' = leftOver \ (IF there = {} /\ stop THEN Subtree(column, w.drv) ELSE Visited(column, w.drv))
        /\ work' = (IF there # {} \/ stop THEN <<>>
                    ELSE [i \in DOMAIN kids |-> [kind |-> "extend", parent |-> n, node |-> Nothing, drv |-> kids[i],
                                                  base |-> IF w.base = Nothing THEN n ELSE w.base]])
                   \o Tail(work)
  /\ UNCHANGED <<treeVars, readVars, toWalk, column, classes, phase, records>>

\* _classify_pair
ClassAt(n) ==
  CASE nodes[n].stop -> "toolchain"
    [] ~nodes[n].stop /\ Nothing \notin {rows[n][1], rows[n][Position]} /\ rows[n][1] # rows[n][Position] -> "variant_specific"
    [] OTHER -> "common_dep"

\* The nodes are classified once, when the first variants have been walked.
WalksDone ==
  /\ phase = "walk" /\ work = <<>> /\ toWalk = <<>>
  /\ phase' = "read" /\ column' = 0
  /\ IF classes # <<>> THEN UNCHANGED <<classes, nodes>>
     ELSE /\ classes' = [n \in DOMAIN nodes |-> ClassAt(n)]
          /\ nodes' = [n \in DOMAIN nodes |->
               IF ~nodes[n].stop /\ rows[n][1] = Nothing THEN [nodes[n] EXCEPT !.optional = TRUE] ELSE nodes[n]]
  /\ UNCHANGED <<treeVars, readVars, leftOver, toWalk, work, rows, records>>

TemplateNext ==
  \/ ReadVariant
  \/ CloseMatrix
  \/ BuildVisit
  \/ TemplateBuilt
  \/ StartWalk
  \/ VisitStop
  \/ VisitNode
  \/ RevisitSame
  \/ RevisitSplit
  \/ Extend
  \/ WalksDone

TemplateSpec == TemplateInit /\ [][TemplateNext]_templateVars

-------------------------------------------------------------------------------
\* The derivations printed in variant v, with their references or without.
Met(v) == {roots[v]} \cup UNION {ToSet(refs[d]) : d \in expanded[v]}

\* No variant has two derivations of a role at which walks end.
OneStopEach ==
  \A n \in DOMAIN nodes : nodes[n].stop =>
    \A v \in 1..read : \A d, e \in Met(v) :
      DrvRole[d] = nodes[n].role /\ DrvRole[e] = nodes[n].role => d = e

(* Every derivation of the binary has its place in the template when the   *)
(* binary's section ends, or an inconsistency was recorded ("algorithm     *)
(* gap" otherwise): walking, revisiting, extending and stopping at the     *)
(* toolchain between them reach all that was printed.  A node at which     *)
(* walks end discards what is below the first derivation it is visited     *)
(* with and no other, hence the condition.                                 *)
NothingLeftOver ==
  phase = "closed" /\ records \subseteq {"extended"} /\ OneStopEach => leftOver = {}

\* A node that stands for two different derivations.
Twofold(key) == Len(key) = 2 /\ Nothing \notin ToSet(key) /\ key[1] # key[2]

(* Two derivations that the template was built from as a pair are put at   *)
(* the same place by the walks: the co-walk pairs the children of a role   *)
(* as the builder did, whatever else it had to record, and later variants  *)
(* change nothing of it.  Children of one derivation, common to both       *)
(* variants or in one of them, are paired with themselves or with none,    *)
(* and their order is free.                                                *)
CalibrationRetraces ==
  \A n \in DOMAIN rows : \A i \in DOMAIN rows[n] :
    LET key == nodes[n].key IN
    i <= 2 /\ Twofold(key) => rows[n][i] \in {Nothing, key[i]}
=============================================================================
