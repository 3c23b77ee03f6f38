----------------------------- MODULE PlannerProofs -----------------------------
(***************************************************************************)
(* Proofs about the planner: for every set of derivations, their roles,    *)
(* the references between them and the order they are printed in, what     *)
(* TemplateGraph does keeps its types and leaves nothing over; and for     *)
(* every assignment of classes to positions the plan of DependencyPlan     *)
(* has its tasks wait for what they share.                                 *)
(***************************************************************************)
EXTENDS DependencyPlan, TemplateGraph, FiniteSetTheorems, TLAPS

-------------------------------------------------------------------------------
\* The plan.

\* A derivation is planned at a cell unless the merged template gates it.
LEMMA CellOrMeta ==
  ASSUME NEW a \in TargetArch, NEW r \in Role, node[a][r] \in Ident, node[a][r] \notin MetaSkip
  PROVE  \E t \in DependsOn(a) : t.ident = node[a][r]
<1> DEFINE t == [scope |-> "cell", ident |-> node[a][r]]
<1>1. t \in CellTasks(a)
  BY DEF CellTasks
<1> QED BY <1>1 DEF DependsOn

\* Whoever is covered by the scope of a gated task depends on it.
LEMMA CoveredDepends ==
  ASSUME NEW a \in TargetArch, NEW p \in Positions, p.scope \in {"cross_arch", Family[a]},
         p.ident \notin ToolchainIdent \cup SourceIdent
  PROVE  p \in DependsOn(a)
  BY DEF DependsOn, MetaTasks, Covered

\* What is gated, but a toolchain or a source, only the tasks of the derivations all
\* architectures share can build.
LEMMA UnbuiltGated ==
  ASSUME NEW i \in MetaSkip, i \in ToolchainIdent \cup SourceIdent,
         NEW t \in Builders(i)
  PROVE  t \in IndepTasks
<1>1. t.ident = i /\ t \in CommonDeps
  BY DEF Builders
<1>2. t \notin MetaTasks
  BY <1>1 DEF MetaTasks
<1>3. ASSUME NEW a \in TargetArch PROVE t \notin CellTasks(a)
  BY <1>1 DEF CellTasks
<1> QED BY <1>1, <1>2, <1>3 DEF CommonDeps

(* A variant waits for every shared dependency of its own template that    *)
(* some task builds, whichever of the three levels of the plan has it, but *)
(* for a derivation gated for another family only.                         *)
THEOREM DependenciesAwaited == SharedDependenciesAreAwaited
<1> SUFFICES ASSUME NEW a \in TargetArch
             PROVE  /\ DependsOn(a) \subseteq CommonDeps
                    /\ \A r \in Role : node[a][r] \in Ident =>
                         \/ \E t \in DependsOn(a) : t.ident = node[a][r]
                         \/ Builders(node[a][r]) = {}
                         \/ OtherFamilyOnly(a, node[a][r])
  BY DEF SharedDependenciesAreAwaited
<1>1. DependsOn(a) \subseteq CommonDeps
  BY DEF DependsOn, CommonDeps
<1>2. ASSUME NEW r \in Role, node[a][r] \in Ident,
             Builders(node[a][r]) # {}, ~OtherFamilyOnly(a, node[a][r])
      PROVE  \E t \in DependsOn(a) : t.ident = node[a][r]
  <2> DEFINE i == node[a][r]
  <2>1. CASE i \notin MetaSkip
    BY <1>2, <2>1, CellOrMeta
  <2>2. CASE i \in MetaSkip
    <3>1. PICK p \in Positions : p.ident = i /\ p.scope \in {"cross_arch", Family[a]}
      BY <1>2, <2>2 DEF OtherFamilyOnly
    <3>2. CASE i \notin ToolchainIdent \cup SourceIdent
      BY <3>1, <3>2, CoveredDepends
    <3>3. CASE i \in ToolchainIdent \cup SourceIdent
      <4>1. PICK t \in Builders(i) : TRUE
        BY <1>2
      <4>2. t \in IndepTasks /\ t.ident = i
        BY <2>2, <3>3, <4>1, UnbuiltGated DEF Builders
      <4> QED BY <4>2 DEF DependsOn
    <3> QED BY <3>2, <3>3
  <2> QED BY <2>1, <2>2
<1> QED BY <1>1, <1>2

-------------------------------------------------------------------------------
\* Numbers, induction and recursion.

\* Among finite sets there is a least one.
LEMMA LeastSubset ==
  ASSUME NEW S, NEW T, T \subseteq FiniteSubsetsOf(S), T # {}
  PROVE  \E x \in T : \A y \in T : ~(y \subseteq x /\ y # x)
<1>1. IsWellFoundedOn(StrictSubsetOrdering(S), FiniteSubsetsOf(S))
  BY FS_StrictSubsetOrderingWellFounded
<1>2. PICK x \in T : \A y \in T : ~(<<y, x>> \in StrictSubsetOrdering(S))
  BY <1>1, WFMin
<1>3. ASSUME NEW y \in T PROVE ~(y \subseteq x /\ y # x)
  BY <1>2 DEF StrictSubsetOrdering, FiniteSubsetsOf
<1> QED BY <1>3

\* Among numbers there is a least one.
LEMMA Least ==
  ASSUME NEW T, T \subseteq Nat, T # {}
  PROVE  \E x \in T : \A y \in T : x <= y
<1>1. PICK U : U = {0..n : n \in T}
  OBVIOUS
<1>2. U \subseteq FiniteSubsetsOf(Nat) /\ U # {}
  <2>1. \A n \in T : IsFiniteSet(0..n) /\ 0..n \subseteq Nat
    BY FS_Interval
  <2> QED BY <1>1, <2>1 DEF FiniteSubsetsOf
<1>3. PICK x \in U : \A y \in U : ~(y \subseteq x /\ y # x)
  <2> HIDE <1>1
  <2> QED BY <1>2, LeastSubset
<1>4. PICK n \in T : x = 0..n
  BY <1>1, <1>3
<1>5. ASSUME NEW m \in T, ~(n <= m) PROVE FALSE
  <2>1. 0..m \subseteq 0..n /\ n \in 0..n /\ n \notin 0..m
    BY <1>5
  <2> QED BY <1>1, <1>3, <1>4, <2>1
<1> QED BY <1>5

\* Induction, over a set of numbers.
LEMMA Induct ==
  ASSUME NEW a \in Nat, NEW n \in Nat, NEW P, a \in P, \A k \in a..(n - 1) : k \in P => k + 1 \in P
  PROVE  a..n \subseteq P
<1>1. SUFFICES ASSUME (a..n) \ P # {} PROVE FALSE
  OBVIOUS
<1>2. PICK k \in (a..n) \ P : \A j \in (a..n) \ P : k <= j
  <2>1. (a..n) \ P \subseteq Nat
    OBVIOUS
  <2> QED BY <1>1, <2>1, Least
<1>3. k - 1 \in a..(n - 1) /\ k - 1 \in P
  BY <1>2
<1> QED BY <1>2, <1>3

\* f is defined by recursion from a to n: from x, with a step for each number.
DefinedBy(f, a, n, X, x, G) ==
  f \in [a..n -> X] /\ f[a] = x /\ \A k \in a..n : k # a => f[k] = G[k][f[k - 1]]

\* A function defined by recursion exists.
LEMMA Recursion ==
  ASSUME NEW a \in Nat, NEW n \in Nat, a <= n, NEW X, NEW x \in X, NEW G \in [a..n -> [X -> X]]
  PROVE  \E f : DefinedBy(f, a, n, X, x, G)
<1> DEFINE Upto(m, f) == f \in [a..m -> X] /\ f[a] = x /\ \A k \in a..m : k # a => f[k] = G[k][f[k - 1]]
           P == {m \in a..n : \E f : Upto(m, f)}
<1>1. a \in P
  <2> DEFINE f == [k \in a..a |-> x]
  <2>1. f \in [a..a -> X] /\ f[a] = x /\ \A k \in a..a : k = a
    OBVIOUS
  <2>2. a \in a..n
    OBVIOUS
  <2> HIDE DEF f
  <2>3. Upto(a, f)
    BY <2>1
  <2> QED BY <2>2, <2>3
<1>2. ASSUME NEW m \in a..(n - 1), m \in P PROVE m + 1 \in P
  <2>1. PICK f : Upto(m, f)
    BY <1>2
  <2> DEFINE g == [k \in a..(m + 1) |-> IF k = m + 1 THEN G[k][f[m]] ELSE f[k]]
  <2>2. m \in a..m /\ m + 1 \in a..n /\ a..m = a..(m + 1) \ {m + 1}
    OBVIOUS
  <2>3. G[m + 1][f[m]] \in X
    BY <2>1, <2>2
  <2>4. g \in [a..(m + 1) -> X]
    BY <2>1, <2>2, <2>3
  <2>5. g[a] = x
    BY <2>1
  <2>6. ASSUME NEW k \in a..(m + 1), k # a PROVE g[k] = G[k][g[k - 1]]
    <3>1. CASE k = m + 1
      BY <3>1
    <3>2. CASE k # m + 1
      <4>1. k \in a..m /\ k - 1 \in a..m /\ k - 1 \in a..(m + 1) /\ k - 1 # m + 1
        BY <2>6, <3>2
      <4> QED BY <2>1, <2>6, <3>2, <4>1
    <3> QED BY <3>1, <3>2
  <2> QED BY <2>2, <2>4, <2>5, <2>6
<1>3. a..n \subseteq P
  <2> HIDE DEF P
  <2> QED BY <1>1, <1>2, Induct
<1>4. n \in P
  BY <1>3
<1> QED BY <1>4 DEF DefinedBy

-------------------------------------------------------------------------------
\* Sorted sets of numbers.

\* How many elements of S are less than d.
Rank(S, d) == Cardinality({e \in S : e < d})

\* The rank of an element is below the size of the set.
LEMMA RankBound ==
  ASSUME NEW S, S \subseteq Nat, IsFiniteSet(S), NEW d \in S
  PROVE  Rank(S, d) \in 0..(Cardinality(S) - 1)
<1>1. {e \in S : e < d} \subseteq S \ {d} /\ IsFiniteSet(S \ {d})
      /\ Cardinality(S \ {d}) = Cardinality(S) - 1
  BY FS_RemoveElement
<1>2. Cardinality({e \in S : e < d}) \in Nat /\ Cardinality({e \in S : e < d}) <= Cardinality(S \ {d})
  BY <1>1, FS_Subset, FS_CardinalityType
<1>3. Cardinality(S) \in Nat
  BY FS_CardinalityType
<1> QED BY <1>1, <1>2, <1>3 DEF Rank

\* A larger element has a larger rank.
LEMMA RankGrows ==
  ASSUME NEW S, S \subseteq Nat, IsFiniteSet(S), NEW d \in S, NEW e \in S, d < e
  PROVE  Rank(S, d) < Rank(S, e)
<1> DEFINE D == {c \in S : c < d}
           E == {c \in S : c < e}
<1>1. IsFiniteSet(D) /\ IsFiniteSet(E) /\ Cardinality(D) \in Nat /\ Cardinality(E) \in Nat
  <2>1. D \subseteq S /\ E \subseteq S
    OBVIOUS
  <2> HIDE DEF D, E
  <2> QED BY <2>1, FS_Subset, FS_CardinalityType
<1>2. d \notin D /\ D \cup {d} \subseteq E
  <2>1. d \in Nat /\ e \in Nat
    OBVIOUS
  <2>2. \A c \in S : c \in Nat /\ (c < d => c < e)
    BY <2>1
  <2>3. \A c \in D : c \in E
    BY <2>2
  <2>4. d \notin D /\ d \in E
    BY <2>1
  <2> QED BY <2>3, <2>4
<1>3. Cardinality(D \cup {d}) = Cardinality(D) + 1 /\ Cardinality(D \cup {d}) <= Cardinality(E)
  <2> HIDE DEF D, E
  <2> QED BY <1>1, <1>2, FS_AddElement, FS_Subset
<1> QED BY <1>1, <1>3 DEF Rank

\* Every rank below the size of the set is that of an element.
LEMMA RankReached ==
  ASSUME NEW S, S \subseteq Nat, IsFiniteSet(S), NEW k \in 0..(Cardinality(S) - 1)
  PROVE  \E d \in S : Rank(S, d) = k
<1> DEFINE n == Cardinality(S) - 1
           P == {j \in 0..n : \E d \in S : Rank(S, d) = j}
<1>0. Cardinality(S) \in Nat /\ n \in Nat /\ S # {}
  BY FS_CardinalityType, FS_EmptySet
<1>1. 0 \in P
  <2>1. PICK d \in S : \A e \in S : d <= e
    BY <1>0, Least
  <2>2. {e \in S : e < d} = {}
    <3>1. \A e \in S : e \in Nat /\ d \in Nat /\ d <= e
      BY <2>1
    <3>2. \A e \in S : ~(e < d)
      BY <3>1
    <3> QED BY <3>2
  <2>3. Rank(S, d) = 0 /\ 0 \in 0..n
    BY <1>0, <2>2, FS_EmptySet DEF Rank
  <2> QED BY <2>3
<1>2. ASSUME NEW j \in 0..(n - 1), j \in P PROVE j + 1 \in P
  <2>1. PICK d \in S : Rank(S, d) = j
    BY <1>2
  <2> DEFINE D == {e \in S : e < d}
             U == S \ (D \cup {d})
  <2>2. D \subseteq S /\ d \notin D
    OBVIOUS
  <2>3. IsFiniteSet(D \cup {d}) /\ Cardinality(D \cup {d}) = j + 1
    <3> HIDE DEF D
    <3>1. IsFiniteSet(D)
      BY <2>2, FS_Subset
    <3>2. Cardinality(D) = j
      BY <2>1 DEF Rank, D
    <3> QED BY <2>2, <3>1, <3>2, FS_AddElement
  <2>4. U # {}
    <3>1. S # D \cup {d}
      BY <1>0, <2>3
    <3> QED BY <3>1
  <2>5. PICK e \in U : \A c \in U : e <= c
    <3>1. U \subseteq Nat
      OBVIOUS
    <3> HIDE DEF U
    <3> QED BY <2>4, <3>1, Least
  <2>6. {c \in S : c < e} = D \cup {d}
    <3>1. e \in Nat /\ e \in S /\ d \in Nat /\ ~(e < d) /\ e # d
      BY <2>5
    <3>2. \A c \in S : c \in Nat /\ (c \in U => e <= c) /\ (c \in U \/ c \in D \/ c = d)
      BY <2>5
    <3>3. \A c \in S : c < e <=> c \in D \cup {d}
      BY <3>1, <3>2
    <3> QED BY <3>3
  <2>7. Rank(S, e) = j + 1 /\ e \in S /\ j + 1 \in 0..n
    BY <1>0, <2>3, <2>5, <2>6 DEF Rank
  <2> QED BY <2>7
<1>3. 0..n \subseteq P
  <2> HIDE DEF P, n
  <2> QED BY <1>0, <1>1, <1>2, Induct
<1> QED BY <1>3

\* The rank determines the element, and grows with it.
LEMMA RankOrder ==
  ASSUME NEW S, S \subseteq Nat, IsFiniteSet(S), NEW c \in S, NEW d \in S
  PROVE  (Rank(S, c) = Rank(S, d) => c = d) /\ (Rank(S, c) < Rank(S, d) => c < d)
<1>1. c \in Nat /\ d \in Nat /\ Rank(S, c) \in Nat /\ Rank(S, d) \in Nat
  <2>1. Rank(S, c) \in 0..(Cardinality(S) - 1) /\ Rank(S, d) \in 0..(Cardinality(S) - 1)
    BY RankBound
  <2> QED BY <2>1
<1>2. (c < d => Rank(S, c) < Rank(S, d)) /\ (d < c => Rank(S, d) < Rank(S, c))
  BY RankGrows
<1> QED BY <1>1, <1>2

\* Sorted(S) is a sequence of the elements of S, in increasing order.
LEMMA SortedRank ==
  ASSUME NEW S, S \subseteq Nat, IsFiniteSet(S), NEW k \in 1..Cardinality(S)
  PROVE  Sorted(S)[k] \in S /\ Rank(S, Sorted(S)[k]) = k - 1
<1>1. k - 1 \in 0..(Cardinality(S) - 1)
  BY FS_CardinalityType
<1>2. \E d \in S : Cardinality({e \in S : e < d}) = k - 1
  BY <1>1, RankReached DEF Rank
<1>3. Sorted(S)[k] = CHOOSE d \in S : Cardinality({e \in S : e < d}) = k - 1
  BY DEF Sorted
<1> QED BY <1>2, <1>3 DEF Rank

\* Sorted has every element of a set once, in increasing order.
LEMMA SortedSeq ==
  ASSUME NEW S, S \subseteq Nat, IsFiniteSet(S)
  PROVE  /\ Sorted(S) \in Seq(S) /\ Len(Sorted(S)) = Cardinality(S) /\ Cardinality(S) \in Nat
         /\ DOMAIN Sorted(S) = 1..Cardinality(S) /\ ToSet(Sorted(S)) = S
         /\ S # {} => 1 \in DOMAIN Sorted(S)
         /\ \A i, j \in DOMAIN Sorted(S) : i < j => Sorted(S)[i] < Sorted(S)[j]
<1>1. Cardinality(S) \in Nat /\ DOMAIN Sorted(S) = 1..Cardinality(S)
  BY FS_CardinalityType DEF Sorted
<1>2. \A k \in 1..Cardinality(S) : Sorted(S)[k] \in S
  BY SortedRank
<1>3. Sorted(S) \in [1..Cardinality(S) -> S]
  BY <1>1, <1>2 DEF Sorted
<1>4. Sorted(S) \in Seq(S) /\ Len(Sorted(S)) = Cardinality(S)
  BY <1>1, <1>3
<1>5. ASSUME NEW d \in S PROVE d \in ToSet(Sorted(S))
  <2> DEFINE k == Rank(S, d) + 1
  <2>1. k \in 1..Cardinality(S) /\ Rank(S, d) \in Nat
    <3>1. Rank(S, d) \in 0..(Cardinality(S) - 1)
      BY RankBound
    <3> QED BY <1>1, <3>1
  <2>2. Sorted(S)[k] \in S /\ Rank(S, Sorted(S)[k]) = Rank(S, d)
    <3>1. Sorted(S)[k] \in S /\ Rank(S, Sorted(S)[k]) = k - 1
      <4> HIDE DEF k
      <4> QED BY <2>1, SortedRank
    <3> QED BY <2>1, <3>1
  <2>3. Sorted(S)[k] = d
    <3> HIDE DEF k
    <3> QED BY <2>2, RankOrder
  <2> QED BY <1>1, <2>1, <2>3 DEF ToSet
<1>6. ToSet(Sorted(S)) = S
  BY <1>1, <1>2, <1>5 DEF ToSet
<1>7. S # {} => 1 \in DOMAIN Sorted(S)
  BY <1>1, FS_EmptySet
<1>8. ASSUME NEW i \in DOMAIN Sorted(S), NEW j \in DOMAIN Sorted(S), i < j PROVE Sorted(S)[i] < Sorted(S)[j]
  <2> DEFINE c == Sorted(S)[i]
             d == Sorted(S)[j]
  <2>1. i \in 1..Cardinality(S) /\ j \in 1..Cardinality(S)
    BY <1>1
  <2>2. c \in S /\ Rank(S, c) = i - 1
    BY <2>1, SortedRank
  <2>3. d \in S /\ Rank(S, d) = j - 1
    BY <2>1, SortedRank
  <2>4. Rank(S, c) < Rank(S, d)
    <3> HIDE DEF c, d
    <3> QED BY <1>1, <1>8, <2>1, <2>2, <2>3
  <2> QED BY <2>2, <2>3, <2>4, RankOrder
<1> QED BY <1>1, <1>4, <1>6, <1>7, <1>8

\* What ElementsAt selects: the elements at the positions, as many as there are
\* positions.
LEMMA AtSeq ==
  ASSUME NEW X, NEW s \in Seq(X), NEW p \in SUBSET (DOMAIN s)
  PROVE  /\ ElementsAt(s, p) \in Seq(X) /\ ToSet(ElementsAt(s, p)) = {s[i] : i \in p}
         /\ IsFiniteSet(p) /\ Cardinality(p) \in Nat /\ Len(ElementsAt(s, p)) = Cardinality(p)
<1>1. p \subseteq Nat /\ IsFiniteSet(p)
  <2>1. DOMAIN s = 1..Len(s) /\ Len(s) \in Nat
    OBVIOUS
  <2>2. IsFiniteSet(1..Len(s)) /\ p \in SUBSET (1..Len(s)) /\ p \subseteq Nat
    BY ONLY <2>1, p \in SUBSET (DOMAIN s), FS_Interval, SMTT(30)
  <2> QED BY <2>2, FS_Subset
<1>2. Sorted(p) \in Seq(p) /\ Len(Sorted(p)) = Cardinality(p) /\ Cardinality(p) \in Nat
      /\ DOMAIN Sorted(p) = 1..Cardinality(p) /\ ToSet(Sorted(p)) = p
  BY <1>1, SortedSeq
<1>3. \A k \in 1..Cardinality(p) : Sorted(p)[k] \in p
  BY <1>2 DEF ToSet
<1>4. ElementsAt(s, p) = [k \in 1..Cardinality(p) |-> s[Sorted(p)[k]]]
  BY <1>2 DEF ElementsAt
<1>5. \A k \in 1..Cardinality(p) : s[Sorted(p)[k]] \in X
  BY <1>3
<1>6. ElementsAt(s, p) \in Seq(X) /\ Len(ElementsAt(s, p)) = Cardinality(p)
  <2>1. PICK n \in Nat : n = Cardinality(p)
    BY <1>2
  <2>2. PICK q : q = ElementsAt(s, p)
    OBVIOUS
  <2>3. q \in [1..n -> X]
    BY ONLY <1>4, <1>5, <2>1, <2>2
  <2>4. q \in Seq(X) /\ Len(q) = n
    BY ONLY <2>3, n \in Nat
  <2> QED BY ONLY <2>1, <2>2, <2>4
<1>7. ToSet(ElementsAt(s, p)) = {s[i] : i \in p}
  BY <1>2, <1>3, <1>4 DEF ToSet
<1> QED BY <1>1, <1>2, <1>6, <1>7

\* Elements of sequences.
LEMMA ToSetConcat ==
  ASSUME NEW X, NEW s \in Seq(X), NEW t \in Seq(X)
  PROVE  s \o t \in Seq(X) /\ ToSet(s \o t) = ToSet(s) \cup ToSet(t)
<1>1. s \o t \in Seq(X) /\ Len(s \o t) = Len(s) + Len(t)
  OBVIOUS
<1>2. \A i \in DOMAIN s : i \in DOMAIN (s \o t) /\ (s \o t)[i] = s[i]
  BY <1>1
<1>3. \A i \in DOMAIN t : i + Len(s) \in DOMAIN (s \o t) /\ (s \o t)[i + Len(s)] = t[i]
  BY <1>1
<1>4. ASSUME NEW i \in DOMAIN (s \o t) PROVE (s \o t)[i] \in ToSet(s) \cup ToSet(t)
  <2>1. CASE i \in DOMAIN s
    BY <1>2, <2>1 DEF ToSet
  <2>2. CASE i \notin DOMAIN s
    <3>1. i - Len(s) \in DOMAIN t /\ (i - Len(s)) + Len(s) = i
      BY <1>1, <2>2
    <3> QED BY <1>3, <3>1 DEF ToSet
  <2> QED BY <2>1, <2>2
<1>5. ToSet(s \o t) \subseteq ToSet(s) \cup ToSet(t)
  BY <1>4 DEF ToSet
<1>6. ToSet(s) \subseteq ToSet(s \o t) /\ ToSet(t) \subseteq ToSet(s \o t)
  BY <1>2, <1>3 DEF ToSet
<1> QED BY <1>1, <1>5, <1>6

\* The elements of a sequence: the head, and those of the tail.
LEMMA ToSetTail ==
  ASSUME NEW X, NEW s \in Seq(X), s # <<>>
  PROVE  /\ Tail(s) \in Seq(X) /\ Head(s) \in X /\ Head(s) \in ToSet(s)
         /\ ToSet(s) = {Head(s)} \cup ToSet(Tail(s)) /\ ToSet(s) \subseteq X
<1>1. Tail(s) \in Seq(X) /\ Len(Tail(s)) = Len(s) - 1 /\ Len(s) \in Nat /\ Len(s) # 0
  OBVIOUS
<1>2. Head(s) = s[1] /\ 1 \in DOMAIN s
  OBVIOUS
<1>3. \A i \in DOMAIN Tail(s) : i + 1 \in DOMAIN s /\ Tail(s)[i] = s[i + 1]
  BY <1>1
<1>4. ASSUME NEW i \in DOMAIN s, i # 1 PROVE i - 1 \in DOMAIN Tail(s) /\ Tail(s)[i - 1] = s[i]
  BY <1>1, <1>4
<1>5. ToSet(s) \subseteq {Head(s)} \cup ToSet(Tail(s))
  BY <1>2, <1>4 DEF ToSet
<1>6. {Head(s)} \cup ToSet(Tail(s)) \subseteq ToSet(s)
  BY <1>2, <1>3 DEF ToSet
<1>7. ToSet(s) \subseteq X
  BY DEF ToSet
<1> QED BY <1>1, <1>2, <1>5, <1>6, <1>7

\* The elements of a longer sequence.
LEMMA ToSetAppend ==
  ASSUME NEW X, NEW s \in Seq(X), NEW e \in X
  PROVE  Append(s, e) \in Seq(X) /\ ToSet(Append(s, e)) = ToSet(s) \cup {e}
<1>1. Append(s, e) \in Seq(X) /\ Len(Append(s, e)) = Len(s) + 1
  OBVIOUS
<1>2. \A i \in DOMAIN s : i \in DOMAIN Append(s, e) /\ Append(s, e)[i] = s[i]
  OBVIOUS
<1>3. Len(s) + 1 \in DOMAIN Append(s, e) /\ Append(s, e)[Len(s) + 1] = e
  OBVIOUS
<1>4. \A i \in DOMAIN Append(s, e) : i \in DOMAIN s \/ i = Len(s) + 1
  BY <1>1
<1>5. ToSet(Append(s, e)) \subseteq ToSet(s) \cup {e}
  BY <1>2, <1>3, <1>4 DEF ToSet
<1>6. ToSet(s) \cup {e} \subseteq ToSet(Append(s, e))
  BY <1>2, <1>3 DEF ToSet
<1> QED BY <1>1, <1>5, <1>6

\* FlattenSeq concatenates.
LEMMA FlattenStep ==
  ASSUME NEW X, NEW ss \in Seq(Seq(X)), ss # <<>>
  PROVE  \E f : /\ f = [i \in 1..Len(ss) |-> IF i = 1 THEN ss[i] ELSE f[i - 1] \o ss[i]]
                /\ FlattenSeq(ss) = f[Len(ss)]
<1> DEFINE n == Len(ss)
           Y == Seq(X)
           G == [k \in 1..n |-> [t \in Seq(X) |-> t \o ss[k]]]
           Flat(f) == f = [i \in 1..n |-> IF i = 1 THEN ss[i] ELSE f[i - 1] \o ss[i]]
<1>1. n \in Nat /\ 1 \in Nat /\ 1 <= n /\ ss[1] \in Seq(X) /\ \A k \in 1..n : ss[k] \in Seq(X)
  OBVIOUS
<1>2. G \in [1..n -> [Seq(X) -> Seq(X)]]
  BY <1>1
<1>3. PICK f \in [1..n -> Seq(X)] : f[1] = ss[1] /\ \A k \in 1..n : k # 1 => f[k] = G[k][f[k - 1]]
  <2>1. ss[1] \in Y /\ G \in [1..n -> [Y -> Y]]
    BY <1>1, <1>2
  <2> HIDE DEF n, G, Y
  <2>2. \E f : DefinedBy(f, 1, n, Y, ss[1], G)
    BY <1>1, <2>1, Recursion
  <2> QED BY <2>2 DEF DefinedBy, Y
<1>4. ASSUME NEW i \in 1..n PROVE f[i] = IF i = 1 THEN ss[i] ELSE f[i - 1] \o ss[i]
  <2>1. CASE i = 1
    BY <1>3, <2>1
  <2>2. CASE i # 1
    <3>1. i - 1 \in 1..n
      BY <1>1, <2>2
    <3>2. f[i - 1] \in Seq(X)
      BY <1>3, <3>1
    <3> QED BY <1>3, <2>2, <3>1, <3>2
  <2> QED BY <2>1, <2>2
<1>5. Flat(f)
  BY <1>3, <1>4
<1>6. FlattenSeq(ss) = (CHOOSE g : Flat(g))[n]
  BY <1>1 DEF FlattenSeq
<1>7. Flat(CHOOSE g : Flat(g))
  <2> HIDE DEF Flat
  <2> QED BY <1>5
<1> QED BY <1>6, <1>7, Zenon

Elements(ss) == UNION {ToSet(ss[i]) : i \in DOMAIN ss}

\* The elements of a flattened sequence are those of its members.
LEMMA FlattenRange ==
  ASSUME NEW X, NEW ss \in Seq(Seq(X))
  PROVE  FlattenSeq(ss) \in Seq(X) /\ ToSet(FlattenSeq(ss)) = Elements(ss)
<1>1. CASE ss = <<>>
  BY <1>1 DEF FlattenSeq, ToSet, Elements
<1>2. CASE ss # <<>>
  <2> DEFINE n == Len(ss)
  <2>1. PICK f : f = [i \in 1..n |-> IF i = 1 THEN ss[i] ELSE f[i - 1] \o ss[i]] /\ FlattenSeq(ss) = f[n]
    BY <1>2, FlattenStep
  <2> DEFINE P == {k \in 1..n : f[k] \in Seq(X) /\ ToSet(f[k]) = UNION {ToSet(ss[i]) : i \in 1..k}}
  <2>2. n \in Nat /\ 1 <= n /\ DOMAIN ss = 1..n /\ \A k \in 1..n : ss[k] \in Seq(X)
    BY <1>2
  <2> HIDE DEF n
  <2>3. f[1] = ss[1] /\ \A k \in 1..(n - 1) : f[k + 1] = f[k] \o ss[k + 1]
    <3>1. \A k \in 1..n : f[k] = IF k = 1 THEN ss[k] ELSE f[k - 1] \o ss[k]
      BY <2>1
    <3>2. ASSUME NEW k \in 1..(n - 1) PROVE f[k + 1] = f[k] \o ss[k + 1]
      <4>1. k + 1 \in 1..n /\ k + 1 # 1 /\ (k + 1) - 1 = k
        BY <2>2
      <4> QED BY <3>1, <4>1
    <3>3. f[1] = ss[1]
      BY <2>2, <3>1
    <3> QED BY <3>2, <3>3
  <2>4. 1 \in P
    <3>1. 1 \in 1..n /\ 1..1 = {1}
      BY <2>2
    <3> QED BY <2>2, <2>3, <3>1
  <2>5. ASSUME NEW k \in 1..(n - 1), k \in P PROVE k + 1 \in P
    <3>1. k + 1 \in 1..n /\ 1..(k + 1) = (1..k) \cup {k + 1} /\ ss[k + 1] \in Seq(X)
      BY <2>2
    <3>2. f[k + 1] = f[k] \o ss[k + 1]
      BY <2>3
    <3>3. f[k + 1] \in Seq(X) /\ ToSet(f[k + 1]) = ToSet(f[k]) \cup ToSet(ss[k + 1])
      BY <2>5, <3>1, <3>2, ToSetConcat
    <3>4. UNION {ToSet(ss[i]) : i \in 1..(k + 1)} = (UNION {ToSet(ss[i]) : i \in 1..k}) \cup ToSet(ss[k + 1])
      BY <3>1
    <3> QED BY <2>5, <3>1, <3>3, <3>4
  <2>6. n \in P
    <3>1. 1..n \subseteq P
      <4> HIDE DEF P
      <4> QED BY <2>2, <2>4, <2>5, Induct
    <3>2. n \in 1..n
      BY <2>2
    <3> HIDE DEF P
    <3> QED BY <3>1, <3>2
  <2> QED BY <2>1, <2>2, <2>6 DEF Elements
<1> QED BY <1>1, <1>2

-------------------------------------------------------------------------------
\* Below(d, before) contains d, what its members that are not in before refer to, and
\* nothing else.

Step(before, s) == s \cup UNION {ToSet(refs[c]) : c \in s \ before}

\* A step down stays within the derivations.
LEMMA StepType ==
  ASSUME refs \in [Drv -> Seq(Drv)], NEW before, NEW s \in SUBSET Drv
  PROVE  Step(before, s) \in SUBSET Drv
<1>1. \A c \in Drv : ToSet(refs[c]) \subseteq Drv
  BY DEF ToSet
<1> QED BY <1>1 DEF Step

\* Below is the last of the steps down from d.
LEMMA BelowSteps ==
  ASSUME refs \in [Drv -> Seq(Drv)], NEW d \in Drv, NEW before
  PROVE  \E f : /\ f \in [0..Cardinality(Drv) -> SUBSET Drv] /\ f[0] = {d} /\ Cardinality(Drv) \in Nat
                /\ \A k \in 0..(Cardinality(Drv) - 1) : f[k + 1] = Step(before, f[k])
                /\ Below(d, before) = f[Cardinality(Drv)]
<1> DEFINE n == Cardinality(Drv)
           Y == SUBSET Drv
           G == [k \in 0..n |-> [s \in SUBSET Drv |-> Step(before, s)]]
           Goes(f) == f = [k \in 0..n |-> IF k = 0 THEN {d}
                             ELSE f[k - 1] \cup UNION {ToSet(refs[c]) : c \in f[k - 1] \ before}]
<1>1. n \in Nat /\ 0 \in Nat /\ 0 <= n /\ {d} \in SUBSET Drv
  BY FS_CardinalityType, TemplateAssumption
<1>2. G \in [0..n -> [SUBSET Drv -> SUBSET Drv]]
  BY StepType
<1>3. PICK f \in [0..n -> SUBSET Drv] : f[0] = {d} /\ \A k \in 0..n : k # 0 => f[k] = G[k][f[k - 1]]
  <2>1. {d} \in Y /\ G \in [0..n -> [Y -> Y]]
    BY <1>1, <1>2
  <2> HIDE DEF n, G, Y
  <2>2. \E f : DefinedBy(f, 0, n, Y, {d}, G)
    BY <1>1, <2>1, Recursion
  <2> QED BY <2>2 DEF DefinedBy, Y
<1>4. Goes(f)
  <2>1. ASSUME NEW k \in 0..n
        PROVE  f[k] = IF k = 0 THEN {d} ELSE f[k - 1] \cup UNION {ToSet(refs[c]) : c \in f[k - 1] \ before}
    <3>1. CASE k = 0
      BY <1>3, <3>1
    <3>2. CASE k # 0
      <4>1. k - 1 \in 0..n /\ f[k - 1] \in SUBSET Drv
        BY <1>1, <1>3, <3>2, SMTT(30)
      <4>2. f[k] = Step(before, f[k - 1])
        BY <1>3, <3>2, <4>1
      <4> QED BY <3>2, <4>2 DEF Step
    <3> QED BY <3>1, <3>2
  <2> QED BY <1>3, <2>1
<1>5. PICK g : g = (CHOOSE f0 : Goes(f0))
  OBVIOUS
<1>6. Below(d, before) = g[n] /\ Goes(g)
  <2>1. Below(d, before) = (CHOOSE f0 : Goes(f0))[n]
    BY DEF Below
  <2> HIDE DEF Goes
  <2> QED BY <1>4, <1>5, <2>1
<1>7. g[0] = {d} /\ DOMAIN g = 0..n
  BY <1>1, <1>6
<1>8. ASSUME NEW k \in 0..(n - 1) PROVE g[k + 1] = Step(before, g[k])
  <2>1. k + 1 \in 0..n /\ k + 1 # 0 /\ (k + 1) - 1 = k
    BY <1>1
  <2> QED BY <1>6, <2>1 DEF Step
<1>9. g \in [0..n -> SUBSET Drv]
  <2> DEFINE P == {k \in 0..n : g[k] \in SUBSET Drv}
  <2>1. 0 \in P
    BY <1>1, <1>7
  <2>2. ASSUME NEW k \in 0..(n - 1), k \in P PROVE k + 1 \in P
    <3>1. k + 1 \in 0..n /\ g[k] \in SUBSET Drv /\ g[k + 1] = Step(before, g[k])
      BY <1>1, <1>8, <2>2
    <3>2. Step(before, g[k]) \in SUBSET Drv
      BY <3>1, StepType
    <3> QED BY <3>1, <3>2
  <2>3. 0..n \subseteq P
    <3> HIDE DEF P, n
    <3> QED BY <1>1, <2>1, <2>2, Induct
  <2> QED BY <1>6, <1>7, <2>3
<1> QED BY <1>1, <1>6, <1>7, <1>8, <1>9

\* From step to step a set of derivations grows.
LEMMA StepsGrow ==
  ASSUME NEW n \in Nat, NEW before, NEW f \in [0..n -> SUBSET Drv],
         \A k \in 0..(n - 1) : f[k + 1] = Step(before, f[k]),
         NEW j \in 0..n
  PROVE  f[j] \subseteq f[n]
<1> DEFINE P == {k \in j..n : f[j] \subseteq f[k]}
<1>1. j \in P
  OBVIOUS
<1>2. ASSUME NEW k \in j..(n - 1), k \in P PROVE k + 1 \in P
  <2>1. f[k] \subseteq f[k + 1]
    BY DEF Step
  <2> QED BY <1>2, <2>1
<1>3. j..n \subseteq P
  <2>1. j \in Nat
    OBVIOUS
  <2> HIDE DEF P
  <2> QED BY <1>1, <1>2, <2>1, Induct
<1>4. n \in P
  BY <1>3
<1> QED BY <1>4

\* Nothing smaller is closed: what has d and the references of its members has all of
\* Below.
LEMMA BelowLeast ==
  ASSUME refs \in [Drv -> Seq(Drv)], NEW d \in Drv, NEW before, NEW T, d \in T,
         \A c \in (T \cap Below(d, before)) \ before : ToSet(refs[c]) \cap Below(d, before) \subseteq T
  PROVE  Below(d, before) \subseteq T
<1> DEFINE n == Cardinality(Drv)
<1>1. PICK f : /\ f \in [0..n -> SUBSET Drv] /\ f[0] = {d} /\ n \in Nat
               /\ \A k \in 0..(n - 1) : f[k + 1] = Step(before, f[k])
               /\ Below(d, before) = f[n]
  BY BelowSteps
<1> HIDE DEF n
<1> DEFINE P == {k \in 0..n : f[k] \subseteq T}
<1>2. 0 \in P
  BY <1>1
<1>3. \A k \in 0..n : f[k] \subseteq f[n]
  BY <1>1, StepsGrow
<1>4. ASSUME NEW k \in 0..(n - 1), k \in P PROVE k + 1 \in P
  <2>1. k \in 0..n /\ k + 1 \in 0..n /\ f[k + 1] = Step(before, f[k])
    BY <1>1
  <2>2. f[k] \subseteq f[n] /\ f[k + 1] \subseteq f[n] /\ f[k] \subseteq T
    BY <1>3, <1>4, <2>1
  <2>3. ASSUME NEW c \in f[k] \ before PROVE ToSet(refs[c]) \subseteq T
    <3>1. ToSet(refs[c]) \subseteq f[k + 1]
      BY <2>1 DEF Step
    <3> QED BY <1>1, <2>2, <3>1
  <2>4. f[k + 1] \subseteq T
    BY <2>1, <2>2, <2>3 DEF Step
  <2> QED BY <2>1, <2>4
<1>5. 0..n \subseteq P
  <2> HIDE DEF P
  <2> QED BY <1>1, <1>2, <1>4, Induct
<1>6. n \in P
  BY <1>1, <1>5
<1> QED BY <1>1, <1>6

\* Below has d and the references of its members, but of those in before.
LEMMA BelowClosed ==
  ASSUME refs \in [Drv -> Seq(Drv)], NEW d \in Drv, NEW before
  PROVE  /\ d \in Below(d, before) /\ Below(d, before) \subseteq Drv
         /\ \A c \in Below(d, before) \ before : ToSet(refs[c]) \subseteq Below(d, before)
<1> DEFINE n == Cardinality(Drv)
           Closed(s) == Step(before, s) = s
<1>1. PICK f : /\ f \in [0..n -> SUBSET Drv] /\ f[0] = {d} /\ n \in Nat
               /\ \A k \in 0..(n - 1) : f[k + 1] = Step(before, f[k])
               /\ Below(d, before) = f[n]
  BY BelowSteps
<1>2. \A s \in SUBSET Drv : IsFiniteSet(s) /\ Cardinality(s) \in Nat /\ Cardinality(s) <= n
  BY TemplateAssumption, FS_Subset, FS_CardinalityType
<1> HIDE DEF n, Closed
<1>3. d \in f[n] /\ f[n] \in SUBSET Drv
  <2>1. 0 \in 0..n /\ n \in 0..n
    BY <1>1
  <2>2. f[0] \subseteq f[n]
    BY <1>1, <2>1, StepsGrow
  <2> QED BY <1>1, <2>1, <2>2
<1> DEFINE P == {k \in 0..n : Cardinality(f[k]) > k \/ Closed(f[k])}
<1>4. 0 \in P
  <2>1. Cardinality({d}) = 1
    BY FS_Singleton
  <2>2. Cardinality(f[0]) = 1 /\ 0 \in 0..n
    BY <1>1, <2>1
  <2> QED BY <2>2
<1>5. ASSUME NEW k \in 0..(n - 1), k \in P PROVE k + 1 \in P
  <2>1. k \in 0..n /\ k + 1 \in 0..n /\ f[k + 1] = Step(before, f[k]) /\ f[k] \in SUBSET Drv /\ f[k + 1] \in SUBSET Drv
    BY <1>1
  <2>2. CASE Closed(f[k])
    BY <2>1, <2>2 DEF Closed
  <2>3. CASE ~Closed(f[k])
    <3>1. f[k] \subseteq f[k + 1] /\ f[k] # f[k + 1]
      BY <2>1, <2>3 DEF Closed, Step
    <3>2. Cardinality(f[k]) <= Cardinality(f[k + 1]) /\ Cardinality(f[k]) # Cardinality(f[k + 1])
      BY <1>2, <2>1, <3>1, FS_Subset
    <3>3. Cardinality(f[k]) > k
      BY <1>5, <2>3
    <3>4. Cardinality(f[k]) \in Nat /\ Cardinality(f[k + 1]) \in Nat /\ k \in Nat
      BY <1>1, <1>2, <2>1
    <3>5. Cardinality(f[k + 1]) > k + 1
      BY ONLY <3>2, <3>3, <3>4
    <3> QED BY ONLY <2>1, <3>5
  <2> QED BY <2>2, <2>3
<1>6. 0..n \subseteq P
  <2> HIDE DEF P
  <2> QED BY <1>1, <1>4, <1>5, Induct
<1>7. Closed(f[n])
  BY <1>1, <1>2, <1>3, <1>6
<1>8. \A c \in f[n] \ before : ToSet(refs[c]) \subseteq f[n]
  <2>1. f[n] \cup UNION {ToSet(refs[c]) : c \in f[n] \ before} = f[n]
    BY <1>7 DEF Closed, Step
  <2> QED BY <2>1
<1> QED BY <1>1, <1>3, <1>8

-------------------------------------------------------------------------------
\* The types of the state.

\* A derivation or none, and the nodes.
Derivation == Drv \cup {Nothing}
NodeRecord ==
  [key : Seq(Nat), role : Nat, children : Seq(Nat), stop : BOOLEAN, optional : BOOLEAN,
   enforce : Nat, seen : BOOLEAN]

\* What the work lists hold while the template has len nodes.
BuildItems(len) ==
  {w \in [parent : 0..len, left : Derivation, right : Derivation] :
     (w.left # Nothing \/ w.right # Nothing) /\ (Alone => w.left = w.right)}
WalkItems(len) ==
  {w \in [kind : {"pair", "extend"}, parent : 0..len, node : 0..len, drv : Drv, base : 0..len] :
     w.kind = "pair" => w.node # 0 /\ w.base = Nothing}

\* The types of the parts of the state, and when each part is in use.
TreesTyped == refs \in [Drv -> Seq(Drv)] /\ roots \in Seq(Drv)

ReadTyped ==
  /\ read \in 0..Len(roots) /\ expanded \in Seq(SUBSET Drv) /\ Len(expanded) = read
  /\ leftOver \subseteq Drv
  /\ pending \in Seq(1..read) /\ toWalk \in Seq(1..read) /\ column \in 0..read

Wellformed(ns) == ns \in Seq(NodeRecord) /\ \A n \in DOMAIN ns : ToSet(ns[n].children) \subseteq DOMAIN ns

NodesTyped ==
  /\ Wellformed(nodes)
  /\ rows \in Seq(Seq(Derivation)) /\ \A n \in DOMAIN rows : Len(rows[n]) = Position
  /\ Len(classes) \in Nat /\ Len(classes) <= Len(nodes)

PhaseTyped ==
  /\ phase \in {"read", "build", "walk", "closed"}
  /\ phase = "read" => work = <<>> /\ toWalk = <<>> /\ column = 0 /\ (nodes = <<>> \/ pending = <<>>)
  /\ phase = "build" => /\ rows = <<>> /\ column = 0 /\ toWalk = <<>> /\ pending # <<>>
                        /\ work \in Seq(BuildItems(Len(nodes))) /\ (work # <<>> \/ nodes # <<>>)
  /\ phase # "build" => Len(rows) = Len(nodes)
  /\ phase = "walk" => /\ nodes # <<>> /\ pending = <<>> /\ work \in Seq(WalkItems(Len(nodes)))
                       /\ work # <<>> => column # 0 /\ rows[1] # <<>>

TemplateTyped == TreesTyped /\ ReadTyped /\ NodesTyped /\ PhaseTyped

\* The types of the state imply the type invariant.
LEMMA TypedMeansTypeOK == TemplateTyped => TemplateTypeOK
<1> SUFFICES ASSUME TemplateTyped PROVE TemplateTypeOK
  OBVIOUS
<1> USE DEF TemplateTyped
<1>1. read \in 0..Len(roots) /\ column \in 0..Len(roots) /\ leftOver \subseteq Drv
  BY DEF TreesTyped, ReadTyped
<1>2. Len(rows) \in {0, Len(nodes)} /\ phase \in {"read", "build", "walk", "closed"} /\ Len(classes) <= Len(nodes)
  BY DEF NodesTyped, PhaseTyped
<1>3. \A n \in DOMAIN nodes : \A k \in ToSet(nodes[n].children) : k \in DOMAIN nodes
  BY DEF NodesTyped, Wellformed
<1>4. \A n \in DOMAIN rows : \A d \in ToSet(rows[n]) : d \in Drv \cup {Nothing}
  BY DEF NodesTyped, Derivation, ToSet
<1> QED BY <1>1, <1>2, <1>3, <1>4 DEF TemplateTypeOK

\* What the assumption says of the derivations and their roles.
LEMMA DrvFacts == Drv \subseteq Nat /\ 0 \notin Drv /\ Derivation \subseteq Nat /\ DrvRole \in [Drv -> Nat]
BY TemplateAssumption DEF Derivation, Nothing

\* The operators on the children of derivations.
LEMMA WithRoleSeq ==
  ASSUME NEW s \in Seq(Drv), NEW r
  PROVE  /\ WithRole(s, r) \in Seq(Drv) /\ ToSet(WithRole(s, r)) = {d \in ToSet(s) : DrvRole[d] = r}
         /\ Len(WithRole(s, r)) = Cardinality({i \in DOMAIN s : DrvRole[s[i]] = r})
<1> DEFINE p == {i \in DOMAIN s : DrvRole[s[i]] = r}
<1>1. p \in SUBSET (DOMAIN s)
  OBVIOUS
<1>2. ElementsAt(s, p) \in Seq(Drv) /\ ToSet(ElementsAt(s, p)) = {s[i] : i \in p} /\ Len(ElementsAt(s, p)) = Cardinality(p)
  <2> HIDE DEF p
  <2> QED BY <1>1, AtSeq
<1>3. {s[i] : i \in p} = {d \in ToSet(s) : DrvRole[d] = r}
  BY DEF ToSet
<1> QED BY <1>2, <1>3 DEF WithRole

\* The domain of a sequence.
LEMMA SeqDomain == ASSUME NEW X, NEW s \in Seq(X) PROVE DOMAIN s = 1..Len(s) /\ Len(s) \in Nat
  OBVIOUS

\* Counting up to the smaller of two numbers.
LEMMA ShorterRange ==
  ASSUME NEW a \in Nat, NEW b \in Nat, NEW n \in Nat, n = IF a < b THEN a ELSE b
  PROVE  1..n \subseteq 1..a /\ 1..n \subseteq 1..b
OBVIOUS

\* A sequence is one over any set that holds its elements.
LEMMA SeqWithin ==
  ASSUME NEW X, NEW Y, NEW s \in Seq(Y), \A i \in 1..Len(s) : s[i] \in X
  PROVE  s \in Seq(X)
<1>1. PICK n \in Nat : n = Len(s) /\ s = [i \in 1..n |-> s[i]]
  OBVIOUS
<1>2. s \in [1..n -> X]
  BY ONLY <1>1, \A i \in 1..Len(s) : s[i] \in X
<1> QED BY ONLY <1>2, n \in Nat

\* The elements of a sequence are finitely many, no more than its length.
LEMMA ToSetFinite ==
  ASSUME NEW X, NEW s \in Seq(X)
  PROVE  ToSet(s) \subseteq X /\ IsFiniteSet(ToSet(s)) /\ Cardinality(ToSet(s)) <= Len(s) /\ (ToSet(s) = {} <=> s = <<>>)
<1>1. DOMAIN s = 1..Len(s) /\ Len(s) \in Nat /\ s \in [1..Len(s) -> X]
  OBVIOUS
<1>2. s \in Surjection(1..Len(s), ToSet(s))
  BY <1>1 DEF Surjection, ToSet
<1>3. IsFiniteSet(1..Len(s)) /\ Cardinality(1..Len(s)) = Len(s)
  BY ONLY <1>1, FS_Interval, SMTT(30)
<1>4. IsFiniteSet(ToSet(s)) /\ Cardinality(ToSet(s)) <= Len(s)
  BY <1>2, <1>3, FS_Surjection
<1>5. ToSet(s) \subseteq X
  BY <1>1 DEF ToSet
<1>6. s # <<>> => s[1] \in ToSet(s)
  BY <1>1 DEF ToSet
<1>7. s = <<>> => ToSet(s) = {}
  BY DEF ToSet
<1> QED BY <1>4, <1>5, <1>6, <1>7

\* The roles of some derivations are finitely many numbers.
LEMMA RolesFinite ==
  ASSUME NEW s \in Seq(Drv)
  PROVE  Roles(s) \subseteq Nat /\ IsFiniteSet(Roles(s))
<1>1. ToSet(s) \subseteq Drv /\ IsFiniteSet(ToSet(s))
  BY ToSetFinite
<1>2. Roles(s) \subseteq Nat
  BY <1>1, DrvFacts DEF Roles
<1>3. [d \in ToSet(s) |-> DrvRole[d]] \in Surjection(ToSet(s), Roles(s))
  BY DEF Surjection, Roles
<1> QED BY <1>1, <1>2, <1>3, FS_Surjection

\* The children of a derivation are derivations.
LEMMA ChildrenSeq ==
  ASSUME TreesTyped, NEW v, NEW d \in Drv
  PROVE  Children(v, d) \in Seq(Drv)
BY DEF TreesTyped, Children

\* What ByRole puts together.
LEMMA ByRoleSeq ==
  ASSUME NEW X, NEW S, S \subseteq Nat, IsFiniteSet(S), NEW f, \A r \in S : f[r] \in Seq(X),
         NEW t, t = [i \in DOMAIN Sorted(S) |-> f[Sorted(S)[i]]]
  PROVE  FlattenSeq(t) \in Seq(X) /\ ToSet(FlattenSeq(t)) = UNION {ToSet(f[r]) : r \in S}
<1>1. Sorted(S) \in Seq(S) /\ DOMAIN Sorted(S) = 1..Cardinality(S) /\ Cardinality(S) \in Nat /\ ToSet(Sorted(S)) = S
  BY SortedSeq
<1>2. PICK q : q = Sorted(S)
  OBVIOUS
<1>3. PICK n \in Nat : DOMAIN q = 1..n
  BY <1>1, <1>2
<1>4. \A i \in 1..n : q[i] \in S
  BY <1>1, <1>2, <1>3 DEF ToSet
<1>5. \A r \in S : \E i \in 1..n : q[i] = r
  BY <1>1, <1>2, <1>3 DEF ToSet
<1>6. t = [i \in 1..n |-> f[q[i]]]
  BY <1>2, <1>3
<1>7. \A i \in 1..n : f[q[i]] \in Seq(X)
  BY <1>4
<1>8. t \in Seq(Seq(X)) /\ DOMAIN t = 1..n
  BY <1>6, <1>7
<1>9. FlattenSeq(t) \in Seq(X) /\ ToSet(FlattenSeq(t)) = Elements(t)
  BY <1>8, FlattenRange
<1>10. \A i \in 1..n : t[i] = f[q[i]]
  BY <1>6
<1>11. ASSUME NEW e \in Elements(t) PROVE e \in UNION {ToSet(f[r]) : r \in S}
  <2>1. PICK i \in DOMAIN t : e \in ToSet(t[i])
    BY DEF Elements
  <2>2. q[i] \in S /\ e \in ToSet(f[q[i]])
    BY <1>4, <1>8, <1>10, <2>1
  <2> QED BY <2>2
<1>12. ASSUME NEW r \in S PROVE ToSet(f[r]) \subseteq Elements(t)
  <2>1. PICK i \in 1..n : q[i] = r
    BY <1>5
  <2> QED BY <1>8, <1>10, <2>1 DEF Elements
<1> QED BY <1>9, <1>11, <1>12

\* One-sided children are items of the builder.
LEMMA OneSidedTyped ==
  ASSUME NEW len \in Nat, NEW n \in 0..len, ~Alone, NEW s \in Seq(Drv), NEW left \in BOOLEAN
  PROVE  OneSided(n, s, left) \in Seq(BuildItems(len))
<1>1. \A i \in 1..Len(s) : s[i] \in Derivation /\ s[i] # Nothing /\ Nothing \in Derivation
  BY DrvFacts DEF Derivation, Nothing
<1>2. \A i \in 1..Len(s) : [parent |-> n, left |-> IF left THEN s[i] ELSE Nothing, right |-> IF left THEN Nothing ELSE s[i]]
                             \in BuildItems(len)
  BY <1>1 DEF BuildItems
<1> QED BY <1>2 DEF OneSided

\* Paired children are items of the builder.
LEMMA RolePairsTyped ==
  ASSUME NEW len \in Nat, NEW n \in 0..len, ~Alone, NEW a \in Seq(Drv), NEW b \in Seq(Drv), NEW r
  PROVE  RolePairs(n, a, b, r) \in Seq(BuildItems(len))
<1>1. ASSUME NEW s \in Seq(Drv) PROVE Sorted(ToSet(WithRole(s, r))) \in Seq(Drv)
  <2>1. WithRole(s, r) \in Seq(Drv)
    BY WithRoleSeq
  <2>2. ToSet(WithRole(s, r)) \subseteq Drv /\ IsFiniteSet(ToSet(WithRole(s, r)))
    BY <2>1, ToSetFinite
  <2>3. Sorted(ToSet(WithRole(s, r))) \in Seq(ToSet(WithRole(s, r)))
    BY <2>2, DrvFacts, SortedSeq
  <2> QED BY <2>2, <2>3
<1>2. PICK ls \in Seq(Drv) : ls = Sorted(ToSet(WithRole(a, r)))
  BY <1>1
<1>3. PICK rs \in Seq(Drv) : rs = Sorted(ToSet(WithRole(b, r)))
  BY <1>1
<1>4. PICK m \in Nat : m = (IF Len(ls) < Len(rs) THEN Len(ls) ELSE Len(rs))
  OBVIOUS
<1>5. RolePairs(n, a, b, r) = [i \in 1..m |-> [parent |-> n, left |-> ls[i], right |-> rs[i]]]
  BY <1>2, <1>3, <1>4 DEF RolePairs
<1>6. \A i \in 1..m : ls[i] \in Drv /\ rs[i] \in Drv
  BY <1>4
<1>7. \A i \in 1..m : [parent |-> n, left |-> ls[i], right |-> rs[i]] \in BuildItems(len)
  BY <1>6, DrvFacts DEF BuildItems, Derivation, Nothing
<1>8. RolePairs(n, a, b, r) \in [1..m -> BuildItems(len)]
  BY <1>5, <1>7
<1> QED BY <1>8

\* What is walked below a node are items of the builder.
LEMMA PairChildrenTyped ==
  ASSUME TreesTyped, NEW len \in Nat, NEW n \in 0..len, NEW w \in BuildItems(len)
  PROVE  PairChildren(n, w) \in Seq(BuildItems(len))
<1> DEFINE a == IF w.left = Nothing THEN <<>> ELSE Children(First, w.left)
           b == IF w.right = Nothing THEN <<>> ELSE Children(Second, w.right)
           both == Roles(a) \cap Roles(b)
           shared == IF a # <<>> THEN a ELSE b
<1>1. w.left \in Derivation /\ w.right \in Derivation /\ (w.left # Nothing \/ w.right # Nothing)
      /\ (Alone => w.left = w.right)
  BY DEF BuildItems
<1>2. a \in Seq(Drv) /\ b \in Seq(Drv)
  BY <1>1, ChildrenSeq DEF Derivation
<1>3. CASE w.right = Nothing
  <2>1. PairChildren(n, w) = OneSided(n, a, TRUE)
    BY <1>1, <1>3 DEF PairChildren
  <2> HIDE DEF a
  <2> QED BY <1>1, <1>2, <1>3, <2>1, OneSidedTyped
<1>4. CASE w.right # Nothing /\ w.left = Nothing
  <2>1. PairChildren(n, w) = OneSided(n, b, FALSE)
    BY <1>4, ZenonT(120) DEF PairChildren
  <2> HIDE DEF b
  <2> QED BY <1>1, <1>2, <1>4, <2>1, OneSidedTyped
<1>5. CASE w.right # Nothing /\ w.left # Nothing /\ w.left = w.right
  <2>1. PairChildren(n, w) = [i \in DOMAIN shared |-> [parent |-> n, left |-> shared[i], right |-> shared[i]]]
    BY <1>5 DEF PairChildren
  <2> HIDE DEF a, b
  <2>2. shared \in Seq(Drv)
    BY <1>2
  <2> HIDE DEF shared
  <2>3. \A i \in 1..Len(shared) : [parent |-> n, left |-> shared[i], right |-> shared[i]] \in BuildItems(len)
    BY <2>2, DrvFacts DEF BuildItems, Derivation, Nothing
  <2> QED BY <2>1, <2>2, <2>3
<1>6. CASE w.right # Nothing /\ w.left # Nothing /\ w.left # w.right
  <2> DEFINE f1 == [r \in Roles(a) \ both |-> OneSided(n, WithRole(a, r), TRUE)]
             f2 == [r \in Roles(b) \ both |-> OneSided(n, WithRole(b, r), FALSE)]
             f3 == [r \in both |-> RolePairs(n, a, b, r)]
             t1 == [i \in DOMAIN Sorted(Roles(a) \ both) |-> OneSided(n, WithRole(a, Sorted(Roles(a) \ both)[i]), TRUE)]
             t2 == [i \in DOMAIN Sorted(Roles(b) \ both) |-> OneSided(n, WithRole(b, Sorted(Roles(b) \ both)[i]), FALSE)]
             t3 == [i \in DOMAIN Sorted(both) |-> RolePairs(n, a, b, Sorted(both)[i])]
  <2>1. PairChildren(n, w) = FlattenSeq(t1) \o FlattenSeq(t2) \o FlattenSeq(t3)
    BY <1>6 DEF PairChildren, ByRole
  <2>2. ~Alone
    BY <1>1, <1>6
  <2> HIDE DEF a, b
  <2>3. /\ Roles(a) \ both \subseteq Nat /\ IsFiniteSet(Roles(a) \ both)
        /\ Roles(b) \ both \subseteq Nat /\ IsFiniteSet(Roles(b) \ both)
        /\ both \subseteq Nat /\ IsFiniteSet(both)
    <3>1. Roles(a) \subseteq Nat /\ IsFiniteSet(Roles(a)) /\ Roles(b) \subseteq Nat /\ IsFiniteSet(Roles(b))
      BY <1>2, RolesFinite
    <3> QED BY <3>1, FS_Subset
  <2>4. /\ \A r \in Roles(a) \ both : f1[r] \in Seq(BuildItems(len))
        /\ \A r \in Roles(b) \ both : f2[r] \in Seq(BuildItems(len))
        /\ \A r \in both : f3[r] \in Seq(BuildItems(len))
    <3>1. \A r : OneSided(n, WithRole(a, r), TRUE) \in Seq(BuildItems(len))
      BY <1>2, <2>2, WithRoleSeq, OneSidedTyped
    <3>2. \A r : OneSided(n, WithRole(b, r), FALSE) \in Seq(BuildItems(len))
      BY <1>2, <2>2, WithRoleSeq, OneSidedTyped
    <3>3. \A r : RolePairs(n, a, b, r) \in Seq(BuildItems(len))
      BY <1>2, <2>2, RolePairsTyped
    <3> QED BY <3>1, <3>2, <3>3
  <2>5. /\ t1 = [i \in DOMAIN Sorted(Roles(a) \ both) |-> f1[Sorted(Roles(a) \ both)[i]]]
        /\ t2 = [i \in DOMAIN Sorted(Roles(b) \ both) |-> f2[Sorted(Roles(b) \ both)[i]]]
        /\ t3 = [i \in DOMAIN Sorted(both) |-> f3[Sorted(both)[i]]]
    <3> HIDE DEF both
    <3>1. ASSUME NEW S, S \subseteq Nat, IsFiniteSet(S) PROVE \A i \in DOMAIN Sorted(S) : Sorted(S)[i] \in S
      <4>1. ToSet(Sorted(S)) = S
        BY <3>1, SortedSeq
      <4> QED BY <4>1 DEF ToSet
    <3> QED BY <2>3, <3>1
  <2> HIDE DEF both, f1, f2, f3, t1, t2, t3
  <2>6. FlattenSeq(t1) \in Seq(BuildItems(len)) /\ FlattenSeq(t2) \in Seq(BuildItems(len))
        /\ FlattenSeq(t3) \in Seq(BuildItems(len))
    BY <2>3, <2>4, <2>5, ByRoleSeq
  <2> QED BY <2>1, <2>6, SMTT(30)
<1> QED BY <1>1, <1>3, <1>4, <1>5, <1>6

\* The items of the children of a derivation in the walk: with the node of the same role,
\* when there is one.
ChildItems(len, kids) ==
  {w \in WalkItems(len) :
     /\ w.base = Nothing /\ w.drv \in ToSet(kids)
     /\ w.kind = "pair" => w.node \in DOMAIN nodes /\ nodes[w.node].role = DrvRole[w.drv]}

\* The fields of a node.
LEMMA NodeFields ==
  ASSUME NEW ns, Wellformed(ns), NEW n \in DOMAIN ns
  PROVE  /\ ns[n] \in NodeRecord
         /\ ns[n].key \in Seq(Nat) /\ ns[n].role \in Nat /\ ns[n].children \in Seq(Nat)
         /\ ns[n].stop \in BOOLEAN /\ ns[n].enforce \in Nat /\ ns[n].seen \in BOOLEAN
         /\ ToSet(ns[n].children) \subseteq DOMAIN ns
         /\ Len(ns) \in Nat /\ DOMAIN ns = 1..Len(ns) /\ n \in 1..Len(ns)
<1>1. ns \in Seq(NodeRecord) /\ ToSet(ns[n].children) \subseteq DOMAIN ns
  BY DEF Wellformed
<1>2. ns[n] \in NodeRecord /\ Len(ns) \in Nat /\ DOMAIN ns = 1..Len(ns)
  BY <1>1
<1> QED BY <1>1, <1>2 DEF NodeRecord

\* Every child whose role the template does not have is an extension.
LEMMA ExtensionItems ==
  ASSUME TreesTyped, Wellformed(nodes), NEW m \in DOMAIN nodes, NEW d \in Drv
  PROVE  /\ Extensions(m, d) \in Seq(ChildItems(Len(nodes), Children(column, d)))
         /\ \A c \in ToSet(Children(column, d)) :
              DrvRole[c] \notin TemplateRoles(m) => \E w \in ToSet(Extensions(m, d)) : w.drv = c
         /\ \A w \in ToSet(Extensions(m, d)) : w.kind = "extend" /\ DrvRole[w.drv] \notin TemplateRoles(m)
<1>1. PICK kids \in Seq(Drv) : kids = Children(column, d)
  BY ChildrenSeq
<1>2. PICK S : S = Roles(kids) \ TemplateRoles(m)
  OBVIOUS
<1> DEFINE Item1(c) == [kind |-> "extend", parent |-> m, node |-> Nothing, drv |-> c, base |-> Nothing]
           X == ChildItems(Len(nodes), kids)
           f == [r \in S |-> [i \in DOMAIN WithRole(kids, r) |-> Item1(WithRole(kids, r)[i])]]
           t == [i \in DOMAIN Sorted(S) |-> f[Sorted(S)[i]]]
<1>3. S \subseteq Nat /\ IsFiniteSet(S)
  BY <1>2, RolesFinite, FS_Subset
<1>4. Len(nodes) \in Nat /\ m \in 1..Len(nodes)
  BY DEF Wellformed
<1>5. \A c \in ToSet(kids) : Item1(c) \in X
  <2>1. ToSet(kids) \subseteq Drv
    BY ToSetFinite
  <2> QED BY <1>4, <2>1 DEF ChildItems, WalkItems, Nothing
<1>6. ASSUME NEW r \in S
      PROVE  /\ f[r] \in Seq(X) /\ \A c \in ToSet(kids) : DrvRole[c] = r => \E w \in ToSet(f[r]) : w.drv = c
             /\ \A w \in ToSet(f[r]) : w.kind = "extend" /\ DrvRole[w.drv] = r
  <2>1. PICK s \in Seq(Drv) : s = WithRole(kids, r) /\ ToSet(s) = {c \in ToSet(kids) : DrvRole[c] = r}
    BY WithRoleSeq
  <2>2. \A i \in 1..Len(s) : s[i] \in ToSet(kids)
    <3>1. ToSet(s) \subseteq ToSet(kids) /\ \A i \in 1..Len(s) : i \in DOMAIN s
      BY ONLY <2>1, s \in Seq(Drv)
    <3> QED BY ONLY <3>1 DEF ToSet
  <2>3. f[r] = [i \in 1..Len(s) |-> Item1(s[i])]
    BY <2>1
  <2>4. \A i \in 1..Len(s) : Item1(s[i]) \in X
    BY <1>5, <2>2
  <2> HIDE DEF X, f
  <2>5. f[r] \in [1..Len(s) -> X]
    BY <2>3, <2>4
  <2>6. f[r] \in Seq(X)
    BY <2>5, SMTT(30)
  <2>7. ASSUME NEW c \in ToSet(kids), DrvRole[c] = r PROVE \E w \in ToSet(f[r]) : w.drv = c
    <3>1. PICK i \in 1..Len(s) : s[i] = c
      BY <2>1, <2>7 DEF ToSet
    <3>2. f[r][i] = Item1(c) /\ i \in DOMAIN f[r]
      BY <2>3, <3>1
    <3>3. f[r][i] \in ToSet(f[r])
      BY <3>2 DEF ToSet
    <3> QED BY <3>2, <3>3
  <2>8. ASSUME NEW w \in ToSet(f[r]) PROVE w.kind = "extend" /\ DrvRole[w.drv] = r
    <3>1. PICK i \in 1..Len(s) : w = Item1(s[i])
      BY <2>3, <2>8 DEF ToSet
    <3>2. s[i] \in ToSet(s)
      BY DEF ToSet
    <3>3. DrvRole[s[i]] = r
      BY <2>1, <3>2
    <3> QED BY <3>1, <3>3
  <2> QED BY <2>6, <2>7, <2>8
<1>7. Extensions(m, d) = FlattenSeq(t)
  <2>1. \A i \in DOMAIN Sorted(S) : Sorted(S)[i] \in S
    <3>1. ToSet(Sorted(S)) = S
      BY <1>3, SortedSeq
    <3> QED BY <3>1 DEF ToSet
  <2>2. t = [i \in DOMAIN Sorted(S) |->
               [j \in DOMAIN WithRole(kids, Sorted(S)[i]) |-> Item1(WithRole(kids, Sorted(S)[i])[j])]]
    BY <2>1
  <2>3. Extensions(m, d) = FlattenSeq([i \in DOMAIN Sorted(S) |->
               [j \in DOMAIN WithRole(kids, Sorted(S)[i]) |-> Item1(WithRole(kids, Sorted(S)[i])[j])]])
    BY <1>1, <1>2 DEF Extensions, ByRole
  <2> QED BY <2>2, <2>3
<1>8. \A r \in S : f[r] \in Seq(X)
  BY <1>6
<1> HIDE DEF f, X
<1>9. FlattenSeq(t) \in Seq(X) /\ ToSet(FlattenSeq(t)) = UNION {ToSet(f[r]) : r \in S}
  <2>1. PICK t1 : t1 = t
    OBVIOUS
  <2>2. FlattenSeq(t1) \in Seq(X) /\ ToSet(FlattenSeq(t1)) = UNION {ToSet(f[r]) : r \in S}
    BY <1>3, <1>8, <2>1, ByRoleSeq, SMTT(30)
  <2> QED BY <2>1, <2>2
<1>10. ASSUME NEW c \in ToSet(kids), DrvRole[c] \notin TemplateRoles(m)
       PROVE  \E w \in ToSet(Extensions(m, d)) : w.drv = c
  <2>1. DrvRole[c] \in S
    BY <1>2, <1>10 DEF Roles
  <2>2. PICK w \in ToSet(f[DrvRole[c]]) : w.drv = c
    BY <1>6, <2>1
  <2> QED BY <1>7, <1>9, <2>1, <2>2
<1>11. ASSUME NEW w \in ToSet(Extensions(m, d)) PROVE w.kind = "extend" /\ DrvRole[w.drv] \notin TemplateRoles(m)
  <2>1. PICK r \in S : w \in ToSet(f[r])
    BY <1>7, <1>9, <1>11
  <2> QED BY <1>2, <1>6, <2>1
<1> QED BY <1>1, <1>7, <1>9, <1>10, <1>11 DEF X

\* When both sides have as many children of a role, every child of the role is paired.
LEMMA SameRoleItems ==
  ASSUME TreesTyped, Wellformed(nodes), NEW m \in DOMAIN nodes, NEW d \in Drv, NEW r
  PROVE  /\ SameRole(m, d, r) \in Seq(ChildItems(Len(nodes), Children(column, d)))
         /\ Cardinality({c \in ToSet(nodes[m].children) : nodes[c].role = r}) = Len(WithRole(Children(column, d), r))
              => \A c \in ToSet(Children(column, d)) :
                   DrvRole[c] = r => \E w \in ToSet(SameRole(m, d, r)) : w.drv = c
<1>1. PICK kids \in Seq(Drv) : kids = Children(column, d)
  BY ChildrenSeq
<1>2. PICK all \in Seq(DOMAIN nodes) : all = nodes[m].children
  <2>1. nodes[m].children \in Seq(Nat) /\ ToSet(nodes[m].children) \subseteq DOMAIN nodes
    BY NodeFields
  <2>2. \A i \in 1..Len(nodes[m].children) : nodes[m].children[i] \in DOMAIN nodes
    BY <2>1 DEF ToSet
  <2> QED BY ONLY <2>1, <2>2, SeqWithin
<1>3. PICK p : p = {i \in DOMAIN all : nodes[all[i]].role = r}
  OBVIOUS
<1>4. PICK cs \in Seq(DOMAIN nodes) : cs = ElementsAt(all, p) /\ ToSet(cs) = {all[i] : i \in p} /\ Len(cs) = Cardinality(p)
  <2>1. p \in SUBSET (DOMAIN all)
    BY <1>3
  <2> QED BY <2>1, AtSeq
<1>5. PICK D : D = ToSet(WithRole(kids, r))
  OBVIOUS
<1>6. D = {c \in ToSet(kids) : DrvRole[c] = r} /\ D \subseteq Drv /\ IsFiniteSet(D)
      /\ Cardinality(D) <= Len(WithRole(kids, r))
  <2>1. WithRole(kids, r) \in Seq(Drv) /\ D = {c \in ToSet(kids) : DrvRole[c] = r}
    BY <1>5, WithRoleSeq
  <2> QED BY ONLY <1>5, <2>1, ToSetFinite, ZenonT(120)
<1>7. PICK ds \in Seq(D) : ds = Sorted(D) /\ Len(ds) = Cardinality(D) /\ ToSet(ds) = D /\ Cardinality(D) \in Nat
  BY <1>6, SortedSeq, DrvFacts
<1>8. PICK n \in Nat : n = (IF Len(cs) < Len(ds) THEN Len(cs) ELSE Len(ds))
  OBVIOUS
<1> DEFINE Item1(i) == [kind |-> "pair", parent |-> m, node |-> cs[i], drv |-> ds[i], base |-> Nothing]
           X == ChildItems(Len(nodes), kids)
<1>9. SameRole(m, d, r) = [i \in 1..n |-> Item1(i)]
  BY <1>1, <1>2, <1>3, <1>4, <1>5, <1>7, <1>8 DEF SameRole
<1>10. ASSUME NEW i \in 1..n PROVE Item1(i) \in X
  <2>1. i \in 1..Len(cs) /\ i \in 1..Len(ds)
    BY <1>8
  <2>2. cs[i] \in ToSet(cs) /\ cs[i] \in DOMAIN nodes /\ ds[i] \in D
    BY <2>1 DEF ToSet
  <2>3. nodes[cs[i]].role = r
    BY <1>3, <1>4, <2>2
  <2>4. ds[i] \in ToSet(kids) /\ ds[i] \in Drv /\ DrvRole[ds[i]] = r
    BY <1>6, <2>2
  <2>5. Len(nodes) \in Nat /\ DOMAIN nodes = 1..Len(nodes)
    BY DEF Wellformed
  <2> QED BY ONLY <2>2, <2>3, <2>4, <2>5, m \in DOMAIN nodes, SMTT(30) DEF ChildItems, WalkItems, Nothing
<1> HIDE DEF X
<1>11. SameRole(m, d, r) \in [1..n -> X]
  BY <1>9, <1>10
<1>12. SameRole(m, d, r) \in Seq(X)
  BY <1>11
<1>13. ASSUME Cardinality({c \in ToSet(nodes[m].children) : nodes[c].role = r}) = Len(WithRole(kids, r)),
              NEW c \in ToSet(kids), DrvRole[c] = r
       PROVE  \E w \in ToSet(SameRole(m, d, r)) : w.drv = c
  <2>1. {e \in ToSet(nodes[m].children) : nodes[e].role = r} = ToSet(cs)
    <3>1. ToSet(cs) = {all[i] : i \in {j \in DOMAIN all : nodes[all[j]].role = r}}
      BY ONLY <1>3, <1>4
    <3>2. ToSet(nodes[m].children) = {all[i] : i \in DOMAIN all}
      BY ONLY <1>2 DEF ToSet
    <3> QED BY ONLY <3>1, <3>2
  <2>2. Cardinality(ToSet(cs)) <= Len(cs) /\ Cardinality(ToSet(cs)) = Len(WithRole(kids, r))
    BY <1>13, <2>1, ToSetFinite
  <2>3. WithRole(kids, r) \in Seq(Drv)
    BY WithRoleSeq
  <2>4. Len(ds) <= Len(cs)
    <3>1. Len(WithRole(kids, r)) \in Nat
      BY <2>3
    <3> QED BY <1>6, <1>7, <2>2, <3>1
  <2>5. n = Len(ds)
    BY <1>8, <2>4
  <2>6. PICK i \in 1..Len(ds) : ds[i] = c
    <3>1. c \in ToSet(ds)
      BY <1>6, <1>7, <1>13
    <3> QED BY <3>1 DEF ToSet
  <2>7. i \in DOMAIN SameRole(m, d, r) /\ SameRole(m, d, r)[i] = Item1(i)
    BY <1>9, <2>5, <2>6
  <2>8. Item1(i) \in ToSet(SameRole(m, d, r)) /\ Item1(i).drv = c
    BY <2>6, <2>7 DEF ToSet
  <2> QED BY <2>8
<1> QED BY <1>1, <1>12, <1>13 DEF X

\* What WalkChildren puts before the rest of the work.
Walked(m, d) == Extensions(m, d) \o ByRole(LAMBDA r : SameRole(m, d, r), CommonRoles(m, d))

\* Without a mismatch every child is walked, as an extension or paired.
LEMMA WalkedItems ==
  ASSUME TreesTyped, Wellformed(nodes), NEW m \in DOMAIN nodes, NEW d \in Drv
  PROVE  /\ Walked(m, d) \in Seq(ChildItems(Len(nodes), Children(column, d)))
         /\ ~Mismatch(m, d) => \A c \in ToSet(Children(column, d)) : \E w \in ToSet(Walked(m, d)) : w.drv = c
<1>1. PICK kids \in Seq(Drv) : kids = Children(column, d)
  BY ChildrenSeq
<1>2. PICK S : S = CommonRoles(m, d)
  OBVIOUS
<1> DEFINE X == ChildItems(Len(nodes), kids)
<1>0. PICK f : f = [r \in S |-> SameRole(m, d, r)]
  OBVIOUS
<1>3. S \subseteq Nat /\ IsFiniteSet(S) /\ S = TemplateRoles(m) \cap Roles(kids)
  <2>1. S = TemplateRoles(m) \cap Roles(kids)
    BY <1>1, <1>2 DEF CommonRoles
  <2>2. Roles(kids) \subseteq Nat /\ IsFiniteSet(Roles(kids))
    BY RolesFinite
  <2> QED BY <2>1, <2>2, FS_Subset
<1>4. \A r \in S : f[r] \in Seq(X)
  BY <1>0, <1>1, SameRoleItems
<1>5. PICK t : t = [i \in DOMAIN Sorted(S) |-> f[Sorted(S)[i]]]
  OBVIOUS
<1>6. ByRole(LAMBDA r : SameRole(m, d, r), CommonRoles(m, d)) = FlattenSeq(t)
  <2>1. \A i \in DOMAIN Sorted(S) : Sorted(S)[i] \in S
    <3>1. ToSet(Sorted(S)) = S
      BY <1>3, SortedSeq
    <3> QED BY <3>1 DEF ToSet
  <2>2. t = [i \in DOMAIN Sorted(S) |-> SameRole(m, d, Sorted(S)[i])]
    BY <1>0, <1>5, <2>1
  <2> QED BY <1>2, <2>2 DEF ByRole
<1>7. Extensions(m, d) \in Seq(X)
  BY <1>1, ExtensionItems
<1> HIDE DEF X
<1>8. FlattenSeq(t) \in Seq(X) /\ ToSet(FlattenSeq(t)) = UNION {ToSet(f[r]) : r \in S}
  <2>1. S \subseteq Nat /\ IsFiniteSet(S)
    BY <1>3
  <2>2. \A r \in S : f[r] \in Seq(X)
    BY <1>4
  <2> QED BY <1>5, <2>1, <2>2, ByRoleSeq
<1>9. Walked(m, d) \in Seq(X) /\ ToSet(Walked(m, d)) = ToSet(Extensions(m, d)) \cup ToSet(FlattenSeq(t))
  <2>1. PICK e \in Seq(X) : e = Extensions(m, d)
    BY <1>7
  <2>2. PICK g \in Seq(X) : g = FlattenSeq(t)
    BY <1>8
  <2>3. Walked(m, d) = e \o g
    BY <1>6, <2>1, <2>2 DEF Walked
  <2>4. e \o g \in Seq(X) /\ ToSet(e \o g) = ToSet(e) \cup ToSet(g)
    BY ToSetConcat
  <2> QED BY <2>1, <2>2, <2>3, <2>4
<1>10. ASSUME ~Mismatch(m, d), NEW c \in ToSet(kids) PROVE \E w \in ToSet(Walked(m, d)) : w.drv = c
  <2>1. CASE DrvRole[c] \notin TemplateRoles(m)
    BY <1>1, <1>9, <2>1, ExtensionItems
  <2>2. CASE DrvRole[c] \in TemplateRoles(m)
    <3>1. DrvRole[c] \in S
      BY <1>3, <2>2 DEF Roles
    <3>2. Cardinality({e \in ToSet(nodes[m].children) : nodes[e].role = DrvRole[c]}) = Len(WithRole(kids, DrvRole[c]))
      BY <1>1, <1>2, <1>10, <3>1 DEF Mismatch
    <3>3. PICK w \in ToSet(SameRole(m, d, DrvRole[c])) : w.drv = c
      BY <1>1, <3>2, SameRoleItems, SMTT(30)
    <3> QED BY <1>0, <1>8, <1>9, <3>1, <3>3
  <2> QED BY <2>1, <2>2
<1> QED BY <1>1, <1>9, <1>10 DEF X

-------------------------------------------------------------------------------
\* What the steps do to the nodes.

\* The nodes of ns are still there in ms, for the same derivations.
Keeps(ns, ms) ==
  /\ Len(ns) <= Len(ms)
  /\ \A n \in DOMAIN ns : n \in DOMAIN ms /\ ms[n].key = ns[n].key /\ ms[n].role = ns[n].role /\ ms[n].stop = ns[n].stop

KeepsSeen(ns, ms) == \A n \in DOMAIN ns : ms[n].seen = ns[n].seen

\* What makes a sequence of nodes a template.
LEMMA WellformedIf ==
  ASSUME NEW len \in Nat, NEW ns \in [1..len -> NodeRecord],
         \A n \in 1..len : ToSet(ns[n].children) \subseteq 1..len
  PROVE  Wellformed(ns) /\ Len(ns) = len /\ DOMAIN ns = 1..len
<1>1. ns \in Seq(NodeRecord) /\ Len(ns) = len /\ DOMAIN ns = 1..len
  OBVIOUS
<1> QED BY <1>1 DEF Wellformed

\* A template as a function on its node numbers.
LEMMA WellformedIs ==
  ASSUME NEW ns, Wellformed(ns)
  PROVE  /\ ns \in [1..Len(ns) -> NodeRecord] /\ Len(ns) \in Nat /\ DOMAIN ns = 1..Len(ns)
         /\ \A n \in 1..Len(ns) : ToSet(ns[n].children) \subseteq 1..Len(ns)
<1>1. ns \in Seq(NodeRecord) /\ \A n \in DOMAIN ns : ToSet(ns[n].children) \subseteq DOMAIN ns
  BY DEF Wellformed
<1> HIDE DEF NodeRecord
<1>2. ns \in [1..Len(ns) -> NodeRecord] /\ Len(ns) \in Nat /\ DOMAIN ns = 1..Len(ns)
  BY <1>1
<1> QED BY <1>1, <1>2

\* One node changes, but not what it stands for.
LEMMA ExceptNode ==
  ASSUME NEW ns, Wellformed(ns), NEW n \in DOMAIN ns, NEW e \in NodeRecord, ToSet(e.children) \subseteq DOMAIN ns,
         e.key = ns[n].key, e.role = ns[n].role, e.stop = ns[n].stop,
         NEW ms, ms = [ns EXCEPT ![n] = e]
  PROVE  Wellformed(ms) /\ Len(ms) = Len(ns) /\ Keeps(ns, ms)
<1>1. PICK len \in Nat : len = Len(ns) /\ ns \in [1..len -> NodeRecord] /\ DOMAIN ns = 1..len
                         /\ \A k \in 1..len : ToSet(ns[k].children) \subseteq 1..len
  BY WellformedIs
<1>2. ms \in [1..len -> NodeRecord] /\ \A k \in 1..len : ms[k] = IF k = n THEN e ELSE ns[k]
  <2> HIDE DEF NodeRecord
  <2> QED BY <1>1
<1>3. \A k \in 1..len : ToSet(ms[k].children) \subseteq 1..len
  BY <1>1, <1>2
<1>4. Wellformed(ms) /\ Len(ms) = len /\ DOMAIN ms = 1..len
  BY <1>2, <1>3, WellformedIf
<1> QED BY <1>1, <1>2, <1>4 DEF Keeps

\* A node is added.
LEMMA AppendNode ==
  ASSUME NEW ns, Wellformed(ns), NEW e \in NodeRecord, ToSet(e.children) \subseteq 1..(Len(ns) + 1),
         NEW ms, ms = Append(ns, e)
  PROVE  /\ Wellformed(ms) /\ Len(ms) = Len(ns) + 1 /\ Keeps(ns, ms) /\ KeepsSeen(ns, ms)
         /\ ms[Len(ns) + 1] = e /\ \A k \in DOMAIN ns : ms[k] = ns[k]
<1>1. PICK len \in Nat : len = Len(ns) /\ ns \in [1..len -> NodeRecord] /\ DOMAIN ns = 1..len
                         /\ \A k \in 1..len : ToSet(ns[k].children) \subseteq 1..len
  BY WellformedIs
<1>2. ns \in Seq(NodeRecord)
  BY DEF Wellformed
<1>3. ms \in [1..(len + 1) -> NodeRecord] /\ ms[len + 1] = e /\ \A k \in 1..len : k \in 1..(len + 1) /\ ms[k] = ns[k]
  <2>1. ms \in Seq(NodeRecord) /\ Len(ms) = len + 1
    BY <1>1, <1>2
  <2>2. ms \in [1..(len + 1) -> NodeRecord]
    <3>1. \A s \in Seq(NodeRecord) : s \in [1..Len(s) -> NodeRecord]
      OBVIOUS
    <3>2. ms \in [1..Len(ms) -> NodeRecord]
      BY <2>1, <3>1
    <3> QED BY <2>1, <3>2
  <2>3. ms[len + 1] = e /\ \A k \in 1..len : ms[k] = ns[k]
    BY <1>1, <1>2
  <2>4. \A k \in 1..len : k \in 1..(len + 1)
    BY <1>1
  <2> QED BY <2>2, <2>3, <2>4
<1>4. \A k \in 1..(len + 1) : ToSet(ms[k].children) \subseteq 1..(len + 1)
  <2>1. \A k \in 1..(len + 1) : k = len + 1 \/ k \in 1..len
    BY <1>1
  <2>2. 1..len \subseteq 1..(len + 1)
    BY <1>1
  <2> QED BY <1>1, <1>3, <2>1, <2>2
<1>5. Wellformed(ms) /\ Len(ms) = len + 1 /\ DOMAIN ms = 1..(len + 1)
  <2>1. PICK l \in Nat : l = len + 1
    OBVIOUS
  <2>2. ms \in [1..l -> NodeRecord] /\ \A k \in 1..l : ToSet(ms[k].children) \subseteq 1..l
    BY <1>3, <1>4, <2>1
  <2> QED BY <2>1, <2>2, WellformedIf
<1> QED BY <1>1, <1>3, <1>5 DEF Keeps, KeepsSeen

\* All nodes change, but not what they stand for nor their children.
LEMMA MapNodes ==
  ASSUME NEW ns, Wellformed(ns), NEW ms, DOMAIN ms = DOMAIN ns, ms = [n \in DOMAIN ms |-> ms[n]],
         \A n \in DOMAIN ns : /\ ms[n] \in NodeRecord
                              /\ ms[n].children = ns[n].children
                              /\ ms[n].key = ns[n].key /\ ms[n].role = ns[n].role /\ ms[n].stop = ns[n].stop
  PROVE  Wellformed(ms) /\ Len(ms) = Len(ns) /\ Keeps(ns, ms)
<1>1. PICK len \in Nat : len = Len(ns) /\ ns \in [1..len -> NodeRecord] /\ DOMAIN ns = 1..len
                         /\ \A k \in 1..len : ToSet(ns[k].children) \subseteq 1..len
  BY WellformedIs
<1>2. ms \in [1..len -> NodeRecord]
  <2> HIDE DEF NodeRecord
  <2> QED BY <1>1
<1>3. \A k \in 1..len : ToSet(ms[k].children) \subseteq 1..len
  BY <1>1
<1>4. Wellformed(ms) /\ Len(ms) = len /\ DOMAIN ms = 1..len
  BY <1>2, <1>3, WellformedIf
<1> QED BY <1>1, <1>4 DEF Keeps

\* A further child keeps the template well-formed and the nodes what they are.
LEMMA WithChildNodes ==
  ASSUME NEW ns, Wellformed(ns), NEW parent \in 0..Len(ns), NEW n \in DOMAIN ns,
         NEW ms, ms = WithChild(ns, parent, n)
  PROVE  Wellformed(ms) /\ Len(ms) = Len(ns) /\ Keeps(ns, ms) /\ KeepsSeen(ns, ms)
<1>1. CASE parent = Nothing \/ n \in ToSet(ns[parent].children)
  <2>1. ms = ns
    BY <1>1 DEF WithChild
  <2> QED BY <2>1, WellformedIs DEF Keeps, KeepsSeen
<1>2. CASE ~(parent = Nothing \/ n \in ToSet(ns[parent].children))
  <2>1. parent \in DOMAIN ns
    BY <1>2, WellformedIs DEF Nothing
  <2>2. PICK e : e = [ns[parent] EXCEPT !.children = Append(@, n)]
    OBVIOUS
  <2>3. ns[parent] \in NodeRecord /\ ns[parent].children \in Seq(Nat)
        /\ ToSet(ns[parent].children) \subseteq DOMAIN ns /\ n \in Nat
    <3>1. n \in Nat
      BY NodeFields
    <3> QED BY <2>1, <3>1, NodeFields
  <2>4. Append(ns[parent].children, n) \in Seq(Nat)
        /\ ToSet(Append(ns[parent].children, n)) = ToSet(ns[parent].children) \cup {n}
    BY <2>3, ToSetAppend
  <2>5. e \in NodeRecord /\ e.children = Append(ns[parent].children, n) /\ e.seen = ns[parent].seen
        /\ e.key = ns[parent].key /\ e.role = ns[parent].role /\ e.stop = ns[parent].stop
    BY <2>2, <2>3, <2>4 DEF NodeRecord
  <2>6. ms = [ns EXCEPT ![parent] = e]
    BY <1>2, <2>2 DEF WithChild
  <2>7. Wellformed(ms) /\ Len(ms) = Len(ns) /\ Keeps(ns, ms)
    BY <2>1, <2>3, <2>4, <2>5, <2>6, ExceptNode
  <2>8. KeepsSeen(ns, ms)
    <3>1. \A k \in DOMAIN ns : ms[k] = IF k = parent THEN e ELSE ns[k]
      <4>1. ns = [k \in DOMAIN ns |-> ns[k]]
        BY WellformedIs
      <4> QED BY <2>6, <4>1
    <3> QED BY <2>5, <3>1 DEF KeepsSeen
  <2> QED BY <2>7, <2>8
<1> QED BY <1>1, <1>2

\* Nodes kept by two steps are kept by both together.
LEMMA KeepsTrans ==
  ASSUME NEW ns, NEW ms, NEW ls, Wellformed(ns), Wellformed(ms), Wellformed(ls), Keeps(ns, ms), Keeps(ms, ls)
  PROVE  Keeps(ns, ls) /\ (KeepsSeen(ns, ms) /\ KeepsSeen(ms, ls) => KeepsSeen(ns, ls))
<1>1. Len(ns) \in Nat /\ Len(ms) \in Nat /\ Len(ls) \in Nat
  BY WellformedIs
<1> QED BY <1>1 DEF Keeps, KeepsSeen

\* The fields of a new node.
LEMMA NewNode ==
  ASSUME NEW key \in Seq(Nat), NEW role \in Nat, NEW stop \in BOOLEAN, NEW optional \in BOOLEAN
  PROVE  LET e == TemplateNode(key, role, stop, optional)
         IN  e \in NodeRecord /\ e.children = <<>> /\ ToSet(e.children) = {} /\ ~e.seen
             /\ e.key = key /\ e.role = role /\ e.stop = stop
BY DEF TemplateNode, NodeRecord, Nothing, ToSet

\* The elements of the work lists stay in them as the template grows.
LEMMA ItemsGrow ==
  ASSUME NEW l \in Nat, NEW m \in Nat, l <= m
  PROVE  /\ BuildItems(l) \subseteq BuildItems(m) /\ Seq(BuildItems(l)) \subseteq Seq(BuildItems(m))
         /\ WalkItems(l) \subseteq WalkItems(m) /\ Seq(WalkItems(l)) \subseteq Seq(WalkItems(m))
<1>1. 0..l \subseteq 0..m
  OBVIOUS
<1>2. BuildItems(l) \subseteq BuildItems(m)
  BY <1>1 DEF BuildItems
<1>3. WalkItems(l) \subseteq WalkItems(m)
  BY <1>1 DEF WalkItems
<1> QED BY <1>2, <1>3

\* What no step takes back.
Grows ==
  /\ refs' = refs /\ roots' = roots
  /\ read <= read' /\ Len(expanded) <= Len(expanded') /\ \A v \in 1..Len(expanded) : expanded'[v] = expanded[v]
  /\ Keeps(nodes, nodes') /\ records \subseteq records'

\* A template keeps itself.
LEMMA KeepsSelf ==
  ASSUME NEW ns, Wellformed(ns) PROVE Keeps(ns, ns) /\ KeepsSeen(ns, ns)
BY WellformedIs DEF Keeps, KeepsSeen

\* The initial states are typed.
LEMMA TypedInit == TemplateInit => TemplateTyped
<1> SUFFICES ASSUME TemplateInit PROVE TemplateTyped
  OBVIOUS
<1> USE DEF TemplateInit
<1>1. refs \in [Drv -> Seq(Drv)] /\ roots \in Seq(Drv)
  BY TemplateAssumption
<1>2. Len(roots) \in Nat
  BY <1>1
<1>3. ReadTyped
  BY <1>2 DEF ReadTyped
<1>4. NodesTyped
  BY DEF NodesTyped, Wellformed
<1>5. PhaseTyped
  BY DEF PhaseTyped
<1> QED BY <1>1, <1>3, <1>4, <1>5 DEF TemplateTyped, TreesTyped

\* A step that changes nothing keeps the types.
LEMMA TypedStutter ==
  ASSUME TemplateTyped, UNCHANGED templateVars PROVE TemplateTyped' /\ Grows
<1>1. TreesTyped' /\ ReadTyped' /\ NodesTyped' /\ PhaseTyped'
  BY DEF TemplateTyped, TreesTyped, ReadTyped, NodesTyped, PhaseTyped, templateVars, treeVars, readVars,
         Wellformed, Position, BuildItems, WalkItems, Alone
<1>2. Grows
  <2>1. Keeps(nodes, nodes)
    BY KeepsSelf DEF TemplateTyped, NodesTyped
  <2> QED BY <2>1 DEF Grows, templateVars, treeVars, readVars, TemplateTyped, ReadTyped
<1> QED BY <1>1, <1>2 DEF TemplateTyped

\* Reading a variant keeps the types.
LEMMA TypedReadVariant ==
  ASSUME TemplateTyped, ReadVariant PROVE TemplateTyped' /\ Grows
<1> DEFINE v == read + 1
           printed == Below(roots[v], Printed)
<1>1. /\ phase = "read" /\ read < Len(roots) /\ read' = v
      /\ expanded' = Append(expanded, printed \ Printed)
      /\ leftOver' = leftOver \cup (printed \ (Printed \cup {roots[v]}))
      /\ UNCHANGED <<treeVars, column, nodes, rows, classes, records>>
  BY DEF ReadVariant
<1>2. /\ refs \in [Drv -> Seq(Drv)] /\ roots \in Seq(Drv) /\ read \in 0..Len(roots)
      /\ expanded \in Seq(SUBSET Drv) /\ Len(expanded) = read /\ leftOver \subseteq Drv
      /\ pending \in Seq(1..read) /\ toWalk = <<>> /\ column = 0 /\ work = <<>>
      /\ (nodes = <<>> \/ pending = <<>>) /\ Len(rows) = Len(nodes)
  BY <1>1 DEF TemplateTyped, TreesTyped, ReadTyped, PhaseTyped
<1>3. v \in 1..Len(roots) /\ roots[v] \in Drv /\ v \in Nat /\ 1..read \subseteq 1..v /\ read \in Nat
  BY <1>1, <1>2
<1>4. printed \subseteq Drv
  BY <1>2, <1>3, BelowClosed
<1> HIDE DEF printed
<1>5. TreesTyped'
  BY <1>1, <1>2 DEF TreesTyped, treeVars
<1>6. NodesTyped'
  BY <1>1 DEF TemplateTyped, NodesTyped, Position
<1>7. expanded' \in Seq(SUBSET Drv) /\ Len(expanded') = v /\ \A u \in 1..Len(expanded) : expanded'[u] = expanded[u]
  <2>1. PICK e \in SUBSET Drv : e = printed \ Printed
    BY <1>4
  <2> QED BY <1>1, <1>2, <2>1
<1>8. Seq(1..read) \subseteq Seq(1..v)
  BY <1>3
<1>g. Grows
  <2>1. Keeps(nodes, nodes')
    BY <1>1, KeepsSelf DEF TemplateTyped, NodesTyped
  <2> QED BY <1>1, <1>2, <1>3, <1>7, <2>1 DEF Grows, treeVars
<1>9. CASE nodes # <<>>
  <2>1. phase' = "walk" /\ toWalk' = <<v>> /\ pending' = pending /\ work' = work
    BY <1>1, <1>9 DEF ReadVariant
  <2>2. ReadTyped'
    BY <1>1, <1>2, <1>3, <1>4, <1>7, <1>8, <2>1, SMTT(30) DEF ReadTyped, treeVars
  <2>3. PhaseTyped'
    BY <1>1, <1>2, <1>9, <2>1 DEF PhaseTyped
  <2> QED BY <1>5, <1>6, <1>g, <2>2, <2>3 DEF TemplateTyped
<1>10. CASE nodes = <<>>
  <2>1. pending' = Append(pending, v) /\ toWalk' = toWalk
    BY <1>1, <1>10 DEF ReadVariant
  <2>2. pending' \in Seq(1..v) /\ pending' # <<>> /\ Len(pending') = Len(pending) + 1
    <3>1. pending \in Seq(1..v) /\ v \in 1..v
      BY <1>2, <1>3, <1>8
    <3> QED BY <2>1, <3>1
  <2>3. ReadTyped'
    BY <1>1, <1>2, <1>3, <1>4, <1>7, <2>1, <2>2, SMTT(30) DEF ReadTyped, treeVars
  <2>4. CASE pending = <<>>
    <3>1. phase' = phase /\ work' = work
      BY <1>1, <1>10, <2>4 DEF ReadVariant
    <3>2. PhaseTyped'
      BY <1>1, <1>2, <1>10, <2>1, <3>1 DEF PhaseTyped
    <3> QED BY <1>5, <1>6, <1>g, <2>3, <3>2 DEF TemplateTyped
  <2>5. CASE pending # <<>>
    <3>1. phase' = "build" /\ work' = <<[parent |-> Nothing, left |-> roots[pending[1]], right |-> roots[v]]>>
      BY <1>1, <1>10, <2>5 DEF ReadVariant
    <3>2. pending[1] \in 1..read /\ Len(pending) # 0 /\ Len(pending) \in Nat
      BY <1>2, <2>5
    <3>3. roots[pending[1]] \in Drv
      BY <1>2, <1>3, <3>2, SMTT(30)
    <3>4. ~(Alone')
      BY <2>2, <3>2 DEF Alone
    <3>5. [parent |-> Nothing, left |-> roots[pending[1]], right |-> roots[v]] \in BuildItems(Len(nodes))'
      BY <1>1, <1>3, <1>10, <3>3, <3>4, DrvFacts DEF BuildItems, Derivation, Nothing
    <3>6. work' \in Seq(BuildItems(Len(nodes))') /\ work' # <<>>
      BY <3>1, <3>5
    <3>7. rows' = <<>>
      BY <1>1, <1>2, <1>10 DEF TemplateTyped, NodesTyped
    <3>8. PhaseTyped'
      BY <1>1, <1>2, <2>1, <2>2, <3>1, <3>6, <3>7 DEF PhaseTyped
    <3> QED BY <1>5, <1>6, <1>g, <2>3, <3>8 DEF TemplateTyped
  <2> QED BY <2>4, <2>5
<1> QED BY <1>9, <1>10

\* The end of the section keeps the types.
LEMMA TypedCloseMatrix ==
  ASSUME TemplateTyped, CloseMatrix PROVE TemplateTyped' /\ Grows
<1>1. /\ phase = "read" /\ refs' = refs /\ roots' = roots /\ read' = read /\ expanded' = expanded /\ pending' = pending
      /\ leftOver' = leftOver /\ toWalk' = toWalk /\ column' = column /\ nodes' = nodes /\ rows' = rows
      /\ classes' = classes /\ records' = records
  BY DEF CloseMatrix, treeVars, readVars
<1>2. TreesTyped' /\ ReadTyped' /\ NodesTyped'
  BY <1>1 DEF TemplateTyped, TreesTyped, ReadTyped, NodesTyped, Wellformed, Position
<1>3. work = <<>> /\ toWalk = <<>> /\ column = 0 /\ (nodes = <<>> \/ pending = <<>>) /\ Len(rows) = Len(nodes)
  BY <1>1 DEF TemplateTyped, PhaseTyped
<1>g. Grows
  <2>1. Keeps(nodes, nodes)
    BY KeepsSelf DEF TemplateTyped, NodesTyped
  <2> QED BY <1>1, <2>1 DEF Grows, TemplateTyped, ReadTyped
<1>4. CASE pending = <<>>
  <2>1. phase' = "closed" /\ work' = work
    BY <1>4 DEF CloseMatrix
  <2>2. PhaseTyped'
    BY <1>1, <1>3, <2>1 DEF PhaseTyped
  <2> QED BY <1>2, <1>g, <2>2 DEF TemplateTyped
<1>5. CASE pending # <<>>
  <2> DEFINE w == [parent |-> Nothing, left |-> roots[pending[1]], right |-> roots[pending[1]]]
  <2>1. phase' = "build" /\ work' = <<w>>
    BY <1>5 DEF CloseMatrix
  <2>2. roots[pending[1]] \in Drv
    <3>1. pending \in Seq(1..read) /\ roots \in Seq(Drv) /\ read \in 0..Len(roots)
      BY DEF TemplateTyped, TreesTyped, ReadTyped
    <3>2. pending[1] \in 1..read
      BY <1>5, <3>1
    <3> QED BY <3>1, <3>2
  <2>3. w \in BuildItems(Len(nodes))'
    BY <1>1, <1>3, <1>5, <2>2, DrvFacts DEF BuildItems, Derivation, Nothing
  <2> HIDE DEF w
  <2>4. work' \in Seq(BuildItems(Len(nodes))') /\ work' # <<>>
    BY <2>1, <2>3
  <2>5. rows' = <<>>
    BY <1>1, <1>3, <1>5 DEF TemplateTyped, NodesTyped
  <2>6. PhaseTyped'
    BY <1>1, <1>3, <1>5, <2>1, <2>4, <2>5 DEF PhaseTyped
  <2> QED BY <1>2, <1>g, <2>6 DEF TemplateTyped
<1> QED BY <1>4, <1>5

\* What was read is typed as before when a step leaves it alone.
LEMMA SameRead ==
  ASSUME TreesTyped, ReadTyped, UNCHANGED <<treeVars, readVars>>, leftOver' \subseteq leftOver,
         toWalk' \in Seq(1..read), column' \in 0..read
  PROVE  TreesTyped' /\ ReadTyped'
BY DEF TreesTyped, ReadTyped, treeVars, readVars

\* The state grows when a step leaves what was read alone and keeps the nodes.
LEMMA SameGrows ==
  ASSUME ReadTyped, UNCHANGED <<treeVars, readVars>>, Keeps(nodes, nodes'), records \subseteq records'
  PROVE  Grows
BY DEF Grows, ReadTyped, treeVars, readVars

\* A visit of the builder keeps the types.
LEMMA TypedBuildVisit ==
  ASSUME TemplateTyped, BuildVisit PROVE TemplateTyped' /\ Grows
<1> DEFINE w == Head(work)
           there == {n \in DOMAIN nodes : nodes[n].key = NodeKey(w)}
           n0 == IF there = {} THEN Len(nodes) + 1 ELSE CHOOSE m \in there : TRUE
           stop0 == IsStop({w.left, w.right})
           one == IF w.left = Nothing THEN w.right ELSE w.left
           e0 == TemplateNode(NodeKey(w), DrvRole[one], stop0, Nothing \in {w.left, w.right})
           grown0 == IF there # {} THEN nodes ELSE Append(nodes, e0)
<1>1. /\ phase = "build" /\ work # <<>>
      /\ nodes' = WithChild(grown0, w.parent, n0)
      /\ records \subseteq records' /\ leftOver' \subseteq leftOver
      /\ work' = (IF there = {} /\ ~stop0 THEN PairChildren(n0, w) ELSE <<>>) \o Tail(work)
      /\ UNCHANGED <<treeVars, readVars, toWalk, column, rows, classes, phase>>
  BY SMTT(30) DEF BuildVisit
<1>2. /\ TreesTyped /\ ReadTyped /\ Wellformed(nodes)
      /\ rows = <<>> /\ column = 0 /\ toWalk = <<>> /\ pending # <<>>
      /\ work \in Seq(BuildItems(Len(nodes)))
      /\ Len(classes) \in Nat /\ Len(classes) <= Len(nodes)
  BY <1>1, SMTT(30) DEF TemplateTyped, NodesTyped, PhaseTyped
<1>3. w \in BuildItems(Len(nodes)) /\ Tail(work) \in Seq(BuildItems(Len(nodes)))
  BY <1>1, <1>2
<1>4. /\ w.parent \in 0..Len(nodes) /\ w.left \in Derivation /\ w.right \in Derivation
      /\ (w.left # Nothing \/ w.right # Nothing) /\ (Alone => w.left = w.right)
  BY <1>3 DEF BuildItems
<1>5. PICK e : e = e0
  OBVIOUS
<1>6. e \in NodeRecord /\ ToSet(e.children) = {}
  <2>1. one \in Drv
    BY <1>4 DEF Derivation
  <2>2. DrvRole[one] \in Nat
    BY <2>1, DrvFacts
  <2>3. NodeKey(w) \in Seq(Nat)
    <3>1. w.left \in Nat /\ w.right \in Nat
      BY <1>4, DrvFacts
    <3>2. Alone => w.left \in Drv /\ DrvRole[w.left] \in Nat
      BY <1>4, DrvFacts DEF Derivation
    <3> QED BY <3>1, <3>2 DEF NodeKey
  <2>4. stop0 \in BOOLEAN /\ (Nothing \in {w.left, w.right}) \in BOOLEAN
    BY DEF IsStop
  <2> HIDE DEF w, stop0, one
  <2> QED BY <1>5, <2>2, <2>3, <2>4, NewNode, ZenonT(120)
<1>7. PICK n : n = n0
  OBVIOUS
<1>8. PICK grown : grown = grown0
  OBVIOUS
<1>9. Wellformed(grown) /\ Len(nodes) <= Len(grown) /\ n \in DOMAIN grown /\ Keeps(nodes, grown) /\ n \in 1..Len(grown)
  <2>0. Len(nodes) \in Nat /\ DOMAIN nodes = 1..Len(nodes)
    BY <1>2, WellformedIs
  <2>1. CASE there = {}
    <3>1. grown = Append(nodes, e) /\ n = Len(nodes) + 1
      BY <1>5, <1>7, <1>8, <2>1
    <3>2. Wellformed(grown) /\ Len(grown) = Len(nodes) + 1 /\ Keeps(nodes, grown)
      BY <1>2, <1>6, <3>1, AppendNode
    <3>3. DOMAIN grown = 1..Len(grown)
      BY <3>2, WellformedIs
    <3> QED BY <2>0, <3>1, <3>2, <3>3
  <2>2. CASE there # {}
    <3>1. grown = nodes /\ n \in there
      BY <1>7, <1>8, <2>2
    <3>2. n \in DOMAIN nodes
      BY <3>1
    <3> QED BY <1>2, <2>0, <3>1, <3>2, KeepsSelf
  <2> QED BY <2>1, <2>2
<1>10. Len(nodes) \in Nat /\ Len(grown) \in Nat /\ w.parent \in 0..Len(grown) /\ n \in 0..Len(grown)
  <2>1. Len(nodes) \in Nat /\ Len(grown) \in Nat
    BY <1>2, <1>9, WellformedIs
  <2> QED BY <1>4, <1>9, <2>1
<1>11. Wellformed(nodes') /\ Len(nodes') = Len(grown) /\ Keeps(nodes, nodes')
  <2>1. PICK parent \in 0..Len(grown) : parent = w.parent
    BY <1>10, SMTT(30)
  <2>2. PICK ns : ns = nodes'
    BY Zenon
  <2>3. ns = WithChild(grown, parent, n)
    BY <1>1, <1>7, <1>8, <2>1, <2>2
  <2>4. Wellformed(ns) /\ Len(ns) = Len(grown) /\ Keeps(grown, ns)
    BY <1>9, <2>3, WithChildNodes
  <2>5. Keeps(nodes, ns)
    BY <1>2, <1>9, <2>4, KeepsTrans
  <2> QED BY <2>2, <2>4, <2>5
<1>12. work' \in Seq(BuildItems(Len(nodes')))
  <2>1. Tail(work) \in Seq(BuildItems(Len(grown))) /\ w \in BuildItems(Len(grown))
    BY <1>3, <1>9, <1>10, ItemsGrow
  <2>2. PairChildren(n, w) \in Seq(BuildItems(Len(grown)))
    <3>1. TreesTyped /\ Len(grown) \in Nat /\ n \in 0..Len(grown) /\ w \in BuildItems(Len(grown))
      BY <1>2, <1>10, <2>1
    <3>2. PICK len \in Nat : len = Len(grown)
      BY <3>1
    <3>3. PICK x \in BuildItems(len) : x = w
      BY <3>1, <3>2
    <3>4. PairChildren(n, x) \in Seq(BuildItems(len))
      BY ONLY <3>1, <3>2, len \in Nat, x \in BuildItems(len), PairChildrenTyped
    <3> QED BY ONLY <3>2, <3>3, <3>4
  <2>3. (IF there = {} /\ ~stop0 THEN PairChildren(n, w) ELSE <<>>) \in Seq(BuildItems(Len(grown)))
    <3> HIDE DEF there, stop0
    <3> QED BY <2>2, SMTT(30)
  <2>4. PICK p \in Seq(BuildItems(Len(grown))) : work' = p \o Tail(work)
    BY <1>1, <1>7, <2>3, Zenon
  <2> QED BY <1>11, <2>1, <2>4
<1> HIDE DEF w
<1>13. work' \in Seq(BuildItems(Len(nodes))')
  <2>1. pending' = pending
    BY <1>1 DEF readVars
  <2>2. BuildItems(Len(nodes))' = BuildItems(Len(nodes'))
    BY <2>1 DEF BuildItems, Alone
  <2> QED BY <1>12, <2>2
<1>14. TreesTyped' /\ ReadTyped'
  <2>1. toWalk' \in Seq(1..read) /\ column' \in 0..read
    BY <1>1, <1>2, SMTT(30) DEF ReadTyped
  <2> QED BY <1>1, <1>2, <2>1, SameRead
<1>15. NodesTyped'
  <2>1. Len(classes') \in Nat /\ Len(classes') <= Len(nodes')
    <3>1. classes' = classes /\ Len(classes) \in Nat /\ Len(classes) <= Len(nodes)
      BY <1>1, <1>2, SMTT(30) DEF readVars
    <3>2. Len(nodes') = Len(grown) /\ Len(nodes) <= Len(grown) /\ Len(nodes) \in Nat /\ Len(grown) \in Nat
      BY <1>9, <1>10, <1>11, SMTT(30)
    <3> QED BY ONLY <3>1, <3>2
  <2>2. rows' = <<>> /\ Wellformed(nodes')
    BY <1>1, <1>2, <1>11, SMTT(30)
  <2>3. (rows \in Seq(Seq(Derivation)) /\ \A n1 \in DOMAIN rows : Len(rows[n1]) = Position)'
    BY ONLY <2>2
  <2> QED BY ONLY <2>1, <2>2, <2>3 DEF NodesTyped
<1>16. nodes' # <<>>
  BY <1>9, <1>10, <1>11, SMTT(30)
<1>17. PhaseTyped'
  <2>1. pending' = pending
    BY <1>1 DEF readVars
  <2> QED BY <1>1, <1>2, <1>13, <1>16, <2>1 DEF PhaseTyped
<1>18. Grows
  BY <1>1, <1>2, <1>11, SameGrows
<1> QED BY <1>14, <1>15, <1>17, <1>18, SMTT(30) DEF TemplateTyped

\* The end of the building keeps the types.
LEMMA TypedTemplateBuilt ==
  ASSUME TemplateTyped, TemplateBuilt PROVE TemplateTyped' /\ Grows
<1>1. /\ phase = "build" /\ work = <<>> /\ phase' = "walk" /\ toWalk' = pending /\ pending' = <<>>
      /\ rows' = [n \in DOMAIN nodes |-> <<>>]
      /\ refs' = refs /\ roots' = roots /\ read' = read /\ expanded' = expanded /\ leftOver' = leftOver
      /\ column' = column /\ work' = work /\ nodes' = nodes /\ classes' = classes /\ records' = records
  BY DEF TemplateBuilt, treeVars
<1>2. /\ TreesTyped /\ ReadTyped /\ Wellformed(nodes) /\ nodes # <<>> /\ column = 0
      /\ Len(classes) \in Nat /\ Len(classes) <= Len(nodes)
  BY <1>1 DEF TemplateTyped, NodesTyped, PhaseTyped
<1>3. TreesTyped'
  BY <1>1, <1>2 DEF TreesTyped
<1>4. ReadTyped'
  BY <1>1, <1>2 DEF ReadTyped
<1>5. Len(nodes) \in Nat /\ DOMAIN nodes = 1..Len(nodes) /\ Len(nodes) # 0
  BY <1>2 DEF Wellformed
<1>6. rows' \in Seq(Seq(Derivation)) /\ Len(rows') = Len(nodes) /\ \A n \in DOMAIN rows' : rows'[n] = <<>>
  BY <1>1, <1>5
<1>7. NodesTyped'
  <2>1. 1 \in DOMAIN rows'
    BY <1>1, <1>5
  <2>2. \A n \in DOMAIN rows' : Len(rows'[n]) = Position'
    BY <1>6, <2>1 DEF Position
  <2> QED BY <1>1, <1>2, <1>6, <2>2 DEF NodesTyped
<1>8. PhaseTyped'
  BY <1>1, <1>2, <1>6 DEF PhaseTyped
<1>9. Keeps(nodes, nodes)
  BY <1>2, KeepsSelf
<1>10. Grows
  BY <1>1, <1>2, <1>9 DEF Grows, ReadTyped
<1> QED BY <1>3, <1>4, <1>7, <1>8, <1>10 DEF TemplateTyped

\* The end of the walks, and the classification, keep the types.
LEMMA TypedWalksDone ==
  ASSUME TemplateTyped, WalksDone PROVE TemplateTyped' /\ Grows
<1>1. /\ phase = "walk" /\ work = <<>> /\ toWalk = <<>> /\ phase' = "read" /\ column' = 0
      /\ UNCHANGED <<treeVars, readVars, leftOver, toWalk, work, rows, records>>
  BY DEF WalksDone
<1>2. /\ TreesTyped /\ ReadTyped /\ NodesTyped /\ Wellformed(nodes) /\ nodes # <<>> /\ pending = <<>>
      /\ Len(rows) = Len(nodes) /\ Len(classes) \in Nat /\ Len(classes) <= Len(nodes)
  BY <1>1 DEF TemplateTyped, NodesTyped, PhaseTyped
<1>3. Wellformed(nodes') /\ Len(nodes') = Len(nodes) /\ Keeps(nodes, nodes') /\ Len(classes') \in Nat
      /\ Len(classes') <= Len(nodes')
  <2>1. CASE classes # <<>>
    BY <1>2, <2>1, KeepsSelf DEF WalksDone
  <2>2. CASE classes = <<>>
    <3>1. /\ classes' = [n \in DOMAIN nodes |-> ClassAt(n)]
          /\ nodes' = [n \in DOMAIN nodes |->
               IF ~nodes[n].stop /\ rows[n][1] = Nothing THEN [nodes[n] EXCEPT !.optional = TRUE] ELSE nodes[n]]
      BY <2>2 DEF WalksDone
    <3>2. PICK ms : ms = nodes'
      OBVIOUS
    <3>3. ASSUME NEW n \in DOMAIN nodes
          PROVE  /\ ms[n] \in NodeRecord /\ ms[n].children = nodes[n].children
                 /\ ms[n].key = nodes[n].key /\ ms[n].role = nodes[n].role /\ ms[n].stop = nodes[n].stop
      <4>1. nodes[n] \in NodeRecord
        BY <1>2, NodeFields
      <4>2. ms[n] = nodes[n] \/ ms[n] = [nodes[n] EXCEPT !.optional = TRUE]
        BY <3>1, <3>2
      <4> QED BY <4>1, <4>2 DEF NodeRecord
    <3>4. Wellformed(ms) /\ Len(ms) = Len(nodes) /\ Keeps(nodes, ms)
      BY <1>2, <3>1, <3>2, <3>3, MapNodes
    <3>5. Len(classes') = Len(nodes) /\ Len(nodes) \in Nat
      <4>1. DOMAIN nodes = 1..Len(nodes) /\ Len(nodes) \in Nat
        BY <1>2, WellformedIs
      <4> QED BY <3>1, <4>1
    <3> QED BY <3>2, <3>4, <3>5
  <2> QED BY <2>1, <2>2
<1>4. TreesTyped' /\ ReadTyped'
  <2>1. toWalk' \in Seq(1..read) /\ column' \in 0..read
    BY <1>1, <1>2 DEF ReadTyped
  <2> QED BY <1>1, <1>2, <2>1, SameRead
<1>5. NodesTyped'
  BY <1>1, <1>2, <1>3 DEF NodesTyped, Position
<1>6. PhaseTyped'
  BY <1>1, <1>2, <1>3 DEF PhaseTyped, readVars
<1>7. Grows
  BY <1>1, <1>2, <1>3, SameGrows
<1> QED BY <1>4, <1>5, <1>6, <1>7 DEF TemplateTyped

\* What the steps of a walk have to work with.
LEMMA WalkContext ==
  ASSUME TemplateTyped, phase = "walk"
  PROVE  /\ TreesTyped /\ ReadTyped /\ NodesTyped /\ Wellformed(nodes) /\ nodes # <<>> /\ pending = <<>>
         /\ Len(nodes) \in Nat /\ DOMAIN nodes = 1..Len(nodes) /\ 1 \in DOMAIN nodes
         /\ rows \in Seq(Seq(Derivation)) /\ DOMAIN rows = DOMAIN nodes /\ Len(rows) = Len(nodes)
         /\ Position \in Nat /\ \A n \in DOMAIN nodes : rows[n] \in Seq(Derivation) /\ Len(rows[n]) = Position
         /\ work \in Seq(WalkItems(Len(nodes))) /\ Len(classes) \in Nat /\ Len(classes) <= Len(nodes)
         /\ work # <<>> => /\ Position # 0 /\ column \in 1..read /\ Tail(work) \in Seq(WalkItems(Len(nodes)))
                           /\ Head(work) \in WalkItems(Len(nodes))
                           /\ Head(work).drv \in Drv /\ Head(work).parent \in 0..Len(nodes)
                           /\ Head(work).base \in 0..Len(nodes)
                           /\ Head(work).kind = "pair" => Head(work).node \in DOMAIN nodes /\ Head(work).base = Nothing
<1>1. /\ TreesTyped /\ ReadTyped /\ NodesTyped /\ Wellformed(nodes) /\ nodes # <<>> /\ pending = <<>>
      /\ work \in Seq(WalkItems(Len(nodes))) /\ (work # <<>> => column # 0 /\ rows[1] # <<>>)
      /\ Len(classes) \in Nat /\ Len(classes) <= Len(nodes)
      /\ rows \in Seq(Seq(Derivation)) /\ Len(rows) = Len(nodes) /\ \A n \in DOMAIN rows : Len(rows[n]) = Position
  BY DEF TemplateTyped, NodesTyped, PhaseTyped
<1>2. Len(nodes) \in Nat /\ DOMAIN nodes = 1..Len(nodes) /\ 1 \in DOMAIN nodes
  BY <1>1 DEF Wellformed
<1>3. DOMAIN rows = DOMAIN nodes
  BY <1>1, <1>2
<1>4. Position \in Nat /\ \A n \in DOMAIN nodes : rows[n] \in Seq(Derivation) /\ Len(rows[n]) = Position
  <2>1. \A n \in DOMAIN nodes : rows[n] \in Seq(Derivation) /\ Len(rows[n]) = Position
    BY <1>1, <1>3
  <2> QED BY <1>2, <2>1
<1>5. ASSUME work # <<>> PROVE Position # 0 /\ column \in 1..read
  <2>1. column \in 0..read /\ column # 0 /\ rows[1] # <<>>
    BY <1>1, <1>5 DEF ReadTyped
  <2>2. Len(rows[1]) # 0
    BY <1>2, <1>4, <2>1
  <2> QED BY <2>1, <2>2 DEF Position
<1>6. ASSUME work # <<>>
      PROVE  Head(work) \in WalkItems(Len(nodes)) /\ Tail(work) \in Seq(WalkItems(Len(nodes)))
  BY <1>1, <1>6
<1>7. ASSUME NEW w \in WalkItems(Len(nodes))
      PROVE  /\ w.drv \in Drv /\ w.parent \in 0..Len(nodes) /\ w.base \in 0..Len(nodes)
             /\ w.kind = "pair" => w.node \in DOMAIN nodes /\ w.base = Nothing
  BY <1>2 DEF WalkItems
<1> QED BY <1>1, <1>2, <1>3, <1>4, <1>5, <1>6, <1>7

\* A step of the walk keeps the types when its nodes, rows and work are well-formed.
LEMMA WalkTyped ==
  ASSUME TemplateTyped, phase = "walk", work # <<>>,
         UNCHANGED <<treeVars, readVars, toWalk, column, classes, phase>>, leftOver' \subseteq leftOver,
         records \subseteq records',
         NEW ns, ns = nodes', Wellformed(ns), Keeps(nodes, ns),
         NEW rs, rs = rows', rs \in Seq(Seq(Derivation)), Len(rs) = Len(ns),
         \A n \in DOMAIN rs : Len(rs[n]) = Position,
         NEW ws, ws = work', ws \in Seq(WalkItems(Len(ns)))
  PROVE  TemplateTyped' /\ Grows /\ Position' = Position
<1>1. /\ TreesTyped /\ ReadTyped /\ pending = <<>> /\ Len(classes) \in Nat /\ Len(classes) <= Len(nodes)
      /\ Len(nodes) \in Nat /\ 1 \in DOMAIN nodes /\ Position # 0 /\ column \in 1..read /\ Position \in Nat
  BY WalkContext
<1>2. Len(nodes) <= Len(ns) /\ 1 \in DOMAIN ns /\ Len(ns) \in Nat
  BY <1>1, WellformedIs DEF Keeps
<1>3. Position' = Position /\ 1 \in DOMAIN rs
  <2>1. 1 \in DOMAIN rs
    BY <1>2, WellformedIs
  <2>2. Len(rs[1]) = Position
    BY <2>1
  <2> QED BY <2>1, <2>2 DEF Position
<1>4. TreesTyped' /\ ReadTyped'
  <2>1. toWalk' \in Seq(1..read) /\ column' \in 0..read
    BY <1>1 DEF ReadTyped
  <2> QED BY <1>1, <2>1, SameRead
<1>5. NodesTyped'
  BY <1>1, <1>2, <1>3 DEF NodesTyped
<1>6. rows'[1] # <<>>
  BY <1>1, <1>3
<1>7. nodes' # <<>>
  BY <1>2
<1>8. column' # 0 /\ pending' = <<>>
  BY <1>1 DEF readVars
<1>9. WalkItems(Len(nodes))' = WalkItems(Len(ns))
  BY DEF WalkItems
<1>10. PhaseTyped'
  BY <1>6, <1>7, <1>8, <1>9 DEF PhaseTyped
<1>11. Grows
  BY <1>1, SameGrows
<1> QED BY <1>3, <1>4, <1>5, <1>10, <1>11 DEF TemplateTyped

\* The start of a walk keeps the types.
LEMMA TypedStartWalk ==
  ASSUME TemplateTyped, StartWalk
  PROVE  TemplateTyped' /\ Grows /\ (\A n \in DOMAIN nodes' : ~nodes'[n].seen) /\ DOMAIN nodes' = DOMAIN nodes
<1>1. /\ phase = "walk" /\ work = <<>> /\ toWalk # <<>> /\ column' = Head(toWalk) /\ toWalk' = Tail(toWalk)
      /\ rows' = [n \in DOMAIN rows |-> Append(rows[n], Nothing)]
      /\ nodes' = [n \in DOMAIN nodes |-> [nodes[n] EXCEPT !.seen = FALSE]]
      /\ work' = <<[kind |-> "pair", parent |-> Nothing, node |-> 1, drv |-> roots[column'], base |-> Nothing]>>
      /\ UNCHANGED <<treeVars, readVars, leftOver, classes, phase, records>>
  BY DEF StartWalk
<1>2. /\ TreesTyped /\ ReadTyped /\ Wellformed(nodes) /\ pending = <<>> /\ Len(nodes) \in Nat
      /\ DOMAIN nodes = 1..Len(nodes) /\ 1 \in DOMAIN nodes
      /\ rows \in Seq(Seq(Derivation)) /\ DOMAIN rows = DOMAIN nodes /\ Len(rows) = Len(nodes)
      /\ Position \in Nat /\ (\A n \in DOMAIN nodes : rows[n] \in Seq(Derivation) /\ Len(rows[n]) = Position)
      /\ Len(classes) \in Nat /\ Len(classes) <= Len(nodes)
  BY <1>1, WalkContext
<1>3. PICK ms : ms = nodes'
  OBVIOUS
<1>4. Wellformed(ms) /\ Len(ms) = Len(nodes) /\ Keeps(nodes, ms) /\ DOMAIN ms = DOMAIN nodes
      /\ \A n \in DOMAIN ms : ~ms[n].seen
  <2>1. ASSUME NEW n \in DOMAIN nodes
        PROVE  /\ ms[n] \in NodeRecord /\ ms[n].children = nodes[n].children /\ ~ms[n].seen
               /\ ms[n].key = nodes[n].key /\ ms[n].role = nodes[n].role /\ ms[n].stop = nodes[n].stop
    <3>1. nodes[n] \in NodeRecord /\ ms[n] = [nodes[n] EXCEPT !.seen = FALSE]
      BY <1>1, <1>2, <1>3, NodeFields
    <3> QED BY <3>1 DEF NodeRecord
  <2>2. DOMAIN ms = DOMAIN nodes /\ ms = [n \in DOMAIN ms |-> ms[n]]
    BY <1>1, <1>3
  <2>3. Wellformed(ms) /\ Len(ms) = Len(nodes) /\ Keeps(nodes, ms)
    BY <1>2, <2>1, <2>2, MapNodes
  <2> QED BY <2>1, <2>2, <2>3
<1>5. toWalk' \in Seq(1..read) /\ column' \in 1..read /\ read \in Nat
  <2>1. toWalk \in Seq(1..read) /\ read \in 0..Len(roots) /\ Len(roots) \in Nat
    BY <1>2 DEF TreesTyped, ReadTyped
  <2> QED BY <1>1, <2>1
<1>6. TreesTyped' /\ ReadTyped'
  <2>1. column' \in 0..read
    BY <1>5
  <2> QED BY <1>1, <1>2, <1>5, <2>1, SameRead
<1>7. PICK rs : rs = rows'
  OBVIOUS
<1>8. rs \in Seq(Seq(Derivation)) /\ Len(rs) = Len(nodes) /\ (\A n \in DOMAIN rs : Len(rs[n]) = Position + 1)
      /\ 1 \in DOMAIN rs
  <2>1. \A n \in DOMAIN nodes : Append(rows[n], Nothing) \in Seq(Derivation) /\ Len(Append(rows[n], Nothing)) = Position + 1
    <3>1. Nothing \in Derivation
      BY DEF Derivation
    <3>2. ASSUME NEW n \in DOMAIN nodes
          PROVE  Append(rows[n], Nothing) \in Seq(Derivation) /\ Len(Append(rows[n], Nothing)) = Position + 1
      <4>1. PICK r \in Seq(Derivation) : r = rows[n] /\ Len(r) = Position
        BY <1>2
      <4>2. Append(r, Nothing) \in Seq(Derivation) /\ Len(Append(r, Nothing)) = Len(r) + 1
        BY ONLY <3>1, r \in Seq(Derivation), SMTT(30)
      <4> QED BY ONLY <4>1, <4>2
    <3> QED BY ONLY <3>2
  <2>2. rs = [n \in 1..Len(nodes) |-> Append(rows[n], Nothing)]
    BY <1>1, <1>2, <1>7, SMTT(30)
  <2>3. PICK l \in Nat : l = Len(nodes)
    BY <1>2, Zenon
  <2>4. rs \in [1..l -> Seq(Derivation)] /\ \A n \in 1..l : Len(rs[n]) = Position + 1
    BY <1>2, <2>1, <2>2, <2>3
  <2>5. rs \in Seq(Seq(Derivation)) /\ Len(rs) = l /\ DOMAIN rs = 1..l
    <3> HIDE <2>2
    <3> QED BY <2>4
  <2> QED BY <1>2, <2>3, <2>4, <2>5
<1>9. NodesTyped' /\ rows'[1] # <<>>
  <2>1. Position' = Position + 1
    BY <1>7, <1>8 DEF Position
  <2>2. rs[1] # <<>>
    BY <1>2, <1>8
  <2> QED BY <1>1, <1>2, <1>3, <1>4, <1>7, <1>8, <2>1, <2>2 DEF NodesTyped
<1>10. work' \in Seq(WalkItems(Len(nodes))')
  <2>1. roots[column'] \in Drv
    <3>1. roots \in Seq(Drv) /\ column' \in 1..Len(roots)
      BY <1>2, <1>5 DEF TreesTyped, ReadTyped
    <3> QED BY <3>1
  <2>2. [kind |-> "pair", parent |-> Nothing, node |-> 1, drv |-> roots[column'], base |-> Nothing]
          \in WalkItems(Len(ms))
    BY <1>2, <1>4, <2>1 DEF WalkItems, Nothing
  <2>3. WalkItems(Len(nodes))' = WalkItems(Len(ms))
    BY <1>3 DEF WalkItems
  <2> QED BY <1>1, <2>2, <2>3
<1>11. nodes' # <<>>
  BY <1>2, <1>3, <1>4
<1>12. column' # 0
  BY <1>5
<1>13. Len(rows') = Len(nodes')
  BY <1>3, <1>4, <1>7, <1>8
<1>14. PhaseTyped'
  BY <1>1, <1>2, <1>9, <1>10, <1>11, <1>12, <1>13 DEF PhaseTyped, readVars
<1>15. Grows
  BY <1>1, <1>2, <1>3, <1>4, SameGrows
<1> QED BY <1>3, <1>4, <1>6, <1>9, <1>14, <1>15 DEF TemplateTyped

\* The derivations on a work list.
Drvs(ws) == {w.drv : w \in ToSet(ws)}

\* What WalkChildren puts before the rest of the work: the children of d.
ChildWork(p, len, d) ==
  /\ p \in Seq(WalkItems(len))
  /\ \A x \in ToSet(p) :
       /\ x.base = Nothing /\ x.drv \in ToSet(Children(column, d))
       /\ x.kind = "pair" => x.node \in DOMAIN nodes /\ nodes[x.node].role = DrvRole[x.drv]

\* What a visit of the children does: without a recorded mismatch all of them are put
\* on the work list.
LEMMA WalkChildrenFacts ==
  ASSUME TreesTyped, Wellformed(nodes), NEW ns, Wellformed(ns), Keeps(nodes, ns),
         NEW n \in 0..Len(ns), NEW m \in DOMAIN nodes, NEW d \in Drv, WalkChildren(ns, n, m, d)
  PROVE  /\ Wellformed(nodes') /\ Len(nodes') = Len(ns) /\ Keeps(ns, nodes') /\ KeepsSeen(ns, nodes')
         /\ records \subseteq records'
         /\ \E p : /\ ChildWork(p, Len(ns), d) /\ work' = p \o Tail(work)
                   /\ records' \subseteq {"extended"} => ToSet(Children(column, d)) \subseteq Drvs(p)
<1>1. /\ nodes' = [k \in DOMAIN ns |->
           IF k \in ToSet(nodes[m].children) /\ nodes[k].role \notin Roles(Children(column, d))
           THEN [ns[k] EXCEPT !.optional = TRUE] ELSE ns[k]]
      /\ work' = [i \in DOMAIN Walked(m, d) |-> [Walked(m, d)[i] EXCEPT !.parent = n]] \o Tail(work)
      /\ records \subseteq records' /\ (Mismatch(m, d) => "count" \in records')
  BY DEF WalkChildren, Walked
<1>2. PICK ms : ms = nodes'
  OBVIOUS
<1>3. Wellformed(ms) /\ Len(ms) = Len(ns) /\ Keeps(ns, ms) /\ KeepsSeen(ns, ms)
  <2>1. ASSUME NEW k \in DOMAIN ns
        PROVE  /\ ms[k] \in NodeRecord /\ ms[k].children = ns[k].children /\ ms[k].seen = ns[k].seen
               /\ ms[k].key = ns[k].key /\ ms[k].role = ns[k].role /\ ms[k].stop = ns[k].stop
    <3>1. ns[k] \in NodeRecord
      BY NodeFields
    <3>2. ms[k] = ns[k] \/ ms[k] = [ns[k] EXCEPT !.optional = TRUE]
      BY <1>1, <1>2
    <3> QED BY <3>1, <3>2 DEF NodeRecord
  <2>2. DOMAIN ms = DOMAIN ns /\ ms = [k \in DOMAIN ms |-> ms[k]]
    BY <1>1, <1>2
  <2>3. Wellformed(ms) /\ Len(ms) = Len(ns) /\ Keeps(ns, ms)
    BY <2>1, <2>2, MapNodes
  <2> QED BY <2>1, <2>3 DEF KeepsSeen
<1>4. PICK kids \in Seq(Drv) : kids = Children(column, d)
  BY ChildrenSeq
<1>5. PICK below : below = Walked(m, d)
  OBVIOUS
<1>6. /\ below \in Seq(ChildItems(Len(nodes), kids))
      /\ ~Mismatch(m, d) => \A c \in ToSet(kids) : \E w \in ToSet(below) : w.drv = c
  BY <1>4, <1>5, WalkedItems
<1>7. PICK p : p = [i \in DOMAIN below |-> [below[i] EXCEPT !.parent = n]]
  OBVIOUS
<1>8. PICK len \in Nat : len = Len(ns) /\ Len(nodes) <= len /\ Len(nodes) \in Nat /\ n \in 0..len
  BY WellformedIs DEF Keeps
<1>9. ASSUME NEW i \in DOMAIN below
      PROVE  /\ p[i] \in WalkItems(len) /\ p[i].base = Nothing /\ p[i].drv \in ToSet(kids) /\ p[i].drv = below[i].drv
             /\ p[i].kind = "pair" => p[i].node \in DOMAIN nodes /\ nodes[p[i].node].role = DrvRole[p[i].drv]
  <2>1. below[i] \in ChildItems(Len(nodes), kids)
    BY <1>6
  <2>2. p[i] = [below[i] EXCEPT !.parent = n]
    BY <1>7
  <2>3. 0..Len(nodes) \subseteq 0..len
    BY <1>8
  <2>4. below[i] \in WalkItems(len)
    BY <2>1, <1>8, ItemsGrow DEF ChildItems
  <2>5. p[i] \in WalkItems(len) /\ p[i].base = below[i].base /\ p[i].drv = below[i].drv
        /\ p[i].kind = below[i].kind /\ p[i].node = below[i].node
    BY <1>8, <2>2, <2>4 DEF WalkItems
  <2> QED BY <2>1, <2>5 DEF ChildItems
<1>10. PICK l \in Nat : DOMAIN below = 1..l
  BY <1>6
<1>11. p \in Seq(WalkItems(len)) /\ DOMAIN p = DOMAIN below
  <2>1. DOMAIN p = 1..l /\ \A i \in 1..l : p[i] \in WalkItems(len)
    BY <1>7, <1>9, <1>10
  <2>2. p = [i \in 1..l |-> p[i]]
    BY <1>7, <1>10
  <2>3. p \in [1..l -> WalkItems(len)]
    BY <2>1, <2>2
  <2> HIDE <1>7
  <2> QED BY <1>10, <2>1, <2>3
<1>12. ChildWork(p, Len(ns), d)
  BY <1>4, <1>8, <1>9, <1>11, SMTT(30) DEF ChildWork, ToSet
<1>13. ASSUME records' \subseteq {"extended"} PROVE ToSet(kids) \subseteq Drvs(p)
  <2>1. ~Mismatch(m, d)
    BY <1>1, <1>13
  <2>2. ASSUME NEW c \in ToSet(kids) PROVE c \in Drvs(p)
    <3>1. PICK i \in DOMAIN below : below[i].drv = c
      BY <1>6, <2>1 DEF ToSet
    <3>2. p[i].drv = c /\ p[i] \in ToSet(p)
      BY <1>9, <1>11, <3>1 DEF ToSet
    <3> QED BY <3>2 DEF Drvs
  <2> QED BY <2>2
<1>14. work' = p \o Tail(work)
  BY <1>1, <1>5, <1>7
<1> QED BY <1>1, <1>2, <1>3, <1>4, <1>12, <1>13, <1>14

\* The head of the work is done, and others come before the rest.
LEMMA WorkTyped ==
  ASSUME NEW l \in Nat, NEW len \in Nat, l <= len, NEW ws \in Seq(WalkItems(l)), ws # <<>>,
         NEW p \in Seq(WalkItems(len))
  PROVE  Tail(ws) \in Seq(WalkItems(len)) /\ p \o Tail(ws) \in Seq(WalkItems(len))
         /\ ToSet(p \o Tail(ws)) = ToSet(p) \cup ToSet(Tail(ws)) /\ ToSet(ws) = {Head(ws)} \cup ToSet(Tail(ws))
<1>1. Tail(ws) \in Seq(WalkItems(l)) /\ ToSet(ws) = {Head(ws)} \cup ToSet(Tail(ws))
  BY ToSetTail
<1>2. Tail(ws) \in Seq(WalkItems(len))
  BY <1>1, ItemsGrow
<1>3. PICK X : X = WalkItems(len)
  OBVIOUS
<1>4. PICK t \in Seq(X) : t = Tail(ws)
  BY <1>2, <1>3
<1>5. p \o t \in Seq(X) /\ ToSet(p \o t) = ToSet(p) \cup ToSet(t)
  BY <1>3, ToSetConcat
<1> QED BY <1>1, <1>2, <1>3, <1>4, <1>5

\* A visit of a node that ends the walk keeps the types.
LEMMA TypedVisitStop ==
  ASSUME TemplateTyped, VisitStop
  PROVE  TemplateTyped' /\ Grows /\ DOMAIN nodes' = DOMAIN nodes
         /\ \A n \in DOMAIN nodes : nodes'[n].seen = (nodes[n].seen \/ n = Head(work).node)
<1>1. PICK w : w = Head(work)
  OBVIOUS
<1>2. /\ phase = "walk" /\ work # <<>> /\ w.kind = "pair" /\ ~nodes[w.node].seen /\ nodes[w.node].stop
      /\ nodes' = [nodes EXCEPT ![w.node].seen = TRUE] /\ work' = Tail(work) /\ records' = records
      /\ leftOver' \subseteq leftOver
      /\ UNCHANGED <<treeVars, readVars, toWalk, column, rows, classes, phase>>
  BY <1>1 DEF VisitStop, Fresh, Item, SkipWork
<1>3. /\ Wellformed(nodes) /\ w.node \in DOMAIN nodes /\ DOMAIN nodes = 1..Len(nodes) /\ Len(nodes) \in Nat
      /\ rows \in Seq(Seq(Derivation)) /\ Len(rows) = Len(nodes) /\ DOMAIN rows = DOMAIN nodes
      /\ (\A n \in DOMAIN rows : Len(rows[n]) = Position)
      /\ Tail(work) \in Seq(WalkItems(Len(nodes)))
  BY <1>1, <1>2, WalkContext
<1>4. PICK ns : ns = nodes'
  OBVIOUS
<1>5. PICK e : e = [nodes[w.node] EXCEPT !.seen = TRUE]
  OBVIOUS
<1>6. ns = [nodes EXCEPT ![w.node] = e]
  BY <1>2, <1>4, <1>5
<1>7. e \in NodeRecord /\ ToSet(e.children) \subseteq DOMAIN nodes /\ e.seen
      /\ e.key = nodes[w.node].key /\ e.role = nodes[w.node].role /\ e.stop = nodes[w.node].stop
  <2>1. nodes[w.node] \in NodeRecord /\ ToSet(nodes[w.node].children) \subseteq DOMAIN nodes
    BY <1>3, NodeFields
  <2> QED BY <1>5, <2>1 DEF NodeRecord
<1>8. Wellformed(ns) /\ Len(ns) = Len(nodes) /\ Keeps(nodes, ns)
  <2>1. PICK k \in DOMAIN nodes : k = w.node
    BY <1>3
  <2>2. ns = [nodes EXCEPT ![k] = e]
    BY <1>6, <2>1
  <2>3. e.key = nodes[k].key /\ e.role = nodes[k].role /\ e.stop = nodes[k].stop
    BY <1>7, <2>1
  <2> QED BY <1>3, <1>7, <2>2, <2>3, ExceptNode, ZenonT(120)
<1>9. DOMAIN ns = DOMAIN nodes
  BY <1>3, <1>8, WellformedIs
<1>10. \A n \in DOMAIN nodes : ns[n].seen = (nodes[n].seen \/ n = w.node)
  <2>1. \A n \in DOMAIN nodes : ns[n] = IF n = w.node THEN e ELSE nodes[n]
    <3>1. nodes = [n \in DOMAIN nodes |-> nodes[n]]
      BY <1>3 DEF Wellformed
    <3> QED BY <1>6, <3>1
  <2>2. \A n \in DOMAIN nodes : nodes[n].seen \in BOOLEAN
    BY <1>3, NodeFields
  <2> QED BY <1>7, <2>1, <2>2
<1>11. PICK ws : ws = work' /\ ws \in Seq(WalkItems(Len(ns)))
  BY <1>2, <1>3, <1>8
<1>12. PICK rs : rs = rows' /\ rs \in Seq(Seq(Derivation)) /\ Len(rs) = Len(ns) /\ \A n \in DOMAIN rs : Len(rs[n]) = Position
  BY <1>2, <1>3, <1>8
<1>13. TemplateTyped' /\ Grows
  BY <1>2, <1>4, <1>8, <1>11, <1>12, WalkTyped, ZenonT(120)
<1> QED BY <1>1, <1>4, <1>9, <1>10, <1>13

\* A revisit without a split keeps the types.
LEMMA TypedRevisitSame ==
  ASSUME TemplateTyped, RevisitSame PROVE TemplateTyped' /\ Grows
<1>1. /\ phase = "walk" /\ work # <<>> /\ nodes' = nodes /\ work' = Tail(work) /\ records \subseteq records'
      /\ leftOver' \subseteq leftOver
      /\ UNCHANGED <<treeVars, readVars, toWalk, column, rows, classes, phase>>
  BY DEF RevisitSame, Again, Item
<1>2. /\ Wellformed(nodes) /\ rows \in Seq(Seq(Derivation)) /\ Len(rows) = Len(nodes) /\ DOMAIN rows = DOMAIN nodes
      /\ (\A n \in DOMAIN rows : Len(rows[n]) = Position)
      /\ Tail(work) \in Seq(WalkItems(Len(nodes)))
  BY <1>1, WalkContext
<1>3. PICK ns : ns = nodes' /\ Wellformed(ns) /\ Keeps(nodes, ns) /\ Len(ns) = Len(nodes)
  BY <1>1, <1>2, KeepsSelf
<1>4. PICK ws : ws = work' /\ ws \in Seq(WalkItems(Len(ns)))
  BY <1>1, <1>2, <1>3
<1>5. PICK rs : rs = rows' /\ rs \in Seq(Seq(Derivation)) /\ Len(rs) = Len(ns) /\ \A n \in DOMAIN rs : Len(rs[n]) = Position
  BY <1>1, <1>2, <1>3
<1> QED BY <1>1, <1>3, <1>4, <1>5, WalkTyped

\* One element of a sequence changes.
LEMMA OneElement ==
  ASSUME NEW X, NEW s \in Seq(X), NEW n \in DOMAIN s, NEW e \in X, NEW t, t = [s EXCEPT ![n] = e]
  PROVE  /\ t \in Seq(X) /\ Len(t) = Len(s) /\ DOMAIN t = DOMAIN s
         /\ \A m \in DOMAIN s : t[m] = IF m = n THEN e ELSE s[m]
OBVIOUS

\* The place of one node in the current column.
LEMMA SetPlace ==
  ASSUME NEW rs \in Seq(Seq(Derivation)), NEW n \in DOMAIN rs, NEW k \in Nat \ {0}, NEW d \in Drv,
         \A m \in DOMAIN rs : Len(rs[m]) = k
  PROVE  LET qs == [rs EXCEPT ![n][k] = d]
         IN  /\ qs \in Seq(Seq(Derivation)) /\ Len(qs) = Len(rs) /\ DOMAIN qs = DOMAIN rs
             /\ \A m \in DOMAIN rs : Len(qs[m]) = k /\ qs[m][k] = IF m = n THEN d ELSE rs[m][k]
<1>1. PICK r : r = [rs[n] EXCEPT ![k] = d]
  OBVIOUS
<1>2. d \in Derivation
  BY DEF Derivation
<1>3. rs[n] \in Seq(Derivation) /\ Len(rs[n]) = k
  OBVIOUS
<1>4. r \in Seq(Derivation) /\ Len(r) = k /\ r[k] = d
  BY <1>1, <1>2, <1>3
<1>5. PICK qs : qs = [rs EXCEPT ![n] = r]
  OBVIOUS
<1>6. qs = [rs EXCEPT ![n][k] = d]
  BY <1>1, <1>5
<1>7. qs \in Seq(Seq(Derivation)) /\ Len(qs) = Len(rs) /\ DOMAIN qs = DOMAIN rs
      /\ \A m \in DOMAIN rs : qs[m] = IF m = n THEN r ELSE rs[m]
  BY <1>4, <1>5, OneElement
<1>8. \A m \in DOMAIN rs : Len(qs[m]) = k /\ qs[m][k] = IF m = n THEN d ELSE rs[m][k]
  BY <1>4, <1>7
<1> QED BY <1>6, <1>7, <1>8

\* A node is marked as seen.
LEMMA MarkSeen ==
  ASSUME NEW ns, Wellformed(ns), NEW n \in DOMAIN ns
  PROVE  LET ms == [ns EXCEPT ![n].seen = TRUE]
         IN  /\ Wellformed(ms) /\ Len(ms) = Len(ns) /\ Keeps(ns, ms) /\ DOMAIN ms = DOMAIN ns
             /\ \A k \in DOMAIN ns : ms[k].seen <=> (ns[k].seen \/ k = n)
<1>1. PICK e : e = [ns[n] EXCEPT !.seen = TRUE]
  OBVIOUS
<1>2. e \in NodeRecord /\ e.children = ns[n].children /\ e.seen = TRUE
      /\ e.key = ns[n].key /\ e.role = ns[n].role /\ e.stop = ns[n].stop
  <2>1. ns[n] \in NodeRecord
    BY NodeFields
  <2> QED BY <1>1, <2>1 DEF NodeRecord
<1>3. PICK ms : ms = [ns EXCEPT ![n] = e]
  OBVIOUS
<1>4. ms = [ns EXCEPT ![n].seen = TRUE]
  BY <1>1, <1>3
<1>5. /\ DOMAIN ms = DOMAIN ns /\ ms = [k \in DOMAIN ms |-> ms[k]]
      /\ \A k \in DOMAIN ns : ms[k] = IF k = n THEN e ELSE ns[k]
  <2>1. ns = [k \in DOMAIN ns |-> ns[k]]
    BY DEF Wellformed
  <2> QED BY <1>3, <2>1
<1>6. ASSUME NEW k \in DOMAIN ns
      PROVE  /\ ms[k] \in NodeRecord /\ ms[k].children = ns[k].children
             /\ ms[k].key = ns[k].key /\ ms[k].role = ns[k].role /\ ms[k].stop = ns[k].stop
             /\ ms[k].seen <=> (ns[k].seen \/ k = n)
  <2>1. CASE k = n
    BY <1>2, <1>5, <2>1
  <2>2. CASE k # n
    BY <1>5, <2>2, NodeFields
  <2> QED BY <2>1, <2>2
<1>7. Wellformed(ms) /\ Len(ms) = Len(ns) /\ Keeps(ns, ms)
  BY <1>5, <1>6, MapNodes
<1> QED BY <1>4, <1>5, <1>6, <1>7

\* Nothing is walked below a derivation that is not expanded.
LEMMA NoChildWork ==
  ASSUME NEW len \in Nat, NEW d, d \notin expanded[column]
  PROVE  ChildWork(<<>>, len, d) /\ ToSet(Children(column, d)) \subseteq Drvs(<<>>)
BY DEF ChildWork, Children, ToSet

\* A visit of a node keeps the types.
LEMMA TypedVisitNode ==
  ASSUME TemplateTyped, VisitNode, NEW w, w = Head(work)
  PROVE  /\ TemplateTyped' /\ Grows /\ Position' = Position /\ DOMAIN nodes' = DOMAIN nodes
         /\ \A n \in DOMAIN nodes : /\ nodes'[n].seen <=> (nodes[n].seen \/ n = w.node)
                                    /\ rows'[n][Position] = IF n = w.node THEN w.drv ELSE rows[n][Position]
         /\ \E p : /\ ChildWork(p, Len(nodes'), w.drv) /\ work' = p \o Tail(work)
                   /\ records' \subseteq {"extended"} => ToSet(Children(column, w.drv)) \subseteq Drvs(p)
<1>1. /\ phase = "walk" /\ work # <<>> /\ w.kind = "pair" /\ ~nodes[w.node].stop
      /\ rows' = [rows EXCEPT ![w.node][Position] = w.drv] /\ leftOver' \subseteq leftOver
      /\ IF w.drv \in expanded[column]
         THEN WalkChildren([nodes EXCEPT ![w.node].seen = TRUE], w.node, w.node, w.drv)
         ELSE nodes' = [nodes EXCEPT ![w.node].seen = TRUE] /\ work' = Tail(work) /\ records' = records
      /\ UNCHANGED <<treeVars, readVars, toWalk, column, classes, phase>>
  BY DEF VisitNode, Fresh, Item, SkipWork
<1>2. /\ TreesTyped /\ Wellformed(nodes) /\ w.node \in DOMAIN nodes /\ DOMAIN nodes = 1..Len(nodes) /\ Len(nodes) \in Nat
      /\ rows \in Seq(Seq(Derivation)) /\ Len(rows) = Len(nodes) /\ DOMAIN rows = DOMAIN nodes
      /\ (\A n \in DOMAIN rows : Len(rows[n]) = Position) /\ Position \in Nat \ {0} /\ w.drv \in Drv
      /\ work \in Seq(WalkItems(Len(nodes))) /\ Tail(work) \in Seq(WalkItems(Len(nodes)))
  BY <1>1, WalkContext
<1>3. PICK ns : ns = [nodes EXCEPT ![w.node].seen = TRUE]
  OBVIOUS
<1>4. PICK n \in DOMAIN nodes : n = w.node
  BY <1>2
<1>5. PICK d \in Drv : d = w.drv
  BY <1>2
<1>6. /\ Wellformed(ns) /\ Len(ns) = Len(nodes) /\ Keeps(nodes, ns) /\ DOMAIN ns = DOMAIN nodes
      /\ \A k \in DOMAIN nodes : ns[k].seen <=> (nodes[k].seen \/ k = n)
  <2>1. ns = [nodes EXCEPT ![n].seen = TRUE]
    BY <1>3, <1>4
  <2> QED BY <1>2, <2>1, MarkSeen
<1>7. PICK rs : /\ rs = rows' /\ rs \in Seq(Seq(Derivation)) /\ Len(rs) = Len(rows) /\ DOMAIN rs = DOMAIN rows
                /\ \A m \in DOMAIN rows : Len(rs[m]) = Position /\ rs[m][Position] = IF m = n THEN d ELSE rows[m][Position]
  <2>1. PICK qs : qs = rows'
    OBVIOUS
  <2>2. PICK k \in Nat \ {0} : k = Position
    BY <1>2
  <2>3. qs = [rows EXCEPT ![n][k] = d] /\ n \in DOMAIN rows
    BY <1>1, <1>2, <1>4, <1>5, <2>1, <2>2
  <2>4. \A m \in DOMAIN rows : Len(rows[m]) = k
    BY <1>2, <2>2
  <2>5. /\ qs \in Seq(Seq(Derivation)) /\ Len(qs) = Len(rows) /\ DOMAIN qs = DOMAIN rows
        /\ \A m \in DOMAIN rows : Len(qs[m]) = k /\ qs[m][k] = IF m = n THEN d ELSE rows[m][k]
    <3>1. rows \in Seq(Seq(Derivation)) /\ n \in DOMAIN rows
      BY <1>2, <2>3
    <3> QED BY ONLY <2>3, <2>4, <3>1, k \in Nat \ {0}, d \in Drv, SetPlace
  <2> QED BY <2>1, <2>2, <2>5
<1>8. /\ Wellformed(nodes') /\ Len(nodes') = Len(ns) /\ Keeps(ns, nodes') /\ KeepsSeen(ns, nodes')
      /\ records \subseteq records'
      /\ \E p : /\ ChildWork(p, Len(ns), d) /\ work' = p \o Tail(work)
                /\ records' \subseteq {"extended"} => ToSet(Children(column, d)) \subseteq Drvs(p)
  <2>1. CASE d \in expanded[column]
    <3>1. WalkChildren(ns, n, n, d) /\ n \in 0..Len(ns)
      BY <1>1, <1>2, <1>3, <1>4, <1>5, <1>6, <2>1
    <3> QED BY <1>2, <1>6, <3>1, WalkChildrenFacts
  <2>2. CASE d \notin expanded[column]
    <3>1. nodes' = ns /\ work' = Tail(work) /\ records' = records
      BY <1>1, <1>3, <1>5, <2>2
    <3>2. ChildWork(<<>>, Len(ns), d) /\ ToSet(Children(column, d)) \subseteq Drvs(<<>>)
      BY <1>2, <1>6, <2>2, NoChildWork
    <3>3. work' = <<>> \o Tail(work)
      BY <1>2, <3>1
    <3> QED BY <1>6, <3>1, <3>2, <3>3, KeepsSelf
  <2> QED BY <2>1, <2>2
<1>9. PICK p : /\ ChildWork(p, Len(ns), d) /\ work' = p \o Tail(work)
               /\ records' \subseteq {"extended"} => ToSet(Children(column, d)) \subseteq Drvs(p)
  BY <1>8
<1>10. PICK ms : ms = nodes' /\ Wellformed(ms) /\ Len(ms) = Len(nodes) /\ Keeps(nodes, ms) /\ DOMAIN ms = DOMAIN nodes
  <2>1. PICK ms : ms = nodes'
    OBVIOUS
  <2>2. Wellformed(ms) /\ Len(ms) = Len(nodes) /\ Keeps(ns, ms)
    BY <1>6, <1>8, <2>1
  <2>3. Keeps(nodes, ms)
    BY <1>2, <1>6, <2>2, KeepsTrans
  <2>4. DOMAIN ms = DOMAIN nodes
    BY <1>2, <2>2, WellformedIs
  <2> QED BY <2>1, <2>2, <2>3, <2>4
<1>11. PICK ws : ws = work' /\ ws \in Seq(WalkItems(Len(ms)))
  <2>1. p \in Seq(WalkItems(Len(nodes)))
    BY <1>6, <1>9, SMTT(30) DEF ChildWork
  <2>2. PICK l \in Nat : l = Len(nodes)
    BY <1>2, Zenon
  <2>3. p \o Tail(work) \in Seq(WalkItems(l))
    BY <1>1, <1>2, <2>1, <2>2, WorkTyped, SMTT(30)
  <2> QED BY <1>9, <1>10, <2>2, <2>3
<1>12. TemplateTyped' /\ Grows /\ Position' = Position
  <2>1. Len(rs) = Len(ms) /\ \A m \in DOMAIN rs : Len(rs[m]) = Position
    BY <1>2, <1>7, <1>10
  <2> QED BY <1>1, <1>7, <1>8, <1>10, <1>11, <2>1, WalkTyped
<1>13. \A k \in DOMAIN nodes : /\ nodes'[k].seen <=> (nodes[k].seen \/ k = n)
                               /\ rows'[k][Position] = IF k = n THEN d ELSE rows[k][Position]
  BY <1>2, <1>6, <1>7, <1>8 DEF KeepsSeen
<1>14. ChildWork(p, Len(nodes'), d)
  BY <1>6, <1>9, <1>10
<1>15. \E q : /\ ChildWork(q, Len(nodes'), w.drv) /\ work' = q \o Tail(work)
              /\ records' \subseteq {"extended"} => ToSet(Children(column, w.drv)) \subseteq Drvs(q)
  BY <1>5, <1>9, <1>14
<1>16. \A k \in DOMAIN nodes : /\ nodes'[k].seen <=> (nodes[k].seen \/ k = w.node)
                               /\ rows'[k][Position] = IF k = w.node THEN w.drv ELSE rows[k][Position]
  BY <1>4, <1>5, <1>13
<1>17. DOMAIN nodes' = DOMAIN nodes
  BY <1>10
<1> QED BY <1>12, <1>15, <1>16, <1>17

\* A longer sequence.
LEMMA AppendFacts ==
  ASSUME NEW X, NEW s \in Seq(X), NEW e \in X
  PROVE  /\ Append(s, e) \in Seq(X) /\ Len(Append(s, e)) = Len(s) + 1 /\ Append(s, e)[Len(s) + 1] = e
         /\ \A k \in 1..Len(s) : Append(s, e)[k] = s[k]
OBVIOUS

\* One child takes the place of another.
LEMMA ReplacedSeq ==
  ASSUME NEW s \in Seq(Nat), NEW old, NEW new \in Nat
  PROVE  Replaced(s, old, new) \in Seq(Nat) /\ ToSet(Replaced(s, old, new)) \subseteq ToSet(s) \cup {new}
<1>1. PICK i : Replaced(s, old, new) = [s EXCEPT ![i] = new]
  BY DEF Replaced
<1>2. PICK t : t = [s EXCEPT ![i] = new]
  OBVIOUS
<1>3. PICK l \in Nat : l = Len(s) /\ DOMAIN s = 1..l /\ s \in [1..l -> Nat]
  OBVIOUS
<1>4. t \in [1..l -> Nat] /\ \A k \in 1..l : t[k] \in ToSet(s) \cup {new}
  <2>1. \A k \in 1..l : s[k] \in ToSet(s)
    BY <1>3 DEF ToSet
  <2> QED BY <1>2, <1>3, <2>1
<1>5. t \in Seq(Nat) /\ DOMAIN t = 1..l
  <2> HIDE <1>2
  <2> QED BY <1>4
<1>6. ToSet(t) \subseteq ToSet(s) \cup {new}
  BY <1>4, <1>5 DEF ToSet
<1> QED BY <1>1, <1>2, <1>5, <1>6

\* A node is cloned, and its parent gets the clone in its place.
Clone(ns, n, q, o, d) ==
  Append([ns EXCEPT ![n].enforce = IF @ = Nothing THEN o ELSE @,
                    ![q].children = Replaced(@, n, Len(ns) + 1)],
         [ns[n] EXCEPT !.enforce = d, !.seen = TRUE])

\* The clone is the last node, and seen.
Cloned(ns, ms, n) ==
  Len(ms) = Len(ns) + 1 /\ ms[Len(ms)].seen = TRUE /\ ms[Len(ms)].role = ns[n].role /\ ms[Len(ms)].stop = ns[n].stop

\* The clone of a node keeps the template well-formed and the nodes what they are.
LEMMA CloneNode ==
  ASSUME NEW ns, Wellformed(ns), NEW n \in DOMAIN ns, NEW q \in DOMAIN ns, NEW o \in Derivation, NEW d \in Drv,
         NEW ms, ms = Clone(ns, n, q, o, d)
  PROVE  Wellformed(ms) /\ Keeps(ns, ms) /\ KeepsSeen(ns, ms) /\ Cloned(ns, ms, n)
<1>0. PICK new : new = Len(ns) + 1
  OBVIOUS
<1>1. PICK len \in Nat : len = Len(ns) /\ ns \in [1..len -> NodeRecord] /\ DOMAIN ns = 1..len
                         /\ \A k \in 1..len : ToSet(ns[k].children) \subseteq 1..len
  BY WellformedIs
<1>2. PICK a : a = [ns[n] EXCEPT !.enforce = IF @ = Nothing THEN o ELSE @]
  OBVIOUS
<1>3. PICK as : as = [ns EXCEPT ![n] = a]
  OBVIOUS
<1>4. PICK b : b = [as[q] EXCEPT !.children = Replaced(@, n, new)]
  OBVIOUS
<1>5. PICK bs : bs = [as EXCEPT ![q] = b]
  OBVIOUS
<1>6. PICK c : c = [ns[n] EXCEPT !.enforce = d, !.seen = TRUE]
  OBVIOUS
<1>7. ms = Append(bs, c)
  BY <1>0, <1>2, <1>3, <1>4, <1>5, <1>6 DEF Clone
<1>8. ns[n] \in NodeRecord /\ new \in Nat /\ n \in Nat /\ o \in Nat /\ d \in Nat
  BY <1>0, <1>1, DrvFacts
<1>9. /\ a \in NodeRecord /\ a.children = ns[n].children /\ a.seen = ns[n].seen
      /\ a.key = ns[n].key /\ a.role = ns[n].role /\ a.stop = ns[n].stop
  BY <1>2, <1>8 DEF NodeRecord
<1>10. /\ c \in NodeRecord /\ c.children = ns[n].children /\ c.seen = TRUE
       /\ c.role = ns[n].role /\ c.stop = ns[n].stop
  BY <1>6, <1>8 DEF NodeRecord
<1>11. ASSUME NEW k \in 1..len
       PROVE  /\ as[k] \in NodeRecord /\ as[k].children = ns[k].children /\ as[k].seen = ns[k].seen
              /\ as[k].key = ns[k].key /\ as[k].role = ns[k].role /\ as[k].stop = ns[k].stop
  <2>1. ns[k] \in NodeRecord
    BY <1>1
  <2>2. as[k] = IF k = n THEN a ELSE ns[k]
    BY <1>1, <1>3
  <2> QED BY <1>9, <2>1, <2>2
<1>12. /\ b \in NodeRecord /\ ToSet(b.children) \subseteq ToSet(ns[q].children) \cup {new} /\ b.seen = ns[q].seen
       /\ b.key = ns[q].key /\ b.role = ns[q].role /\ b.stop = ns[q].stop
  <2>1. as[q] \in NodeRecord /\ as[q].children = ns[q].children /\ ns[q].children \in Seq(Nat)
    BY <1>1, <1>11 DEF NodeRecord
  <2>2. PICK s \in Seq(Nat) : s = Replaced(as[q].children, n, new) /\ ToSet(s) \subseteq ToSet(ns[q].children) \cup {new}
    BY <1>8, <2>1, ReplacedSeq
  <2>3. b = [as[q] EXCEPT !.children = s]
    BY <1>4, <2>2
  <2>4. /\ b \in NodeRecord /\ b.children = s /\ b.seen = as[q].seen
        /\ b.key = as[q].key /\ b.role = as[q].role /\ b.stop = as[q].stop
    BY <2>1, <2>3 DEF NodeRecord
  <2> QED BY <1>1, <1>11, <2>2, <2>4
<1>13. ASSUME NEW k \in 1..len
       PROVE  /\ bs[k] \in NodeRecord /\ ToSet(bs[k].children) \subseteq 1..(len + 1) /\ bs[k].seen = ns[k].seen
              /\ bs[k].key = ns[k].key /\ bs[k].role = ns[k].role /\ bs[k].stop = ns[k].stop
  <2>1. bs[k] = IF k = q THEN b ELSE as[k]
    BY <1>1, <1>3, <1>5
  <2>2. ToSet(ns[k].children) \subseteq 1..(len + 1) /\ new \in 1..(len + 1)
    <3>1. 1..len \subseteq 1..(len + 1)
      OBVIOUS
    <3> QED BY <1>0, <1>1, <3>1
  <2>3. CASE k = q
    BY <1>12, <2>1, <2>2, <2>3
  <2>4. CASE k # q
    BY <1>11, <2>1, <2>2, <2>4
  <2> QED BY <2>3, <2>4
<1>14. bs \in [1..len -> NodeRecord]
  <2>1. DOMAIN bs = 1..len /\ bs = [k \in 1..len |-> bs[k]]
    BY <1>1, <1>3, <1>5
  <2> QED BY <1>13, <2>1
<1>15. PICK l \in Nat : l = len + 1 /\ l = new
  BY <1>0, <1>1
<1>16. ms \in [1..l -> NodeRecord] /\ ms[l] = c /\ \A k \in 1..len : k \in 1..l /\ ms[k] = bs[k]
  <2>1. bs \in Seq(NodeRecord) /\ Len(bs) = len
    BY <1>14
  <2>2. ms \in Seq(NodeRecord) /\ Len(ms) = l /\ ms[l] = c /\ \A k \in 1..len : k \in 1..l /\ ms[k] = bs[k]
    <3>1. c \in NodeRecord
      BY <1>10
    <3>2. /\ Append(bs, c) \in Seq(NodeRecord) /\ Len(Append(bs, c)) = len + 1 /\ Append(bs, c)[len + 1] = c
          /\ \A k \in 1..len : Append(bs, c)[k] = bs[k]
      BY <2>1, <3>1, AppendFacts
    <3>3. \A k \in 1..len : k \in 1..l
      BY <1>15
    <3> QED BY <1>7, <1>15, <3>2, <3>3
  <2>3. \A s \in Seq(NodeRecord) : s \in [1..Len(s) -> NodeRecord]
    OBVIOUS
  <2> QED BY <2>2, <2>3
<1>17. \A k \in 1..l : ToSet(ms[k].children) \subseteq 1..l
  <2>1. ToSet(c.children) \subseteq 1..l
    <3>1. 1..len \subseteq 1..l
      BY <1>15
    <3> QED BY <1>1, <1>10, <3>1
  <2>2. \A k \in 1..len : ToSet(ms[k].children) \subseteq 1..l
    BY <1>13, <1>15, <1>16
  <2>3. \A k \in 1..l : k = l \/ k \in 1..len
    BY <1>15
  <2> QED BY <1>16, <2>1, <2>2, <2>3
<1>18. Wellformed(ms) /\ Len(ms) = l /\ DOMAIN ms = 1..l
  BY <1>16, <1>17, WellformedIf
<1>19. ms[new].seen = TRUE /\ ms[new].role = ns[n].role /\ ms[new].stop = ns[n].stop
  BY <1>10, <1>15, <1>16
<1>20. Keeps(ns, ms) /\ KeepsSeen(ns, ms)
  <2>1. ASSUME NEW k \in 1..len
        PROVE  /\ k \in 1..l /\ ms[k].key = ns[k].key /\ ms[k].role = ns[k].role /\ ms[k].stop = ns[k].stop
               /\ ms[k].seen = ns[k].seen
    BY <1>13, <1>16
  <2>2. len <= l
    BY <1>15
  <2> QED BY <1>1, <1>18, <2>1, <2>2 DEF Keeps, KeepsSeen
<1> QED BY <1>0, <1>15, <1>18, <1>19, <1>20 DEF Cloned

\* A row for a new node.
LEMMA AppendRow ==
  ASSUME NEW rs \in Seq(Seq(Derivation)), NEW k \in Nat, \A m \in DOMAIN rs : Len(rs[m]) = k,
         NEW r \in Seq(Derivation), Len(r) = k, NEW qs, qs = Append(rs, r)
  PROVE  /\ qs \in Seq(Seq(Derivation)) /\ Len(qs) = Len(rs) + 1 /\ \A m \in DOMAIN qs : Len(qs[m]) = k
         /\ qs[Len(rs) + 1] = r /\ \A m \in DOMAIN rs : qs[m] = rs[m]
<1>1. /\ qs \in Seq(Seq(Derivation)) /\ Len(qs) = Len(rs) + 1
      /\ qs[Len(rs) + 1] = r /\ \A m \in 1..Len(rs) : qs[m] = rs[m]
  BY AppendFacts
<1>2. DOMAIN rs = 1..Len(rs) /\ DOMAIN qs = 1..Len(qs) /\ Len(rs) \in Nat
  BY <1>1, SMTT(30)
<1> QED BY <1>1, <1>2

\* A split at a revisit keeps the types; its new node is seen, with the derivation in
\* its row.
LEMMA TypedRevisitSplit ==
  ASSUME TemplateTyped, RevisitSplit, NEW w, w = Head(work), NEW new, new = Len(nodes) + 1
  PROVE  /\ TemplateTyped' /\ Grows /\ Position' = Position /\ DOMAIN nodes' = DOMAIN nodes \cup {new} /\ new \notin DOMAIN nodes
         /\ \A n \in DOMAIN nodes : /\ nodes'[n].seen <=> nodes[n].seen
                                    /\ rows'[n] = rows[n]
         /\ nodes'[new].seen /\ ~nodes'[new].stop /\ rows'[new][Position] = w.drv
         /\ \E p : /\ ChildWork(p, Len(nodes'), w.drv) /\ work' = p \o Tail(work)
                   /\ records' \subseteq {"extended"} => ToSet(Children(column, w.drv)) \subseteq Drvs(p)
<1>1. /\ phase = "walk" /\ work # <<>> /\ w.kind = "pair" /\ ~nodes[w.node].stop /\ w.parent # Nothing
      /\ rows' = Append(rows, [rows[w.node] EXCEPT ![Position] = w.drv]) /\ leftOver' \subseteq leftOver
      /\ UNCHANGED <<treeVars, readVars, toWalk, column, classes, phase>>
  BY SMTT(30) DEF RevisitSplit, Again, Item, Splits, Agrees
<1>2. PICK ns :
      /\ ns = Append([nodes EXCEPT ![w.node].enforce = IF @ = Nothing THEN Occupant ELSE @,
                                   ![w.parent].children = Replaced(@, w.node, new)],
                     [nodes[w.node] EXCEPT !.enforce = w.drv, !.seen = TRUE])
      /\ IF w.drv \in expanded[column] THEN WalkChildren(ns, new, w.node, w.drv)
         ELSE nodes' = ns /\ work' = Tail(work) /\ records' = records
  BY Zenon DEF RevisitSplit, SkipWork
<1>3. /\ TreesTyped /\ Wellformed(nodes) /\ w.node \in DOMAIN nodes /\ DOMAIN nodes = 1..Len(nodes) /\ Len(nodes) \in Nat
      /\ rows \in Seq(Seq(Derivation)) /\ Len(rows) = Len(nodes) /\ DOMAIN rows = DOMAIN nodes
      /\ (\A n \in DOMAIN rows : Len(rows[n]) = Position) /\ Position \in Nat \ {0} /\ w.drv \in Drv
      /\ work \in Seq(WalkItems(Len(nodes))) /\ Tail(work) \in Seq(WalkItems(Len(nodes)))
      /\ w.parent \in DOMAIN nodes
  <2>1. w.parent \in 0..Len(nodes)
    BY <1>1, WalkContext
  <2> QED BY <1>1, <2>1, WalkContext, SMTT(30) DEF Nothing
<1>4. PICK n \in DOMAIN nodes : n = w.node
  BY <1>3
<1>5. PICK d \in Drv : d = w.drv
  BY <1>3
<1>6. PICK q \in DOMAIN nodes : q = w.parent
  BY <1>3
<1>7. PICK k \in Nat \ {0} : k = Position
  BY <1>3
<1>8. rows[n] \in Seq(Derivation) /\ Len(rows[n]) = k
  BY <1>3, <1>7
<1>9. PICK o \in Derivation : o = Occupant
  <2>1. Occupant = rows[n][k]
    BY <1>4, <1>7 DEF Occupant
  <2>2. rows[n][k] \in Derivation
    BY <1>8
  <2> QED BY <2>1, <2>2
<1>10. /\ Wellformed(ns) /\ Len(ns) = new /\ Keeps(nodes, ns) /\ KeepsSeen(nodes, ns)
       /\ ns[new].seen = TRUE /\ ns[new].role = nodes[n].role /\ ns[new].stop = nodes[n].stop
  <2>1. ns = Clone(nodes, n, q, o, d)
    BY <1>2, <1>4, <1>5, <1>6, <1>9 DEF Clone
  <2>2. /\ Wellformed(ns) /\ Len(ns) = Len(nodes) + 1 /\ Keeps(nodes, ns) /\ KeepsSeen(nodes, ns)
        /\ ns[Len(ns)].seen = TRUE /\ ns[Len(ns)].role = nodes[n].role /\ ns[Len(ns)].stop = nodes[n].stop
    <3>1. Wellformed(nodes)
      BY <1>3
    <3>2. Wellformed(ns) /\ Keeps(nodes, ns) /\ KeepsSeen(nodes, ns) /\ Cloned(nodes, ns, n)
      BY <2>1, <3>1, CloneNode
    <3> QED BY <3>2 DEF Cloned
  <2> QED BY <2>2
<1>11. DOMAIN ns = 1..new /\ new \in Nat /\ new \notin DOMAIN nodes /\ 1..new = DOMAIN nodes \cup {new}
       /\ new \in DOMAIN ns /\ n \in DOMAIN ns /\ Len(nodes) <= new
  BY <1>3, <1>10, WellformedIs, SMTT(30)
<1>12. PICK r : r = [rows[n] EXCEPT ![k] = d]
  OBVIOUS
<1>13. r \in Seq(Derivation) /\ Len(r) = k /\ r[k] = d
  <2>1. d \in Derivation /\ k \in DOMAIN rows[n]
    BY <1>8 DEF Derivation
  <2> QED BY <1>8, <1>12, <2>1
<1>14. PICK rs : rs = rows' /\ rs = Append(rows, r)
  BY <1>1, <1>4, <1>5, <1>7, <1>12
<1>15. /\ rs \in Seq(Seq(Derivation)) /\ Len(rs) = new /\ (\A m \in DOMAIN rs : Len(rs[m]) = k)
       /\ rs[new] = r /\ \A m \in DOMAIN rows : rs[m] = rows[m]
  <2>1. rows \in Seq(Seq(Derivation)) /\ \A m \in DOMAIN rows : Len(rows[m]) = k
    BY <1>3, <1>7
  <2>2. rs = Append(rows, r)
    BY <1>14
  <2>3. /\ rs \in Seq(Seq(Derivation)) /\ Len(rs) = Len(rows) + 1 /\ (\A m \in DOMAIN rs : Len(rs[m]) = k)
        /\ rs[Len(rows) + 1] = r /\ \A m \in DOMAIN rows : rs[m] = rows[m]
    BY ONLY <1>13, <2>1, <2>2, k \in Nat \ {0}, AppendRow
  <2> QED BY <1>3, <2>3
<1>16. /\ Wellformed(nodes') /\ Len(nodes') = new /\ Keeps(ns, nodes') /\ KeepsSeen(ns, nodes')
       /\ records \subseteq records'
       /\ \E p : /\ ChildWork(p, new, d) /\ work' = p \o Tail(work)
                 /\ records' \subseteq {"extended"} => ToSet(Children(column, d)) \subseteq Drvs(p)
  <2>1. CASE d \in expanded[column]
    <3>1. WalkChildren(ns, new, n, d) /\ new \in 0..Len(ns)
      <4>1. WalkChildren(ns, new, w.node, w.drv)
        BY ONLY <1>2, <1>5, <2>1
      <4>2. new \in 0..Len(ns)
        BY ONLY <1>10, <1>11
      <4> QED BY ONLY <1>4, <1>5, <4>1, <4>2
    <3>2. TreesTyped /\ Wellformed(nodes) /\ Wellformed(ns) /\ Keeps(nodes, ns) /\ Len(ns) = new
      BY <1>3, <1>10
    <3>3. /\ Wellformed(nodes') /\ Len(nodes') = Len(ns) /\ Keeps(ns, nodes') /\ KeepsSeen(ns, nodes')
          /\ records \subseteq records'
          /\ \E p : /\ ChildWork(p, Len(ns), d) /\ work' = p \o Tail(work)
                    /\ records' \subseteq {"extended"} => ToSet(Children(column, d)) \subseteq Drvs(p)
      BY ONLY <3>1, <3>2, n \in DOMAIN nodes, d \in Drv, WalkChildrenFacts, SMTT(30)
    <3> QED BY ONLY <3>2, <3>3
  <2>2. CASE d \notin expanded[column]
    <3>1. nodes' = ns /\ work' = Tail(work) /\ records' = records
      BY <1>2, <1>5, <2>2, Zenon
    <3>2. ChildWork(<<>>, new, d) /\ ToSet(Children(column, d)) \subseteq Drvs(<<>>)
      BY <1>11, <2>2, NoChildWork
    <3>3. work' = <<>> \o Tail(work)
      BY <1>3, <3>1
    <3> QED BY <1>10, <3>1, <3>2, <3>3, KeepsSelf, SMTT(30)
  <2> QED BY <2>1, <2>2
<1>17. PICK p : /\ ChildWork(p, new, d) /\ work' = p \o Tail(work)
                /\ records' \subseteq {"extended"} => ToSet(Children(column, d)) \subseteq Drvs(p)
  BY <1>16
<1>18. PICK ms : ms = nodes' /\ Wellformed(ms) /\ Len(ms) = new /\ Keeps(nodes, ms) /\ DOMAIN ms = 1..new
  <2>1. PICK ms : ms = nodes'
    OBVIOUS
  <2>2. Wellformed(ms) /\ Len(ms) = new /\ Keeps(ns, ms)
    BY <1>16, <2>1
  <2>3. Keeps(nodes, ms)
    BY <1>3, <1>10, <2>2, KeepsTrans
  <2>4. DOMAIN ms = 1..new
    BY <2>2, WellformedIs
  <2> QED BY <2>1, <2>2, <2>3, <2>4
<1>19. PICK ws : ws = work' /\ ws \in Seq(WalkItems(Len(ms)))
  <2>1. p \in Seq(WalkItems(new))
    BY <1>17, SMTT(30) DEF ChildWork
  <2>2. PICK l \in Nat : l = Len(nodes)
    BY <1>3, Zenon
  <2>3. p \o Tail(work) \in Seq(WalkItems(new))
    BY <1>1, <1>3, <1>11, <2>1, <2>2, WorkTyped
  <2> QED BY <1>17, <1>18, <2>3
<1>20. TemplateTyped' /\ Grows /\ Position' = Position
  <2>1. Len(rs) = Len(ms) /\ \A m \in DOMAIN rs : Len(rs[m]) = Position
    BY <1>7, <1>15, <1>18
  <2> QED BY <1>1, <1>14, <1>15, <1>16, <1>18, <1>19, <2>1, WalkTyped
<1>21. ASSUME NEW m \in DOMAIN nodes
       PROVE  /\ nodes'[m].seen <=> nodes[m].seen
              /\ rows'[m] = rows[m]
  <2>1. m \in DOMAIN ns /\ m \in DOMAIN rows
    BY <1>3, <1>11
  <2> QED BY <1>10, <1>14, <1>15, <1>16, <2>1 DEF KeepsSeen
<1>22. nodes'[new].seen /\ ~nodes'[new].stop
  <2>1. nodes'[new].seen = ns[new].seen /\ nodes'[new].stop = ns[new].stop
    BY <1>11, <1>16 DEF Keeps, KeepsSeen
  <2> QED BY <1>1, <1>4, <1>10, <2>1
<1>23. rows'[new][Position] = w.drv
  BY <1>5, <1>7, <1>13, <1>14, <1>15
<1>24. \E s : /\ ChildWork(s, Len(nodes'), w.drv) /\ work' = s \o Tail(work)
              /\ records' \subseteq {"extended"} => ToSet(Children(column, w.drv)) \subseteq Drvs(s)
  BY <1>5, <1>16, <1>17
<1>25. DOMAIN nodes' = DOMAIN nodes \cup {new} /\ new \notin DOMAIN nodes
  BY <1>11, <1>18
<1> QED BY <1>20, <1>21, <1>22, <1>23, <1>24, <1>25

\* What an extension at d puts before the rest of the work: the children of d, to be shared
\* with the nodes from base on.
ExtendWork(p, len, d, base) ==
  /\ p \in Seq(WalkItems(len))
  /\ \A x \in ToSet(p) : x.kind = "extend" /\ x.base = base /\ x.drv \in ToSet(Children(column, d))

\* An extension puts all children of its derivation on the work list.
LEMMA ExtendItems ==
  ASSUME TreesTyped, NEW d \in Drv, NEW l \in Nat, NEW n \in 0..l, NEW base \in 0..l,
         NEW kids, kids = Children(column, d),
         NEW p, p = [i \in DOMAIN kids |-> [kind |-> "extend", parent |-> n, node |-> Nothing, drv |-> kids[i], base |-> base]]
  PROVE  ExtendWork(p, l, d, base) /\ ToSet(Children(column, d)) \subseteq Drvs(p)
<1>1. kids \in Seq(Drv)
  BY ChildrenSeq
<1>2. PICK len \in Nat : DOMAIN kids = 1..len /\ \A i \in 1..len : kids[i] \in Drv
  BY <1>1
<1>3. \A i \in 1..len : /\ p[i] \in WalkItems(l) /\ p[i].kind = "extend" /\ p[i].base = base /\ p[i].drv = kids[i]
                        /\ kids[i] \in ToSet(kids)
  BY <1>2 DEF WalkItems, Nothing, ToSet
<1>4. p \in [1..len -> WalkItems(l)]
  BY <1>2, <1>3
<1>5. p \in Seq(WalkItems(l)) /\ DOMAIN p = 1..len
  <2> HIDE DEF WalkItems
  <2> QED BY <1>4
<1>6. ExtendWork(p, l, d, base)
  BY <1>3, <1>5 DEF ExtendWork, ToSet
<1>7. ASSUME NEW c \in ToSet(kids) PROVE c \in Drvs(p)
  <2>1. PICK i \in 1..len : c = kids[i]
    BY <1>2 DEF ToSet
  <2>2. p[i] \in ToSet(p) /\ p[i].drv = c
    BY <1>3, <1>5, <2>1 DEF ToSet
  <2> QED BY <2>2 DEF Drvs
<1> QED BY <1>6, <1>7

\* A new row: the derivation, unless walks end at the node.
LEMMA NewRow ==
  ASSUME NEW k \in Nat, NEW d \in Drv, NEW stop,
         NEW r, r = [i \in 1..k |-> IF i = k /\ ~stop THEN d ELSE Nothing]
  PROVE  r \in Seq(Derivation) /\ Len(r) = k
<1>1. r \in [1..k -> Derivation]
  BY DEF Derivation
<1>2. DOMAIN r = 1..k
  BY <1>1
<1> HIDE <1>2
<1> QED BY <1>1, <1>2

\* No node was there to be shared.
NewExtension(w) ==
  w.base = Nothing \/ \A n \in w.base..Len(nodes) : nodes[n].key # <<w.drv>>

\* An extension at a node that is there: it becomes a child of the parent.
LEMMA TypedExtendThere ==
  ASSUME TemplateTyped, Extend, NEW w, w = Head(work), ~NewExtension(w)
  PROVE  /\ TemplateTyped' /\ Grows /\ DOMAIN nodes' = DOMAIN nodes /\ rows' = rows
         /\ (\A n \in DOMAIN nodes : nodes'[n].seen <=> nodes[n].seen)
         /\ work' = Tail(work) /\ leftOver' = leftOver \ Visited(column, w.drv)
<1>1. /\ phase = "walk" /\ work # <<>> /\ UNCHANGED <<treeVars, readVars, toWalk, column, classes, phase, records>>
  BY Zenon DEF Extend, Item
<1>2. PICK there : there = IF w.base = Nothing THEN {} ELSE {n \in w.base..Len(nodes) : nodes[n].key = <<w.drv>>}
  OBVIOUS
<1>3. there # {}
  BY <1>2 DEF NewExtension
<1>4. PICK n : n = CHOOSE m \in there : TRUE
  OBVIOUS
<1>5. n \in there
  BY <1>3, <1>4
<1>6. /\ nodes' = WithChild(nodes, w.parent, n) /\ rows' = rows /\ leftOver' = leftOver \ Visited(column, w.drv)
      /\ work' = <<>> \o Tail(work)
  BY <1>2, <1>3, <1>4 DEF Extend
<1>7. /\ Wellformed(nodes) /\ DOMAIN nodes = 1..Len(nodes) /\ Len(nodes) \in Nat
      /\ rows \in Seq(Seq(Derivation)) /\ Len(rows) = Len(nodes) /\ DOMAIN rows = DOMAIN nodes
      /\ (\A m \in DOMAIN rows : Len(rows[m]) = Position)
      /\ Tail(work) \in Seq(WalkItems(Len(nodes))) /\ w.parent \in 0..Len(nodes) /\ w.base \in 0..Len(nodes)
  BY <1>1, WalkContext
<1>8. n \in DOMAIN nodes
  BY <1>2, <1>3, <1>5, <1>7 DEF Nothing
<1>9. PICK parent \in 0..Len(nodes) : parent = w.parent
  BY <1>7
<1>10. PICK ns : ns = nodes' /\ ns = WithChild(nodes, parent, n)
  BY <1>6, <1>9
<1>11. Wellformed(ns) /\ Len(ns) = Len(nodes) /\ Keeps(nodes, ns) /\ KeepsSeen(nodes, ns)
  BY <1>7, <1>8, <1>10, WithChildNodes
<1>12. DOMAIN ns = DOMAIN nodes
  BY <1>7, <1>11, WellformedIs
<1>13. work' = Tail(work)
  BY <1>6, <1>7
<1>14. PICK ws : ws = work' /\ ws \in Seq(WalkItems(Len(ns)))
  BY <1>7, <1>11, <1>13
<1>15. PICK rs : rs = rows' /\ rs \in Seq(Seq(Derivation)) /\ Len(rs) = Len(ns) /\ \A m \in DOMAIN rs : Len(rs[m]) = Position
  BY <1>6, <1>7, <1>11
<1>16. TemplateTyped' /\ Grows
  <2>1. leftOver' \subseteq leftOver /\ records \subseteq records'
    BY <1>1, <1>6
  <2> QED BY <1>1, <1>10, <1>11, <1>14, <1>15, <2>1, WalkTyped
<1>17. \A m \in DOMAIN nodes : nodes'[m].seen <=> nodes[m].seen
  BY <1>10, <1>11 DEF KeepsSeen
<1> QED BY <1>6, <1>10, <1>12, <1>13, <1>16, <1>17

\* An extension by a new node, and below it unless walks end at it.
LEMMA TypedExtendNew ==
  ASSUME TemplateTyped, Extend, NEW w, w = Head(work), NewExtension(w), NEW new, new = Len(nodes) + 1
  PROVE  /\ TemplateTyped' /\ Grows /\ Position' = Position
         /\ DOMAIN nodes' = DOMAIN nodes \cup {new} /\ new \notin DOMAIN nodes /\ Len(nodes') = new
         /\ (\A n \in DOMAIN nodes : /\ nodes'[n].seen <=> nodes[n].seen
                                     /\ rows'[n] = rows[n])
         /\ ~nodes'[new].seen /\ nodes'[new].key = <<w.drv>>
         /\ \/ work' = Tail(work) /\ leftOver' = leftOver \ Subtree(column, w.drv)
            \/ /\ leftOver' = leftOver \ Visited(column, w.drv)
               /\ \E p : /\ ExtendWork(p, new, w.drv, IF w.base = Nothing THEN new ELSE w.base) /\ work' = p \o Tail(work)
                         /\ ToSet(Children(column, w.drv)) \subseteq Drvs(p)
<1>1. /\ phase = "walk" /\ work # <<>> /\ UNCHANGED <<treeVars, readVars, toWalk, column, classes, phase, records>>
  BY Zenon DEF Extend, Item
<1>2. PICK there : there = IF w.base = Nothing THEN {} ELSE {n \in w.base..Len(nodes) : nodes[n].key = <<w.drv>>}
  OBVIOUS
<1>3. there = {}
  BY <1>2 DEF NewExtension
<1>4. PICK stop : stop = IsStop({w.drv})
  OBVIOUS
<1>5. PICK e : e = TemplateNode(<<w.drv>>, DrvRole[w.drv], stop, TRUE)
  OBVIOUS
<1>6. PICK base : base = IF w.base = Nothing THEN new ELSE w.base
  OBVIOUS
<1>7. PICK kids : kids = Children(column, w.drv)
  OBVIOUS
<1>8. PICK p : p = [i \in DOMAIN kids |-> [kind |-> "extend", parent |-> new, node |-> Nothing, drv |-> kids[i], base |-> base]]
  BY Zenon
<1>9. /\ nodes' = WithChild(Append(nodes, e), w.parent, new)
      /\ rows' = Append(rows, [i \in 1..Position |-> IF i = Position /\ ~stop THEN w.drv ELSE Nothing])
      /\ leftOver' = leftOver \ (IF stop THEN Subtree(column, w.drv) ELSE Visited(column, w.drv))
      /\ work' = (IF stop THEN <<>> ELSE p) \o Tail(work)
  BY <1>2, <1>3, <1>4, <1>5, <1>6, <1>7, <1>8, Zenon DEF Extend
<1>10. /\ TreesTyped /\ Wellformed(nodes) /\ DOMAIN nodes = 1..Len(nodes) /\ Len(nodes) \in Nat
       /\ rows \in Seq(Seq(Derivation)) /\ Len(rows) = Len(nodes) /\ DOMAIN rows = DOMAIN nodes
       /\ (\A m \in DOMAIN rows : Len(rows[m]) = Position) /\ Position \in Nat
       /\ work \in Seq(WalkItems(Len(nodes))) /\ Tail(work) \in Seq(WalkItems(Len(nodes)))
       /\ w.parent \in 0..Len(nodes) /\ w.base \in 0..Len(nodes) /\ w.drv \in Drv
  BY <1>1, WalkContext
<1>11. /\ new \in Nat /\ new \notin DOMAIN nodes /\ 1..new = DOMAIN nodes \cup {new} /\ Len(nodes) <= new
       /\ new \in 0..new /\ base \in 0..new /\ w.parent \in 0..new /\ new \in 1..new
  BY <1>6, <1>10
<1>12. PICK d \in Drv : d = w.drv
  BY <1>10
<1>13. /\ e \in NodeRecord /\ ToSet(e.children) = {} /\ ~e.seen /\ e.key = <<d>>
  <2>1. <<d>> \in Seq(Nat) /\ DrvRole[d] \in Nat /\ stop \in BOOLEAN
    BY <1>4, DrvFacts DEF IsStop
  <2>2. PICK key \in Seq(Nat) : key = <<d>>
    BY <2>1
  <2>3. PICK role \in Nat : role = DrvRole[d]
    BY <2>1
  <2>4. e = TemplateNode(key, role, stop, TRUE)
    BY <1>5, <1>12, <2>2, <2>3
  <2>5. e \in NodeRecord /\ e.children = <<>> /\ ToSet(e.children) = {} /\ ~e.seen /\ e.key = key
    BY <2>1, <2>4 DEF TemplateNode, NodeRecord, Nothing, ToSet
  <2> QED BY <2>2, <2>5
<1>14. PICK grown : grown = Append(nodes, e)
  OBVIOUS
<1>15. /\ Wellformed(grown) /\ Len(grown) = new /\ Keeps(nodes, grown) /\ KeepsSeen(nodes, grown)
       /\ grown[new] = e /\ DOMAIN grown = 1..new
  <2>1. /\ Wellformed(grown) /\ Len(grown) = Len(nodes) + 1 /\ Keeps(nodes, grown) /\ KeepsSeen(nodes, grown)
        /\ grown[Len(nodes) + 1] = e
    <3>1. Wellformed(nodes) /\ e \in NodeRecord /\ ToSet(e.children) \subseteq 1..(Len(nodes) + 1)
      BY <1>10, <1>13
    <3> QED BY <1>14, <3>1, AppendNode
  <2>2. DOMAIN grown = 1..Len(grown)
    BY <2>1, WellformedIs
  <2> QED BY <2>1, <2>2
<1>16. PICK ms : /\ ms = nodes' /\ Wellformed(ms) /\ Len(ms) = new /\ DOMAIN ms = 1..new
                 /\ Keeps(grown, ms) /\ KeepsSeen(grown, ms) /\ Keeps(nodes, ms) /\ KeepsSeen(nodes, ms)
  <2>1. PICK parent \in 0..Len(grown) : parent = w.parent
    BY <1>11, <1>15
  <2>2. PICK n \in DOMAIN grown : n = new
    BY <1>11, <1>15
  <2>3. PICK ms : ms = nodes' /\ ms = WithChild(grown, parent, n)
    BY <1>9, <1>14, <2>1, <2>2
  <2>4. Wellformed(ms) /\ Len(ms) = Len(grown) /\ Keeps(grown, ms) /\ KeepsSeen(grown, ms)
    BY <1>15, <2>3, WithChildNodes
  <2>5. Keeps(nodes, ms) /\ KeepsSeen(nodes, ms)
    BY <1>10, <1>15, <2>4, KeepsTrans
  <2>6. DOMAIN ms = 1..new
    BY <1>15, <2>4, WellformedIs
  <2> QED BY <1>15, <2>3, <2>4, <2>5, <2>6
<1>17. PICK k \in Nat : k = Position
  BY <1>10
<1>18. PICK r : r = [i \in 1..k |-> IF i = k /\ ~stop THEN d ELSE Nothing]
  OBVIOUS
<1>19. r \in Seq(Derivation) /\ Len(r) = k
  BY <1>18, NewRow
<1>20. PICK rs : rs = rows' /\ rs = Append(rows, r)
  BY <1>9, <1>12, <1>17, <1>18
<1>21. /\ rs \in Seq(Seq(Derivation)) /\ Len(rs) = new /\ (\A m \in DOMAIN rs : Len(rs[m]) = k)
       /\ \A m \in DOMAIN rows : rs[m] = rows[m]
  <2>1. rows \in Seq(Seq(Derivation)) /\ \A m \in DOMAIN rows : Len(rows[m]) = k
    BY <1>10, <1>17
  <2>2. rs = Append(rows, r)
    BY <1>20
  <2>3. /\ rs \in Seq(Seq(Derivation)) /\ Len(rs) = Len(rows) + 1 /\ (\A m \in DOMAIN rs : Len(rs[m]) = k)
        /\ \A m \in DOMAIN rows : rs[m] = rows[m]
    BY ONLY <1>19, <2>1, <2>2, k \in Nat, AppendRow
  <2> QED BY <1>10, <2>3
<1>22. ExtendWork(p, new, d, base) /\ ToSet(Children(column, d)) \subseteq Drvs(p)
  <2>1. kids = Children(column, d)
    BY <1>7, <1>12
  <2>2. TreesTyped /\ new \in Nat /\ new \in 0..new /\ base \in 0..new
    BY <1>10, <1>11
  <2>3. p = [i \in DOMAIN kids |-> [kind |-> "extend", parent |-> new, node |-> Nothing, drv |-> kids[i], base |-> base]]
    BY <1>8
  <2> QED BY ONLY <2>1, <2>2, <2>3, d \in Drv, ExtendItems
<1>23. PICK q : /\ q = (IF stop THEN <<>> ELSE p) /\ q \in Seq(WalkItems(new)) /\ work' = q \o Tail(work)
                /\ q \o Tail(work) \in Seq(WalkItems(new))
  <2>1. PICK q : q = (IF stop THEN <<>> ELSE p)
    OBVIOUS
  <2>2. q \in Seq(WalkItems(new))
    <3>1. p \in Seq(WalkItems(new))
      BY <1>22 DEF ExtendWork
    <3>2. <<>> \in Seq(WalkItems(new))
      BY SMTT(30)
    <3> QED BY <2>1, <3>1, <3>2
  <2>3. PICK l \in Nat : l = Len(nodes)
    BY <1>10, Zenon
  <2>4. q \o Tail(work) \in Seq(WalkItems(new))
    BY <1>1, <1>10, <1>11, <2>2, <2>3, WorkTyped
  <2> QED BY <1>9, <2>1, <2>2, <2>4
<1>24. PICK ws : ws = work' /\ ws \in Seq(WalkItems(Len(ms)))
  BY <1>16, <1>23
<1>25. TemplateTyped' /\ Grows /\ Position' = Position
  <2>1. Len(rs) = Len(ms) /\ \A m \in DOMAIN rs : Len(rs[m]) = Position
    BY <1>16, <1>17, <1>21
  <2>2. leftOver' \subseteq leftOver /\ records \subseteq records'
    BY <1>1, <1>9
  <2> QED BY <1>1, <1>16, <1>20, <1>21, <1>24, <2>1, <2>2, WalkTyped
<1>26. ASSUME NEW n \in DOMAIN nodes
       PROVE  /\ nodes'[n].seen <=> nodes[n].seen
              /\ rows'[n] = rows[n]
  BY <1>10, <1>16, <1>20, <1>21 DEF KeepsSeen
<1>27. ~nodes'[new].seen /\ nodes'[new].key = <<w.drv>>
  <2>1. ms[new].seen = e.seen /\ ms[new].key = e.key
    BY <1>11, <1>15, <1>16 DEF Keeps, KeepsSeen
  <2> QED BY <1>12, <1>13, <1>16, <2>1
<1>28. \/ work' = Tail(work) /\ leftOver' = leftOver \ Subtree(column, w.drv)
       \/ /\ leftOver' = leftOver \ Visited(column, w.drv)
          /\ \E s : /\ ExtendWork(s, new, w.drv, IF w.base = Nothing THEN new ELSE w.base) /\ work' = s \o Tail(work)
                    /\ ToSet(Children(column, w.drv)) \subseteq Drvs(s)
  <2>1. CASE stop
    BY <1>9, <1>10, <2>1
  <2>2. CASE ~stop
    <3>1. work' = p \o Tail(work) /\ leftOver' = leftOver \ Visited(column, w.drv)
      BY <1>9, <2>2
    <3> QED BY <1>6, <1>12, <1>22, <3>1
  <2> QED BY <2>1, <2>2
<1>29. DOMAIN nodes' = DOMAIN nodes \cup {new} /\ new \notin DOMAIN nodes /\ Len(nodes') = new
  BY <1>11, <1>16
<1> QED BY <1>25, <1>26, <1>27, <1>28, <1>29, Zenon

\* Every step keeps the types and lets the state grow.
LEMMA TypedStep ==
  ASSUME TemplateTyped, [TemplateNext]_templateVars PROVE TemplateTyped' /\ Grows
<1>1. CASE ReadVariant
  BY <1>1, TypedReadVariant
<1>2. CASE CloseMatrix
  BY <1>2, TypedCloseMatrix
<1>3. CASE BuildVisit
  BY <1>3, TypedBuildVisit
<1>4. CASE TemplateBuilt
  BY <1>4, TypedTemplateBuilt
<1>5. CASE StartWalk
  BY <1>5, TypedStartWalk
<1>6. CASE VisitStop
  BY <1>6, TypedVisitStop
<1>7. CASE VisitNode
  BY <1>7, TypedVisitNode
<1>8. CASE RevisitSame
  BY <1>8, TypedRevisitSame
<1>9. CASE RevisitSplit
  BY <1>9, TypedRevisitSplit
<1>10. CASE Extend
  <2>1. CASE NewExtension(Head(work))
    BY <1>10, <2>1, TypedExtendNew
  <2>2. CASE ~NewExtension(Head(work))
    BY <1>10, <2>2, TypedExtendThere
  <2> QED BY <2>1, <2>2
<1>11. CASE WalksDone
  BY <1>11, TypedWalksDone
<1>12. CASE UNCHANGED templateVars
  BY <1>12, TypedStutter
<1> QED BY <1>1, <1>2, <1>3, <1>4, <1>5, <1>6, <1>7, <1>8, <1>9, <1>10, <1>11, <1>12 DEF TemplateNext

(* The variables of template_graph have their types: the walks stay within *)
(* the nodes there are, and every row has as many columns as were walked.  *)
THEOREM TemplateTypeCorrect == TemplateSpec => []TemplateTypeOK
<1>1. TemplateTyped /\ [TemplateNext]_templateVars => TemplateTyped'
  BY TypedStep
<1>2. TemplateSpec => []TemplateTyped
  BY <1>1, TypedInit, PTL DEF TemplateSpec
<1> QED BY <1>2, TypedMeansTypeOK, PTL

-------------------------------------------------------------------------------
\* Nothing is left over.

\* What NothingLeftOver supposes, at any time and not only in the end.
Clean == records \subseteq {"extended"} /\ OneStopEach

\* T has the references of its members in the tree of variant v.
FollowsTree(v, T) == \A d \in T \cap expanded[v] : ToSet(refs[d]) \cap expanded[v] \subseteq T

\* The root of a variant reaches all that was printed for it.
AllReached == \A v \in 1..read : \A T \in SUBSET Drv : roots[v] \in T /\ FollowsTree(v, T) => expanded[v] \subseteq T

\* What is yet to be walked is from the tree, and a pair has the role of its node.
Grounded ==
  \A w \in ToSet(work) :
    /\ w.drv \in Met(column)
    /\ w.kind = "pair" => DrvRole[w.drv] = nodes[w.node].role \/ w.drv = roots[column]

\* Extensions that share nodes come before everything else.
Ordered(ws) == \A i, j \in DOMAIN ws : i < j /\ ws[i].base = Nothing => ws[j].base = Nothing

\* The derivations S are done with in the current walk.
Discarded(S) == S \cap leftOver \cap expanded[column] = {}
Rooted(S) ==
  roots[column] \in S \/ (Len(work) = 1 /\ Head(work).drv = roots[column] /\ \A n \in DOMAIN nodes : ~nodes[n].seen)
Spreads(S) == \A d \in S \cap expanded[column] : ToSet(refs[d]) \cap expanded[column] \subseteq S \cup Drvs(work)
SeenCovered(S) == \A n \in DOMAIN nodes : nodes[n].seen /\ ~nodes[n].stop => rows[n][Position] \in S
StopsCovered(S) ==
  \A n \in DOMAIN nodes : nodes[n].seen /\ nodes[n].stop => \A d \in Met(column) : DrvRole[d] = nodes[n].role => d \in S
SharedCovered(S) ==
  \A w \in ToSet(work) : w.base # Nothing =>
    \A n \in DOMAIN nodes : \A d \in Drv : n >= w.base /\ nodes[n].key = <<d>> => d \in S
Covers(S) == Discarded(S) /\ Rooted(S) /\ Spreads(S) /\ SeenCovered(S) /\ StopsCovered(S) /\ SharedCovered(S)

\* What is printed in the variants that no walk has reached the end of.
Awaited == UNION {expanded[v] : v \in ToSet(pending) \cup ToSet(toWalk) \cup ({column} \ {Nothing})}

\* Nothing is left over but what is printed in a variant that is yet to be walked, or in
\* the one being walked and not done with.
GapInv ==
  /\ AllReached
  /\ phase = "walk" /\ work # <<>> => Grounded /\ Ordered(work)
  /\ Clean => leftOver \subseteq Awaited
  /\ Clean /\ phase = "walk" /\ column # 0 => \E S \in SUBSET Drv : Covers(S)
  /\ phase = "closed" => pending = <<>> /\ toWalk = <<>> /\ column = 0

\* What was clean stays so: a step that ends in a clean state began in one.
LEMMA CleanBefore ==
  ASSUME TemplateTyped, TemplateTyped', Grows, Clean' PROVE Clean
<1>1. records \subseteq {"extended"}
  BY DEF Clean, Grows
<1>2. ASSUME NEW n \in DOMAIN nodes, nodes[n].stop, NEW v \in 1..read, NEW d \in Met(v), NEW e \in Met(v),
             DrvRole[d] = nodes[n].role, DrvRole[e] = nodes[n].role
      PROVE  d = e
  <2>1. n \in DOMAIN nodes' /\ nodes'[n].stop /\ nodes'[n].role = nodes[n].role
    BY <1>2 DEF Grows, Keeps
  <2>2. read \in Nat /\ read' \in Nat /\ read <= read' /\ Len(expanded) = read
    <3>1. read \in Nat /\ Len(expanded) = read
      BY DEF TemplateTyped, TreesTyped, ReadTyped
    <3>2. (read \in Nat)'
      BY DEF TemplateTyped, TreesTyped, ReadTyped
    <3> QED BY <3>1, <3>2 DEF Grows
  <2>3. v \in 1..read'
    BY <2>2
  <2>4. roots' = roots /\ refs' = refs /\ expanded'[v] = expanded[v]
    BY <2>2 DEF Grows
  <2>5. Met(v)' = Met(v)
    BY <2>4 DEF Met
  <2>6. OneStopEach'
    BY DEF Clean
  <2> QED BY <1>2, <2>1, <2>3, <2>5, <2>6 DEF OneStopEach
<1> QED BY <1>1, <1>2 DEF Clean, OneStopEach

\* Reading a variant: its root reaches what was printed for it.
LEMMA ReachedRead ==
  ASSUME TemplateTyped, AllReached, ReadVariant PROVE AllReached'
<1>1. /\ phase = "read" /\ read < Len(roots) /\ read' = read + 1 /\ refs' = refs /\ roots' = roots
      /\ expanded' = Append(expanded, Below(roots[read + 1], Printed) \ Printed)
  BY DEF ReadVariant, treeVars
<1>2. /\ refs \in [Drv -> Seq(Drv)] /\ roots \in Seq(Drv) /\ read \in Nat /\ Len(roots) \in Nat
      /\ expanded \in Seq(SUBSET Drv) /\ Len(expanded) = read
  BY DEF TemplateTyped, TreesTyped, ReadTyped
<1>3. PICK v \in 1..Len(roots) : v = read + 1
  BY <1>1, <1>2
<1>4. PICK d \in Drv : d = roots[v]
  BY <1>2
<1>5. PICK e \in SUBSET Drv : e = Below(d, Printed) \ Printed
  BY <1>2, BelowClosed
<1>6. expanded'[v] = e /\ \A u \in 1..read : expanded'[u] = expanded[u]
  BY <1>1, <1>2, <1>3, <1>4, <1>5
<1>7. ASSUME NEW u \in 1..read', NEW T \in SUBSET Drv, roots'[u] \in T, FollowsTree(u, T)'
      PROVE  expanded'[u] \subseteq T
  <2>0. \A c \in T \cap expanded'[u] : ToSet(refs[c]) \cap expanded'[u] \subseteq T
    BY <1>1, <1>7 DEF FollowsTree
  <2>1. CASE u = v
    <3>1. d \in T /\ \A c \in T \cap e : ToSet(refs[c]) \cap e \subseteq T
      BY <1>1, <1>4, <1>6, <1>7, <2>0, <2>1
    <3>2. PICK X : X = T \cup Printed
      OBVIOUS
    <3>3. ASSUME NEW c \in (X \cap Below(d, Printed)) \ Printed PROVE ToSet(refs[c]) \cap Below(d, Printed) \subseteq X
      <4>1. c \in T \cap e
        BY <1>5, <3>2
      <4> QED BY <1>5, <3>1, <3>2, <4>1
    <3>4. Below(d, Printed) \subseteq X
      <4>1. d \in X
        BY <3>1, <3>2
      <4> QED BY <1>2, <3>3, <4>1, BelowLeast
    <3> QED BY <1>5, <1>6, <2>1, <3>2, <3>4
  <2>2. CASE u # v
    <3>1. u \in 1..read
      BY <1>1, <1>2, <1>3, <2>2
    <3>2. expanded'[u] = expanded[u]
      BY <1>6, <3>1
    <3> QED BY <1>1, <1>7, <2>0, <3>1, <3>2 DEF AllReached, FollowsTree
  <2> QED BY <2>1, <2>2
<1> QED BY <1>7 DEF AllReached

\* No other step changes what a root reaches.
LEMMA ReachedSame ==
  ASSUME AllReached, UNCHANGED <<refs, roots, read, expanded>> PROVE AllReached'
BY DEF AllReached, FollowsTree

\* A walk that has nothing left to do has reached all of its tree.
LEMMA WalkedOut ==
  ASSUME TemplateTyped, AllReached, column \in 1..read, work = <<>>, NEW S \in SUBSET Drv, Covers(S)
  PROVE  leftOver \cap expanded[column] = {}
<1>1. Discarded(S) /\ Rooted(S) /\ Spreads(S)
  BY DEF Covers
<1>2. roots[column] \in S
  BY <1>1 DEF Rooted
<1>3. Drvs(work) = {}
  BY DEF Drvs, ToSet
<1>4. FollowsTree(column, S)
  BY <1>1, <1>3 DEF Spreads, FollowsTree
<1>5. expanded[column] \subseteq S
  BY <1>2, <1>4 DEF AllReached
<1> QED BY <1>1, <1>5 DEF Discarded

\* When the first item of an ordered work list shares no nodes, none does.
LEMMA TailNothing ==
  ASSUME NEW X, NEW ws \in Seq(X), ws # <<>>, Ordered(ws), Head(ws).base = Nothing
  PROVE  \A w \in ToSet(ws) : w.base = Nothing
<1>1. ASSUME NEW i \in DOMAIN ws PROVE ws[i].base = Nothing
  <2>1. DOMAIN ws = 1..Len(ws) /\ Len(ws) \in Nat /\ Head(ws) = ws[1] /\ 1 \in DOMAIN ws
    OBVIOUS
  <2>2. i = 1 \/ 1 < i
    BY <2>1
  <2> QED BY <2>1, <2>2 DEF Ordered
<1> QED BY <1>1 DEF ToSet

\* A work list stays ordered when its head is replaced by items that share nodes, or by
\* items that do not for one that does not.
LEMMA OrderedStep ==
  ASSUME NEW X, NEW ws \in Seq(X), ws # <<>>, Ordered(ws), NEW p \in Seq(X),
         \/ \A w \in ToSet(p) : w.base # Nothing
         \/ Head(ws).base = Nothing /\ \A w \in ToSet(p) : w.base = Nothing
  PROVE  Ordered(p \o Tail(ws))
<1>0. Tail(ws) \in Seq(X)
  BY ONLY ws \in Seq(X), ws # <<>>
<1>1. PICK t \in Seq(X) : t = Tail(ws)
  BY <1>0
<1>2. PICK l \in Nat : l = Len(p) /\ DOMAIN p = 1..l
  OBVIOUS
<1>3. PICK m \in Nat : m = Len(t) /\ DOMAIN t = 1..m
  OBVIOUS
<1>4. \A i \in 1..m : i \in DOMAIN ws /\ i + 1 \in DOMAIN ws /\ t[i] = ws[i + 1]
  BY <1>1, <1>3
<1>5. PICK q : q = p \o t
  OBVIOUS
<1>6. /\ DOMAIN q = 1..(l + m) /\ \A i \in 1..l : q[i] = p[i]
      /\ \A i \in 1..(l + m) : ~(i <= l) => i - l \in 1..m /\ q[i] = t[i - l]
  BY <1>2, <1>3, <1>5
<1>7. ASSUME NEW i \in DOMAIN q, NEW j \in DOMAIN q, i < j, q[i].base = Nothing PROVE q[j].base = Nothing
  <2>1. CASE Head(ws).base = Nothing /\ \A w \in ToSet(p) : w.base = Nothing
    <3>1. \A k \in 1..l : p[k].base = Nothing
      BY <1>2, <2>1 DEF ToSet
    <3>2. \A k \in 1..m : t[k].base = Nothing
      <4>1. \A w \in ToSet(ws) : w.base = Nothing
        BY <2>1, TailNothing
      <4> QED BY <1>4, <4>1 DEF ToSet
    <3>3. j \in 1..l \/ (j - l \in 1..m /\ q[j] = t[j - l])
      BY <1>6
    <3> QED BY <1>6, <3>1, <3>2, <3>3
  <2>2. CASE \A w \in ToSet(p) : w.base # Nothing
    <3>1. \A k \in 1..l : p[k].base # Nothing
      BY <1>2, <2>2 DEF ToSet
    <3>2. ~(i <= l)
      BY <1>6, <1>7, <3>1
    <3>3. PICK a \in 1..m : a = i - l /\ q[i] = t[a]
      BY <1>6, <3>2
    <3>4. PICK b \in 1..m : b = j - l /\ q[j] = t[b]
      <4>1. j \in 1..(l + m) /\ ~(j <= l)
        BY <1>6, <1>7, <3>2
      <4> QED BY <1>6, <4>1
    <3>5. a + 1 < b + 1
      <4>1. i \in Nat /\ j \in Nat
        BY <1>6
      <4> QED BY <1>7, <3>3, <3>4, <4>1, SMTT(30)
    <3>6. /\ a + 1 \in DOMAIN ws /\ b + 1 \in DOMAIN ws
          /\ q[i] = ws[a + 1] /\ q[j] = ws[b + 1]
      BY <1>4, <3>3, <3>4
    <3> QED BY <1>7, <3>5, <3>6 DEF Ordered
  <2> QED BY <2>1, <2>2
<1>8. Ordered(q)
  BY <1>7 DEF Ordered
<1> QED BY <1>1, <1>5, <1>8

\* Children are met in the tree.
LEMMA ChildrenMet ==
  ASSUME NEW v, NEW d PROVE ToSet(Children(v, d)) \subseteq Met(v)
BY DEF Children, Met, ToSet

\* The work that a step puts before the rest is from the tree, and in its place.
LEMMA GroundedStep ==
  ASSUME TemplateTyped, phase = "walk", work # <<>>, Grounded, Ordered(work), Keeps(nodes, nodes'),
         UNCHANGED <<refs, roots, expanded, column>>, NEW l \in Nat, Len(nodes) <= l,
         NEW p \in Seq(WalkItems(l)), work' = p \o Tail(work),
         \A x \in ToSet(p) : /\ x.drv \in Met(column)
                             /\ x.kind = "pair" => x.node \in DOMAIN nodes /\ DrvRole[x.drv] = nodes[x.node].role,
         \/ \A x \in ToSet(p) : x.base # Nothing
         \/ Head(work).base = Nothing /\ \A x \in ToSet(p) : x.base = Nothing
  PROVE  Grounded' /\ Ordered(work)'
<1>1. /\ work \in Seq(WalkItems(Len(nodes))) /\ Len(nodes) \in Nat /\ DOMAIN nodes = 1..Len(nodes)
  BY WalkContext
<1>2. PICK k \in Nat : k = Len(nodes)
  BY <1>1, Zenon
<1>3. ToSet(work') = ToSet(p) \cup ToSet(Tail(work)) /\ ToSet(work) = {Head(work)} \cup ToSet(Tail(work))
  BY <1>1, <1>2, WorkTyped
<1>4. Met(column)' = Met(column)
  BY DEF Met
<1>5. ASSUME NEW x \in ToSet(work)
      PROVE  x.kind = "pair" => x.node \in DOMAIN nodes
  <2>1. x \in WalkItems(Len(nodes))
    BY <1>1 DEF ToSet
  <2> QED BY <1>1, <2>1 DEF WalkItems
<1>6. ASSUME NEW x \in ToSet(work')
      PROVE  /\ x.drv \in Met(column)
             /\ x.kind = "pair" => DrvRole[x.drv] = nodes'[x.node].role \/ x.drv = roots[column]
  <2>1. /\ x.drv \in Met(column)
        /\ x.kind = "pair" => x.node \in DOMAIN nodes /\ (DrvRole[x.drv] = nodes[x.node].role \/ x.drv = roots[column])
    <3>1. CASE x \in ToSet(p)
      BY <3>1
    <3>2. CASE x \in ToSet(work)
      BY <1>5, <3>2 DEF Grounded
    <3> QED BY <1>3, <3>1, <3>2
  <2> QED BY <2>1 DEF Keeps
<1>7. Grounded'
  <2>1. roots'[column'] = roots[column]
    OBVIOUS
  <2> QED BY <1>4, <1>6, <2>1 DEF Grounded
<1>8. Ordered(p \o Tail(work))
  <2>1. PICK X : X = WalkItems(l)
    OBVIOUS
  <2>2. PICK ws : ws = work
    OBVIOUS
  <2>3. ws \in Seq(X) /\ p \in Seq(X) /\ ws # <<>> /\ Ordered(ws)
    BY <1>1, <1>2, <2>1, <2>2, ItemsGrow
  <2>4. \/ \A x \in ToSet(p) : x.base # Nothing
        \/ Head(ws).base = Nothing /\ \A x \in ToSet(p) : x.base = Nothing
    BY <2>2
  <2>5. Ordered(p \o Tail(ws))
    BY ONLY <2>3, <2>4, OrderedStep
  <2> QED BY <2>2, <2>5
<1>9. Ordered(work)'
  BY ONLY <1>8, work' = p \o Tail(work) DEF Ordered
<1> QED BY ONLY <1>7, <1>9

\* The derivations D are done with, and p is what is to be done below them.
LEMMA CoverStep ==
  ASSUME TemplateTyped, phase = "walk", work # <<>>, UNCHANGED <<refs, roots, expanded, column>>,
         NEW S \in SUBSET Drv, Covers(S), NEW D \in SUBSET Drv, NEW l \in Nat, Len(nodes) <= l,
         NEW p \in Seq(WalkItems(l)), work' = p \o Tail(work), leftOver' \subseteq leftOver \ (D \cap expanded[column]),
         NEW T, T = S \cup D, Head(work).drv \in T,
         \A d \in D \cap expanded[column] : ToSet(refs[d]) \cap expanded[column] \subseteq T \cup Drvs(p)
  PROVE  Discarded(T)' /\ Rooted(T)' /\ Spreads(T)'
<1>1. Discarded(S) /\ Rooted(S) /\ Spreads(S)
  BY DEF Covers
<1>2. Discarded(T)'
  BY <1>1 DEF Discarded
<1>3. Rooted(T)'
  <2>1. roots[column] \in T
    BY <1>1 DEF Rooted
  <2> QED BY <2>1 DEF Rooted
<1>4. Drvs(work) = {Head(work).drv} \cup Drvs(Tail(work)) /\ Drvs(work') = Drvs(p) \cup Drvs(Tail(work))
  <2>1. work \in Seq(WalkItems(Len(nodes))) /\ Len(nodes) \in Nat
    BY WalkContext
  <2>2. PICK k \in Nat : k = Len(nodes)
    BY <2>1
  <2>3. ToSet(work') = ToSet(p) \cup ToSet(Tail(work)) /\ ToSet(work) = {Head(work)} \cup ToSet(Tail(work))
    <3>1. k \in Nat /\ l \in Nat /\ k <= l /\ work \in Seq(WalkItems(k)) /\ p \in Seq(WalkItems(l))
      BY <2>1, <2>2
    <3>2. ToSet(p \o Tail(work)) = ToSet(p) \cup ToSet(Tail(work)) /\ ToSet(work) = {Head(work)} \cup ToSet(Tail(work))
      BY ONLY <3>1, work # <<>>, WorkTyped
    <3> QED BY ONLY <3>2, work' = p \o Tail(work)
  <2> QED BY <2>3 DEF Drvs
<1>5. ASSUME NEW d \in T \cap expanded[column]
      PROVE  ToSet(refs[d]) \cap expanded[column] \subseteq T \cup Drvs(work')
  <2>1. CASE d \in D
    BY <1>4, <2>1
  <2>2. CASE d \in S
    <3>1. ToSet(refs[d]) \cap expanded[column] \subseteq S \cup Drvs(work)
      BY <1>1, <2>2 DEF Spreads
    <3> QED BY <1>4, <3>1
  <2> QED BY <2>1, <2>2
<1>6. Spreads(T)'
  <2>1. Drvs(work)' = Drvs(work')
    BY DEF Drvs, ToSet
  <2> QED BY <1>5, <2>1 DEF Spreads
<1> QED BY <1>2, <1>3, <1>6

\* The nodes seen after the step.
LEMMA NodesStep ==
  ASSUME Keeps(nodes, nodes'), UNCHANGED <<refs, roots, expanded, column>>, Position' = Position,
         NEW S, Covers(S), NEW T, S \subseteq T,
         \A n \in DOMAIN nodes' : nodes'[n].seen =>
            \/ n \in DOMAIN nodes /\ nodes[n].seen /\ rows'[n][Position] = rows[n][Position]
            \/ ~nodes'[n].stop /\ rows'[n][Position] \in T
            \/ nodes'[n].stop /\ \A d \in Met(column) : DrvRole[d] = nodes'[n].role => d \in T
  PROVE  SeenCovered(T)' /\ StopsCovered(T)'
<1>1. SeenCovered(S) /\ StopsCovered(S)
  BY DEF Covers
<1>2. Met(column)' = Met(column)
  BY DEF Met
<1>3. \A n \in DOMAIN nodes : nodes'[n].stop = nodes[n].stop /\ nodes'[n].role = nodes[n].role
  BY DEF Keeps
<1>4. SeenCovered(T)'
  BY <1>1, <1>3 DEF SeenCovered
<1>5. StopsCovered(T)'
  BY <1>1, <1>2, <1>3 DEF StopsCovered
<1> QED BY <1>4, <1>5

\* Nothing shares nodes once there is a pair to walk.
LEMMA NoneShared ==
  ASSUME TemplateTyped, phase = "walk", work # <<>>, Ordered(work), Head(work).base = Nothing, NEW l \in Nat, Len(nodes) <= l,
         NEW p \in Seq(WalkItems(l)), work' = p \o Tail(work), \A x \in ToSet(p) : x.base = Nothing, NEW T
  PROVE  SharedCovered(T)'
<1>1. work \in Seq(WalkItems(Len(nodes))) /\ Len(nodes) \in Nat
  BY WalkContext
<1>2. PICK k \in Nat : k = Len(nodes)
  BY <1>1
<1>3. ToSet(work') = ToSet(p) \cup ToSet(Tail(work)) /\ ToSet(work) = {Head(work)} \cup ToSet(Tail(work))
  BY <1>1, <1>2, WorkTyped
<1>4. \A x \in ToSet(work) : x.base = Nothing
  BY <1>1, TailNothing
<1> QED BY <1>3, <1>4 DEF SharedCovered

\* What is discarded at a node where walks end.
LEMMA SubtreeClosed ==
  ASSUME TreesTyped, NEW v, NEW d \in Drv
  PROVE  \E D \in SUBSET Drv : /\ d \in D /\ Subtree(v, d) = D \cap expanded[v]
                               /\ \A c \in D \cap expanded[v] : ToSet(refs[c]) \subseteq D
<1>1. PICK D : D = Below(d, Drv \ expanded[v])
  OBVIOUS
<1>2. d \in D /\ D \subseteq Drv /\ \A c \in D \ (Drv \ expanded[v]) : ToSet(refs[c]) \subseteq D
  BY <1>1, BelowClosed DEF TreesTyped
<1>3. Subtree(v, d) = D \cap expanded[v]
  BY <1>1, DrvFacts DEF Subtree, Nothing
<1> QED BY <1>2, <1>3

\* What has the root and the references of its members has all that is met.
LEMMA RootReaches ==
  ASSUME AllReached, NEW v \in 1..read, NEW D \in SUBSET Drv, roots[v] \in D,
         \A c \in D \cap expanded[v] : ToSet(refs[c]) \subseteq D
  PROVE  Met(v) \subseteq D
<1>1. expanded[v] \subseteq D
  BY DEF AllReached, FollowsTree
<1> QED BY <1>1 DEF Met

\* The empty work list.
LEMMA NoItems ==
  ASSUME NEW l PROVE <<>> \in Seq(WalkItems(l)) /\ ToSet(<<>>) = {} /\ Drvs(<<>>) = {}
<1>1. <<>> \in Seq(WalkItems(l))
  OBVIOUS
<1>2. ToSet(<<>>) = {}
  BY DEF ToSet
<1> QED BY <1>1, <1>2 DEF Drvs

\* What GapInv says of the current walk.
WalkInv ==
  Grounded /\ Ordered(work) /\ (Clean => \E S \in SUBSET Drv : Covers(S))

\* A node that ends the walk: its subtree is done with, and whatever of its role is
\* met.
LEMMA CoverVisitStop ==
  ASSUME TemplateTyped, AllReached, WalkInv, VisitStop PROVE WalkInv'
<1>1. TemplateTyped' /\ Grows /\ DOMAIN nodes' = DOMAIN nodes
  BY TypedVisitStop
<1>2. PICK w : w = Head(work)
  OBVIOUS
<1>3. \A n \in DOMAIN nodes : nodes'[n].seen <=> (nodes[n].seen \/ n = w.node)
  BY <1>2, TypedVisitStop
<1>4. /\ phase = "walk" /\ work # <<>> /\ w.kind = "pair" /\ ~nodes[w.node].seen /\ nodes[w.node].stop
      /\ work' = Tail(work) /\ leftOver' = leftOver \ Subtree(column, w.drv)
      /\ UNCHANGED <<refs, roots, expanded, column, rows, phase>>
  BY <1>2 DEF VisitStop, Fresh, Item, SkipWork, treeVars, readVars
<1>5. /\ TreesTyped /\ w.node \in DOMAIN nodes /\ Len(nodes) \in Nat /\ w.drv \in Drv /\ w.base = Nothing
      /\ work \in Seq(WalkItems(Len(nodes))) /\ Tail(work) \in Seq(WalkItems(Len(nodes))) /\ column \in 1..read
  BY <1>2, <1>4, WalkContext
<1>6. PICK l \in Nat : l = Len(nodes)
  BY <1>5
<1>7. PICK p \in Seq(WalkItems(l)) : p = <<>> /\ work' = p \o Tail(work) /\ ToSet(p) = {} /\ Drvs(p) = {}
  <2>1. work' = <<>> \o Tail(work)
    BY <1>4, <1>5
  <2> QED BY <2>1, NoItems
<1>8. Keeps(nodes, nodes') /\ Position' = Position
  BY <1>1, <1>4 DEF Grows, Position
<1>9. Grounded' /\ Ordered(work)'
  <2>1. Grounded /\ Ordered(work) /\ Len(nodes) <= l
    BY <1>5, <1>6 DEF WalkInv
  <2>2. \A x \in ToSet(p) : /\ x.drv \in Met(column)
                            /\ x.kind = "pair" => x.node \in DOMAIN nodes /\ DrvRole[x.drv] = nodes[x.node].role
    BY <1>7
  <2>3. \A x \in ToSet(p) : x.base # Nothing
    BY <1>7
  <2> QED BY <1>4, <1>7, <1>8, <2>1, <2>2, <2>3, GroundedStep
<1>10. ASSUME Clean' PROVE \E T \in SUBSET Drv : Covers(T)'
  <2>1. Clean
    BY <1>1, <1>10, CleanBefore
  <2>2. PICK S \in SUBSET Drv : Covers(S)
    BY <2>1 DEF WalkInv
  <2>3. PICK d \in Drv : d = w.drv
    BY <1>5
  <2>4. PICK D \in SUBSET Drv : /\ d \in D /\ Subtree(column, d) = D \cap expanded[column]
                                /\ \A c \in D \cap expanded[column] : ToSet(refs[c]) \subseteq D
    BY <1>5, SubtreeClosed
  <2>5. PICK T \in SUBSET Drv : T = S \cup D
    OBVIOUS
  <2>6. Discarded(T)' /\ Rooted(T)' /\ Spreads(T)'
    <3>1. leftOver' \subseteq leftOver \ (D \cap expanded[column]) /\ Head(work).drv \in T
      BY <1>2, <1>4, <2>3, <2>4, <2>5
    <3>2. \A c \in D \cap expanded[column] : ToSet(refs[c]) \cap expanded[column] \subseteq T \cup Drvs(p)
      BY <2>4, <2>5
    <3>3. Len(nodes) <= l
      BY <1>5, <1>6
    <3> QED BY <1>4, <1>7, <2>2, <2>5, <3>1, <3>2, <3>3, CoverStep, ZenonT(120)
  <2>7. ASSUME NEW c \in Met(column), DrvRole[c] = nodes[w.node].role PROVE c \in T
    <3>1. w \in ToSet(work)
      BY <1>2, <1>4, <1>5, ToSetTail
    <3>2. d \in Met(column) /\ (DrvRole[d] = nodes[w.node].role \/ d = roots[column])
      BY <1>4, <2>3, <3>1 DEF WalkInv, Grounded
    <3>3. CASE DrvRole[d] = nodes[w.node].role
      <4>1. c = d
        BY <1>4, <1>5, <2>1, <2>7, <3>2, <3>3 DEF Clean, OneStopEach
      <4> QED BY <2>4, <2>5, <4>1
    <3>4. CASE d = roots[column]
      <4>1. Met(column) \subseteq D
        BY <1>5, <2>4, <3>4, RootReaches
      <4> QED BY <2>5, <4>1
    <3> QED BY <3>2, <3>3, <3>4
  <2>8. SeenCovered(T)' /\ StopsCovered(T)'
    <3>1. ASSUME NEW n \in DOMAIN nodes', nodes'[n].seen
          PROVE  \/ n \in DOMAIN nodes /\ nodes[n].seen /\ rows'[n][Position] = rows[n][Position]
                 \/ nodes'[n].stop /\ \A c \in Met(column) : DrvRole[c] = nodes'[n].role => c \in T
      <4>1. CASE n = w.node
        <5>1. nodes'[n].stop /\ nodes'[n].role = nodes[w.node].role
          BY <1>4, <1>5, <1>8, <4>1 DEF Keeps
        <5> QED BY <2>7, <5>1
      <4>2. CASE n # w.node
        BY <1>1, <1>3, <1>4, <3>1, <4>2
      <4> QED BY <4>1, <4>2
    <3> QED BY <1>4, <1>8, <2>2, <2>5, <3>1, NodesStep
  <2>9. SharedCovered(T)'
    <3>1. Ordered(work) /\ Len(nodes) <= l /\ Head(work).base = Nothing
      BY <1>2, <1>5, <1>6 DEF WalkInv
    <3>2. \A x \in ToSet(p) : x.base = Nothing
      BY <1>7
    <3> QED BY <1>4, <1>7, <3>1, <3>2, NoneShared
  <2> QED BY <2>6, <2>8, <2>9 DEF Covers
<1> QED BY <1>9, <1>10 DEF WalkInv

\* A revisit without a split: the derivation was done with at the first visit.
LEMMA CoverRevisitSame ==
  ASSUME TemplateTyped, WalkInv, RevisitSame PROVE WalkInv'
<1>1. TemplateTyped' /\ Grows
  BY TypedRevisitSame
<1>2. PICK w : w = Head(work)
  OBVIOUS
<1>3. /\ phase = "walk" /\ work # <<>> /\ w.kind = "pair" /\ nodes[w.node].seen
      /\ work' = Tail(work) /\ leftOver' \subseteq leftOver /\ (~Agrees => "revisit" \in records')
      /\ UNCHANGED <<refs, roots, expanded, column, rows, nodes, phase>>
  BY <1>2 DEF RevisitSame, Again, Item, treeVars, readVars
<1>4. /\ TreesTyped /\ w.node \in DOMAIN nodes /\ Len(nodes) \in Nat /\ w.drv \in Drv /\ w.base = Nothing
      /\ work \in Seq(WalkItems(Len(nodes))) /\ Tail(work) \in Seq(WalkItems(Len(nodes))) /\ column \in 1..read
  BY <1>2, <1>3, WalkContext
<1>5. PICK l \in Nat : l = Len(nodes)
  BY <1>4
<1>6. PICK p \in Seq(WalkItems(l)) : p = <<>> /\ work' = p \o Tail(work) /\ ToSet(p) = {} /\ Drvs(p) = {}
  <2>1. work' = <<>> \o Tail(work)
    BY <1>3, <1>4
  <2> QED BY <2>1, NoItems
<1>7. Keeps(nodes, nodes') /\ Position' = Position
  BY <1>1, <1>3 DEF Grows, Position
<1>8. Grounded' /\ Ordered(work)'
  <2>1. Grounded /\ Ordered(work) /\ Len(nodes) <= l
    BY <1>4, <1>5 DEF WalkInv
  <2>2. \A x \in ToSet(p) : /\ x.drv \in Met(column)
                            /\ x.kind = "pair" => x.node \in DOMAIN nodes /\ DrvRole[x.drv] = nodes[x.node].role
    BY <1>6
  <2>3. \A x \in ToSet(p) : x.base # Nothing
    BY <1>6
  <2> QED BY <1>3, <1>6, <1>7, <2>1, <2>2, <2>3, GroundedStep
<1>9. ASSUME Clean' PROVE \E T \in SUBSET Drv : Covers(T)'
  <2>1. Clean /\ Agrees
    BY <1>1, <1>3, <1>9, CleanBefore DEF Clean
  <2>2. PICK S \in SUBSET Drv : Covers(S)
    BY <2>1 DEF WalkInv
  <2>3. w.drv \in S
    <3>1. CASE nodes[w.node].stop
      <4>1. w \in ToSet(work)
        BY <1>2, <1>3, <1>4, ToSetTail
      <4>2. w.drv \in Met(column) /\ (DrvRole[w.drv] = nodes[w.node].role \/ w.drv = roots[column])
        BY <1>3, <4>1 DEF WalkInv, Grounded
      <4>3. roots[column] \in S
        BY <1>3, <1>4, <2>2 DEF Covers, Rooted
      <4>4. DrvRole[w.drv] = nodes[w.node].role => w.drv \in S
        BY <1>3, <1>4, <2>2, <3>1, <4>2 DEF Covers, StopsCovered
      <4> QED BY <4>2, <4>3, <4>4
    <3>2. CASE ~nodes[w.node].stop
      <4>1. rows[w.node][Position] \in S
        BY <1>3, <1>4, <2>2, <3>2 DEF Covers, SeenCovered
      <4>2. rows[w.node][Position] \in {Nothing, w.drv}
        BY <1>2, <2>1, <3>2 DEF Agrees, Occupant
      <4> QED BY <4>1, <4>2, DrvFacts DEF Nothing
    <3> QED BY <3>1, <3>2
  <2>4. PICK T \in SUBSET Drv : T = S \cup {} /\ T = S
    OBVIOUS
  <2>5. Discarded(T)' /\ Rooted(T)' /\ Spreads(T)'
    <3>1. PICK D \in SUBSET Drv : D = {} /\ T = S \cup D
      BY <2>4
    <3>2. leftOver' \subseteq leftOver \ (D \cap expanded[column]) /\ Head(work).drv \in T
      BY <1>2, <1>3, <2>3, <2>4, <3>1
    <3>3. \A c \in D \cap expanded[column] : ToSet(refs[c]) \cap expanded[column] \subseteq T \cup Drvs(p)
      BY <3>1
    <3>4. Len(nodes) <= l
      BY <1>4, <1>5
    <3> QED BY <1>3, <1>6, <2>2, <3>1, <3>2, <3>3, <3>4, CoverStep
  <2>6. SeenCovered(T)' /\ StopsCovered(T)'
    BY <1>3, <1>7, <2>2, <2>4, NodesStep
  <2>7. SharedCovered(T)'
    <3>1. Ordered(work) /\ Len(nodes) <= l /\ Head(work).base = Nothing
      BY <1>2, <1>4, <1>5 DEF WalkInv
    <3>2. \A x \in ToSet(p) : x.base = Nothing
      BY <1>6
    <3> QED BY <1>3, <1>6, <3>1, <3>2, NoneShared
  <2> QED BY <2>5, <2>6, <2>7 DEF Covers
<1> QED BY <1>8, <1>9 DEF WalkInv

\* The children of d come next, and a walk that visits d has it and leaves its children to the work.
LEMMA CoverChildren ==
  ASSUME TemplateTyped, WalkInv, Clean, phase = "walk", work # <<>>, Keeps(nodes, nodes'), UNCHANGED <<refs, roots, expanded, column>>,
         Head(work).drv \in Drv, Head(work).base = Nothing,
         NEW l \in Nat, Len(nodes) <= l, NEW p, ChildWork(p, l, Head(work).drv), work' = p \o Tail(work),
         ToSet(Children(column, Head(work).drv)) \subseteq Drvs(p), leftOver' = leftOver \ Visited(column, Head(work).drv),
         NEW S \in SUBSET Drv, Covers(S), NEW T, T = S \cup {Head(work).drv}
  PROVE  Discarded(T)' /\ Rooted(T)' /\ Spreads(T)' /\ SharedCovered(T)'
<1>1. p \in Seq(WalkItems(l)) /\ \A x \in ToSet(p) : x.base = Nothing
  BY DEF ChildWork
<1>2. PICK D \in SUBSET Drv : D = {Head(work).drv}
  OBVIOUS
<1>3. Discarded(T)' /\ Rooted(T)' /\ Spreads(T)'
  <2>1. leftOver' \subseteq leftOver \ (D \cap expanded[column]) /\ T = S \cup D /\ Head(work).drv \in T
    BY <1>2 DEF Visited
  <2>2. \A c \in D \cap expanded[column] : ToSet(refs[c]) \cap expanded[column] \subseteq T \cup Drvs(p)
    BY <1>2 DEF Children
  <2> QED BY <1>1, <2>1, <2>2, CoverStep
<1>4. SharedCovered(T)'
  <2>1. Ordered(work)
    BY DEF WalkInv
  <2> QED BY <1>1, <2>1, NoneShared
<1> QED BY <1>3, <1>4

\* The children put on the work list are from the tree, each with the role of its node.
LEMMA GroundedChildren ==
  ASSUME TemplateTyped, WalkInv, phase = "walk", work # <<>>, Keeps(nodes, nodes'), UNCHANGED <<refs, roots, expanded, column>>,
         Head(work).base = Nothing,
         NEW l \in Nat, Len(nodes) <= l, NEW p, NEW d, ChildWork(p, l, d), work' = p \o Tail(work)
  PROVE  Grounded' /\ Ordered(work)'
<1>1. p \in Seq(WalkItems(l)) /\ \A x \in ToSet(p) : x.base = Nothing
  BY DEF ChildWork
<1>2. \A x \in ToSet(p) : /\ x.drv \in Met(column)
                          /\ x.kind = "pair" => x.node \in DOMAIN nodes /\ DrvRole[x.drv] = nodes[x.node].role
  BY ChildrenMet DEF ChildWork
<1>3. Grounded /\ Ordered(work)
  BY DEF WalkInv
<1> QED BY <1>1, <1>2, <1>3, GroundedStep

\* A visited derivation is done with, its children are on the work list.
LEMMA CoverVisitNode ==
  ASSUME TemplateTyped, WalkInv, VisitNode PROVE WalkInv'
<1>1. PICK w : w = Head(work)
  OBVIOUS
<1>2. /\ TemplateTyped' /\ Grows /\ Position' = Position /\ DOMAIN nodes' = DOMAIN nodes
      /\ \A n \in DOMAIN nodes : /\ nodes'[n].seen <=> (nodes[n].seen \/ n = w.node)
                                 /\ rows'[n][Position] = IF n = w.node THEN w.drv ELSE rows[n][Position]
      /\ \E p : /\ ChildWork(p, Len(nodes'), w.drv) /\ work' = p \o Tail(work)
                /\ records' \subseteq {"extended"} => ToSet(Children(column, w.drv)) \subseteq Drvs(p)
  BY <1>1, TypedVisitNode
<1>3. /\ phase = "walk" /\ work # <<>> /\ w.kind = "pair" /\ ~nodes[w.node].stop
      /\ leftOver' = leftOver \ Visited(column, w.drv) /\ UNCHANGED <<refs, roots, expanded, column, phase>>
  BY <1>1 DEF VisitNode, Fresh, Item, treeVars, readVars
<1>4. w.node \in DOMAIN nodes /\ Len(nodes) \in Nat /\ DOMAIN nodes = 1..Len(nodes) /\ w.drv \in Drv /\ w.base = Nothing
  BY <1>1, <1>3, WalkContext
<1>5. PICK l \in Nat : l = Len(nodes') /\ Len(nodes) <= l
  <2>1. Wellformed(nodes')
    BY <1>2 DEF TemplateTyped, NodesTyped, Wellformed
  <2>2. Len(nodes') \in Nat
    BY <2>1, WellformedIs
  <2> QED BY <1>2, <2>2 DEF Grows, Keeps
<1>6. PICK p : /\ ChildWork(p, l, w.drv) /\ work' = p \o Tail(work)
               /\ records' \subseteq {"extended"} => ToSet(Children(column, w.drv)) \subseteq Drvs(p)
  BY <1>2, <1>5
<1>7. Keeps(nodes, nodes')
  BY <1>2 DEF Grows
<1>8. Grounded' /\ Ordered(work)'
  BY <1>1, <1>3, <1>4, <1>5, <1>6, <1>7, GroundedChildren
<1>9. ASSUME Clean' PROVE \E T \in SUBSET Drv : Covers(T)'
  <2>1. Clean /\ records' \subseteq {"extended"}
    BY <1>2, <1>9, CleanBefore DEF Clean
  <2>2. PICK S \in SUBSET Drv : Covers(S)
    BY <2>1 DEF WalkInv
  <2>3. PICK T \in SUBSET Drv : T = S \cup {w.drv}
    BY <1>4
  <2>4. Discarded(T)' /\ Rooted(T)' /\ Spreads(T)' /\ SharedCovered(T)'
    BY <1>1, <1>3, <1>4, <1>5, <1>6, <1>7, <2>1, <2>2, <2>3, CoverChildren
  <2>5. SeenCovered(T)' /\ StopsCovered(T)'
    <3>1. ASSUME NEW n \in DOMAIN nodes', nodes'[n].seen
          PROVE  \/ n \in DOMAIN nodes /\ nodes[n].seen /\ rows'[n][Position] = rows[n][Position]
                 \/ ~nodes'[n].stop /\ rows'[n][Position] \in T
      <4>1. CASE n = w.node
        <5>1. nodes'[n].stop = nodes[n].stop
          BY <1>4, <1>7, <4>1 DEF Keeps
        <5> QED BY <1>2, <1>3, <1>4, <2>3, <4>1, <5>1
      <4>2. CASE n # w.node
        BY <1>2, <3>1, <4>2
      <4> QED BY <4>1, <4>2
    <3>2. S \subseteq T
      BY <2>3
    <3> QED BY <1>2, <1>3, <1>7, <2>2, <3>1, <3>2, NodesStep
  <2> QED BY <2>4, <2>5 DEF Covers
<1> QED BY <1>8, <1>9 DEF WalkInv

\* A derivation that gets a clone is done with, its children are on the work list.
LEMMA CoverRevisitSplit ==
  ASSUME TemplateTyped, WalkInv, RevisitSplit PROVE WalkInv'
<1>1. PICK w : w = Head(work)
  OBVIOUS
<1>2. PICK new : new = Len(nodes) + 1
  OBVIOUS
<1>3. /\ TemplateTyped' /\ Grows /\ Position' = Position /\ DOMAIN nodes' = DOMAIN nodes \cup {new} /\ new \notin DOMAIN nodes
      /\ \A n \in DOMAIN nodes : /\ nodes'[n].seen <=> nodes[n].seen
                                 /\ rows'[n] = rows[n]
      /\ nodes'[new].seen /\ ~nodes'[new].stop /\ rows'[new][Position] = w.drv
      /\ \E p : /\ ChildWork(p, Len(nodes'), w.drv) /\ work' = p \o Tail(work)
                /\ records' \subseteq {"extended"} => ToSet(Children(column, w.drv)) \subseteq Drvs(p)
  BY <1>1, <1>2, TypedRevisitSplit
<1>4. /\ phase = "walk" /\ work # <<>> /\ w.kind = "pair"
      /\ leftOver' = leftOver \ Visited(column, w.drv) /\ UNCHANGED <<refs, roots, expanded, column, phase>>
  BY <1>1 DEF RevisitSplit, Again, Item, treeVars, readVars
<1>5. w.node \in DOMAIN nodes /\ w.drv \in Drv /\ w.base = Nothing
  BY <1>1, <1>4, WalkContext
<1>6. PICK l \in Nat : l = Len(nodes') /\ Len(nodes) <= l
  <2>1. Wellformed(nodes')
    BY <1>3 DEF TemplateTyped, NodesTyped, Wellformed
  <2>2. Len(nodes') \in Nat
    BY <2>1, WellformedIs
  <2> QED BY <1>3, <2>2 DEF Grows, Keeps
<1>7. PICK p : /\ ChildWork(p, l, w.drv) /\ work' = p \o Tail(work)
               /\ records' \subseteq {"extended"} => ToSet(Children(column, w.drv)) \subseteq Drvs(p)
  BY <1>3, <1>6
<1>8. Keeps(nodes, nodes')
  BY <1>3 DEF Grows
<1>9. Grounded' /\ Ordered(work)'
  BY <1>1, <1>4, <1>5, <1>6, <1>7, <1>8, GroundedChildren
<1>10. ASSUME Clean' PROVE \E T \in SUBSET Drv : Covers(T)'
  <2>1. Clean /\ records' \subseteq {"extended"}
    BY <1>3, <1>10, CleanBefore DEF Clean
  <2>2. PICK S \in SUBSET Drv : Covers(S)
    BY <2>1 DEF WalkInv
  <2>3. PICK T \in SUBSET Drv : T = S \cup {w.drv}
    BY <1>5
  <2>4. Discarded(T)' /\ Rooted(T)' /\ Spreads(T)' /\ SharedCovered(T)'
    BY <1>1, <1>4, <1>5, <1>6, <1>7, <1>8, <2>1, <2>2, <2>3, CoverChildren
  <2>5. SeenCovered(T)' /\ StopsCovered(T)'
    <3>1. \A n \in DOMAIN nodes' : nodes'[n].seen =>
            \/ n \in DOMAIN nodes /\ nodes[n].seen /\ rows'[n][Position] = rows[n][Position]
            \/ ~nodes'[n].stop /\ rows'[n][Position] \in T
      BY <1>3, <2>3
    <3>2. S \subseteq T
      BY <2>3
    <3> QED BY <1>3, <1>4, <1>8, <2>2, <3>1, <3>2, NodesStep
  <2> QED BY <2>4, <2>5 DEF Covers
<1> QED BY <1>9, <1>10 DEF WalkInv

\* A derivation that the extension already has a node for was done with when it got it.
LEMMA CoverExtendThere ==
  ASSUME TemplateTyped, WalkInv, Extend, ~NewExtension(Head(work)) PROVE WalkInv'
<1>1. PICK w : w = Head(work)
  OBVIOUS
<1>2. /\ TemplateTyped' /\ Grows /\ DOMAIN nodes' = DOMAIN nodes /\ rows' = rows
      /\ (\A n \in DOMAIN nodes : nodes'[n].seen <=> nodes[n].seen)
      /\ work' = Tail(work) /\ leftOver' = leftOver \ Visited(column, w.drv)
  <2>1. ~NewExtension(w)
    BY <1>1
  <2> QED BY <1>1, <2>1, TypedExtendThere
<1>3. /\ phase = "walk" /\ work # <<>> /\ UNCHANGED <<refs, roots, expanded, column, phase>>
  BY Zenon DEF Extend, Item, treeVars, readVars
<1>4. /\ Len(nodes) \in Nat /\ DOMAIN nodes = 1..Len(nodes) /\ w.drv \in Drv /\ w.base \in 0..Len(nodes)
      /\ work \in Seq(WalkItems(Len(nodes))) /\ Tail(work) \in Seq(WalkItems(Len(nodes)))
  <2>1. /\ Len(nodes) \in Nat /\ DOMAIN nodes = 1..Len(nodes) /\ work \in Seq(WalkItems(Len(nodes)))
        /\ Tail(work) \in Seq(WalkItems(Len(nodes))) /\ Head(work).drv \in Drv /\ Head(work) \in WalkItems(Len(nodes))
    BY <1>3, WalkContext
  <2>2. Head(work).base \in 0..Len(nodes)
    BY ONLY <2>1, SMTT(30) DEF WalkItems
  <2> QED BY ONLY <1>1, <2>1, <2>2
<1>5. PICK l \in Nat : l = Len(nodes)
  BY <1>4, Zenon
<1>6. PICK p \in Seq(WalkItems(l)) : p = <<>> /\ work' = p \o Tail(work) /\ ToSet(p) = {} /\ Drvs(p) = {}
  <2>1. work' = <<>> \o Tail(work)
    BY <1>2, <1>4
  <2> QED BY <2>1, NoItems
<1>7. Keeps(nodes, nodes') /\ Position' = Position
  BY <1>2 DEF Grows, Position
<1>8. Grounded' /\ Ordered(work)'
  <2>1. Grounded /\ Ordered(work) /\ Len(nodes) <= l
    BY <1>4, <1>5 DEF WalkInv
  <2>2. \A x \in ToSet(p) : /\ x.drv \in Met(column)
                            /\ x.kind = "pair" => x.node \in DOMAIN nodes /\ DrvRole[x.drv] = nodes[x.node].role
    BY <1>6
  <2>3. \A x \in ToSet(p) : x.base # Nothing
    BY <1>6
  <2> QED BY <1>3, <1>6, <1>7, <2>1, <2>2, <2>3, GroundedStep
<1>9. ToSet(work) = {w} \cup ToSet(Tail(work))
  BY <1>1, <1>3, <1>4, ToSetTail
<1>10. ASSUME Clean' PROVE \E T \in SUBSET Drv : Covers(T)'
  <2>1. Clean
    BY <1>2, <1>10, CleanBefore
  <2>2. PICK S \in SUBSET Drv : Covers(S)
    BY <2>1 DEF WalkInv
  <2>3. w.drv \in S
    <3>1. PICK n \in w.base..Len(nodes) : nodes[n].key = <<w.drv>> /\ w.base # Nothing
      BY <1>1 DEF NewExtension
    <3>2. n \in DOMAIN nodes /\ n >= w.base
      BY <1>4, <3>1 DEF Nothing
    <3>3. w \in ToSet(work)
      BY <1>9
    <3> QED BY <1>4, <2>2, <3>1, <3>2, <3>3 DEF Covers, SharedCovered
  <2>4. PICK T \in SUBSET Drv : T = S \cup {} /\ T = S
    OBVIOUS
  <2>5. Discarded(T)' /\ Rooted(T)' /\ Spreads(T)'
    <3>1. PICK D \in SUBSET Drv : D = {} /\ T = S \cup D
      BY <2>4
    <3>2. leftOver' \subseteq leftOver \ (D \cap expanded[column]) /\ Head(work).drv \in T
      BY <1>1, <1>2, <2>3, <2>4, <3>1
    <3>3. \A c \in D \cap expanded[column] : ToSet(refs[c]) \cap expanded[column] \subseteq T \cup Drvs(p)
      BY <3>1
    <3>4. Len(nodes) <= l
      BY <1>4, <1>5
    <3> QED BY <1>3, <1>6, <2>2, <3>1, <3>2, <3>3, <3>4, CoverStep
  <2>6. SeenCovered(T)' /\ StopsCovered(T)'
    <3>1. \A n \in DOMAIN nodes' : nodes'[n].seen =>
            n \in DOMAIN nodes /\ nodes[n].seen /\ rows'[n][Position] = rows[n][Position]
      BY <1>2
    <3> QED BY <1>3, <1>7, <2>2, <2>4, <3>1, NodesStep
  <2>7. SharedCovered(T)'
    <3>1. SharedCovered(S)
      BY <2>2 DEF Covers
    <3> QED BY <1>2, <1>7, <1>9, <2>4, <3>1 DEF SharedCovered, Keeps
  <2> QED BY <2>5, <2>6, <2>7 DEF Covers
<1> QED BY <1>8, <1>10 DEF WalkInv

\* A derivation with a new node is done with: its subtree when the walk ends there, or
\* its children are on the work list.
LEMMA CoverExtendNew ==
  ASSUME TemplateTyped, WalkInv, Extend, NewExtension(Head(work)) PROVE WalkInv'
<1>1. PICK w : w = Head(work)
  OBVIOUS
<1>2. PICK new : new = Len(nodes) + 1
  OBVIOUS
<1>3. PICK base : base = IF w.base = Nothing THEN new ELSE w.base
  OBVIOUS
<1>4. /\ TemplateTyped' /\ Grows /\ Position' = Position
      /\ DOMAIN nodes' = DOMAIN nodes \cup {new} /\ new \notin DOMAIN nodes /\ Len(nodes') = new
      /\ (\A n \in DOMAIN nodes : /\ nodes'[n].seen <=> nodes[n].seen
                                  /\ rows'[n] = rows[n])
      /\ ~nodes'[new].seen /\ nodes'[new].key = <<w.drv>>
      /\ \/ work' = Tail(work) /\ leftOver' = leftOver \ Subtree(column, w.drv)
         \/ /\ leftOver' = leftOver \ Visited(column, w.drv)
            /\ \E p : /\ ExtendWork(p, new, w.drv, base) /\ work' = p \o Tail(work)
                      /\ ToSet(Children(column, w.drv)) \subseteq Drvs(p)
  <2>1. NewExtension(w)
    BY <1>1
  <2> QED BY <1>1, <1>2, <1>3, <2>1, TypedExtendNew, Zenon
<1>5. /\ phase = "walk" /\ work # <<>> /\ UNCHANGED <<refs, roots, expanded, column, phase>>
  BY Zenon DEF Extend, Item, treeVars, readVars
<1>6. /\ TreesTyped /\ Len(nodes) \in Nat /\ DOMAIN nodes = 1..Len(nodes) /\ w.drv \in Drv /\ w.base \in 0..Len(nodes)
      /\ work \in Seq(WalkItems(Len(nodes))) /\ Tail(work) \in Seq(WalkItems(Len(nodes)))
  BY <1>1, <1>5, WalkContext
<1>7. PICK l \in Nat : l = new /\ Len(nodes) <= l
  BY <1>2, <1>6
<1>8. base # Nothing
  BY <1>2, <1>3, <1>6 DEF Nothing
<1>9. Keeps(nodes, nodes')
  BY <1>4 DEF Grows
<1>10. \E p, D : /\ p \in Seq(WalkItems(l)) /\ D \in SUBSET Drv /\ work' = p \o Tail(work) /\ w.drv \in D
                 /\ leftOver' \subseteq leftOver \ (D \cap expanded[column])
                 /\ \A c \in D \cap expanded[column] : ToSet(refs[c]) \cap expanded[column] \subseteq D \cup Drvs(p)
                 /\ \A x \in ToSet(p) : x.kind = "extend" /\ x.base = base /\ x.drv \in Met(column)
  <2>1. CASE work' = Tail(work) /\ leftOver' = leftOver \ Subtree(column, w.drv)
    <3>1. PICK d \in Drv : d = w.drv
      BY <1>6
    <3>2. PICK D \in SUBSET Drv : /\ d \in D /\ Subtree(column, d) = D \cap expanded[column]
                                  /\ \A c \in D \cap expanded[column] : ToSet(refs[c]) \subseteq D
      BY <1>6, SubtreeClosed
    <3>3. PICK p \in Seq(WalkItems(l)) : p = <<>> /\ work' = p \o Tail(work) /\ ToSet(p) = {} /\ Drvs(p) = {}
      <4>1. work' = <<>> \o Tail(work)
        BY <1>6, <2>1
      <4> QED BY <4>1, NoItems
    <3> QED BY <2>1, <3>1, <3>2, <3>3
  <2>2. ASSUME leftOver' = leftOver \ Visited(column, w.drv),
               NEW p, ExtendWork(p, new, w.drv, base), work' = p \o Tail(work),
               ToSet(Children(column, w.drv)) \subseteq Drvs(p)
        PROVE  /\ p \in Seq(WalkItems(l)) /\ {w.drv} \in SUBSET Drv /\ leftOver' \subseteq leftOver \ ({w.drv} \cap expanded[column])
               /\ \A c \in {w.drv} \cap expanded[column] : ToSet(refs[c]) \cap expanded[column] \subseteq {w.drv} \cup Drvs(p)
               /\ \A x \in ToSet(p) : x.kind = "extend" /\ x.base = base /\ x.drv \in Met(column)
    <3>1. p \in Seq(WalkItems(l)) /\ \A x \in ToSet(p) : x.kind = "extend" /\ x.base = base /\ x.drv \in Met(column)
      BY <1>7, <2>2, ChildrenMet DEF ExtendWork
    <3>2. {w.drv} \in SUBSET Drv /\ leftOver' \subseteq leftOver \ ({w.drv} \cap expanded[column])
      BY <1>6, <2>2 DEF Visited
    <3>3. \A c \in {w.drv} \cap expanded[column] : ToSet(refs[c]) \cap expanded[column] \subseteq {w.drv} \cup Drvs(p)
      BY <2>2 DEF Children
    <3> QED BY <3>1, <3>2, <3>3
  <2>3. CASE /\ leftOver' = leftOver \ Visited(column, w.drv)
             /\ \E p : /\ ExtendWork(p, new, w.drv, base) /\ work' = p \o Tail(work)
                       /\ ToSet(Children(column, w.drv)) \subseteq Drvs(p)
    <3>1. PICK p : /\ ExtendWork(p, new, w.drv, base) /\ work' = p \o Tail(work)
                   /\ ToSet(Children(column, w.drv)) \subseteq Drvs(p)
      BY <2>3
    <3>2. /\ p \in Seq(WalkItems(l)) /\ {w.drv} \in SUBSET Drv /\ leftOver' \subseteq leftOver \ ({w.drv} \cap expanded[column])
          /\ \A c \in {w.drv} \cap expanded[column] : ToSet(refs[c]) \cap expanded[column] \subseteq {w.drv} \cup Drvs(p)
          /\ \A x \in ToSet(p) : x.kind = "extend" /\ x.base = base /\ x.drv \in Met(column)
      BY <2>2, <2>3, <3>1
    <3>3. PICK D : D = {w.drv}
      OBVIOUS
    <3> QED BY <3>1, <3>2, <3>3
  <2> QED BY <1>4, <2>1, <2>3
<1>11. PICK p, D : /\ p \in Seq(WalkItems(l)) /\ D \in SUBSET Drv /\ work' = p \o Tail(work) /\ w.drv \in D
                   /\ leftOver' \subseteq leftOver \ (D \cap expanded[column])
                   /\ \A c \in D \cap expanded[column] : ToSet(refs[c]) \cap expanded[column] \subseteq D \cup Drvs(p)
                   /\ \A x \in ToSet(p) : x.kind = "extend" /\ x.base = base /\ x.drv \in Met(column)
  BY <1>10
<1>12. Grounded' /\ Ordered(work)'
  <2>1. Grounded /\ Ordered(work) /\ p \in Seq(WalkItems(l)) /\ work' = p \o Tail(work)
    BY <1>11 DEF WalkInv
  <2>2. \A x \in ToSet(p) : /\ x.drv \in Met(column)
                            /\ x.kind = "pair" => x.node \in DOMAIN nodes /\ DrvRole[x.drv] = nodes[x.node].role
    BY <1>11
  <2>3. \A x \in ToSet(p) : x.base # Nothing
    BY <1>8, <1>11, SMTT(30)
  <2> QED BY <1>5, <1>7, <1>9, <2>1, <2>2, <2>3, GroundedStep
<1>13. /\ ToSet(work) = {w} \cup ToSet(Tail(work)) /\ ToSet(work') = ToSet(p) \cup ToSet(Tail(work))
  <2>1. PICK k \in Nat : k = Len(nodes) /\ k <= l
    BY <1>6, <1>7, Zenon
  <2>2. work \in Seq(WalkItems(k)) /\ p \in Seq(WalkItems(l)) /\ work' = p \o Tail(work)
    BY <1>6, <1>11, <2>1
  <2>3. ToSet(p \o Tail(work)) = ToSet(p) \cup ToSet(Tail(work)) /\ ToSet(work) = {Head(work)} \cup ToSet(Tail(work))
    <3>1. work # <<>>
      BY <1>5
    <3> QED BY ONLY <2>1, <2>2, <3>1, k \in Nat, l \in Nat, WorkTyped
  <2> QED BY ONLY <1>1, <2>2, <2>3, SMTT(30)
<1>14. ASSUME Clean' PROVE \E T \in SUBSET Drv : Covers(T)'
  <2>1. Clean
    BY <1>4, <1>14, CleanBefore
  <2>2. PICK S \in SUBSET Drv : Covers(S)
    BY <2>1 DEF WalkInv
  <2>3. PICK T \in SUBSET Drv : T = S \cup D
    BY <1>11
  <2>4. Discarded(T)' /\ Rooted(T)' /\ Spreads(T)'
    <3>1. /\ D \in SUBSET Drv /\ p \in Seq(WalkItems(l)) /\ work' = p \o Tail(work) /\ Head(work).drv \in T
          /\ leftOver' \subseteq leftOver \ (D \cap expanded[column])
      BY <1>1, <1>11, <2>3
    <3>2. \A c \in D \cap expanded[column] : ToSet(refs[c]) \cap expanded[column] \subseteq T \cup Drvs(p)
      BY <1>11, <2>3
    <3> QED BY <1>5, <1>7, <2>2, <2>3, <3>1, <3>2, CoverStep
  <2>5. SeenCovered(T)' /\ StopsCovered(T)'
    <3>1. \A n \in DOMAIN nodes' : nodes'[n].seen =>
            n \in DOMAIN nodes /\ nodes[n].seen /\ rows'[n][Position] = rows[n][Position]
      BY <1>4
    <3>2. S \subseteq T
      BY <2>3
    <3> QED BY <1>4, <1>5, <1>9, <2>2, <3>1, <3>2, NodesStep
  <2>6. ASSUME NEW x \in ToSet(work'), x.base # Nothing, NEW n \in DOMAIN nodes', NEW d \in Drv, n >= x.base, nodes'[n].key = <<d>>
        PROVE  d \in T
    <3>1. SharedCovered(S)
      BY <2>2 DEF Covers
    <3>2. CASE n = new
      BY <1>4, <1>11, <2>3, <2>6, <3>2
    <3>3. CASE n # new
      <4>1. n \in DOMAIN nodes /\ nodes[n].key = <<d>>
        BY <1>4, <1>9, <2>6, <3>3 DEF Keeps
      <4>2. \E y \in ToSet(work) : y.base = x.base
        <5>1. CASE x \in ToSet(Tail(work))
          BY <1>13, <5>1
        <5>2. CASE x \in ToSet(p)
          <6>1. x.base = base /\ base # new
            <7>1. n < new
              BY <1>2, <1>6, <4>1
            <7>2. x.base = base
              BY <1>11, <5>2
            <7> QED BY <1>2, <1>6, <2>6, <4>1, <7>1, <7>2
          <6>2. base = w.base
            BY <1>3, <6>1
          <6> QED BY <1>13, <6>1, <6>2
        <5> QED BY <1>13, <5>1, <5>2
      <4>3. PICK y \in ToSet(work) : y.base = x.base
        BY <4>2
      <4>4. y.base # Nothing /\ n >= y.base
        BY <2>6, <4>3
      <4>5. d \in S
        BY <3>1, <4>1, <4>4 DEF SharedCovered
      <4> QED BY <2>3, <4>5
    <3> QED BY <3>2, <3>3
  <2>7. SharedCovered(T)'
    BY <2>6 DEF SharedCovered
  <2> QED BY <2>4, <2>5, <2>7 DEF Covers
<1> QED BY <1>12, <1>14 DEF WalkInv

\* At the start of a walk nothing is done with, and the root is on the work list.
LEMMA CoverStartWalk ==
  ASSUME TemplateTyped, StartWalk PROVE WalkInv'
<1>1. /\ (\A n \in DOMAIN nodes' : ~nodes'[n].seen)
      /\ work' = <<[kind |-> "pair", parent |-> Nothing, node |-> 1, drv |-> roots[column'], base |-> Nothing]>> /\ roots' = roots
  BY TypedStartWalk DEF StartWalk, treeVars
<1>2. PICK w : w = [kind |-> "pair", parent |-> Nothing, node |-> 1, drv |-> roots[column'], base |-> Nothing]
  OBVIOUS
<1>3. work' = <<w>> /\ w.drv = roots'[column'] /\ w.base = Nothing /\ w.kind = "pair"
  BY <1>1, <1>2
<1>4. Len(work') = 1 /\ Head(work') = w /\ ToSet(work') = {w} /\ DOMAIN work' = {1}
  <2>1. ToSet(<<w>>) = {w} /\ DOMAIN <<w>> = {1} /\ Len(<<w>>) = 1 /\ Head(<<w>>) = w
    BY DEF ToSet
  <2> QED BY <1>3, <2>1
<1>5. Grounded'
  BY <1>3, <1>4 DEF Grounded, Met
<1>6. Ordered(work)'
  BY <1>3, <1>4 DEF Ordered
<1>7. PICK S \in SUBSET Drv : S = {}
  OBVIOUS
<1>8. Covers(S)'
  <2>1. Discarded(S)' /\ Spreads(S)'
    BY <1>7 DEF Discarded, Spreads
  <2>2. Rooted(S)'
    BY <1>1, <1>3, <1>4 DEF Rooted
  <2>3. SeenCovered(S)' /\ StopsCovered(S)'
    BY <1>1 DEF SeenCovered, StopsCovered
  <2>4. SharedCovered(S)'
    BY <1>3, <1>4 DEF SharedCovered
  <2> QED BY <2>1, <2>2, <2>3, <2>4 DEF Covers
<1> QED BY <1>5, <1>6, <1>7, <1>8 DEF WalkInv

\* Before the first variant is read nothing can be left over.
LEMMA GapInit == TemplateInit => GapInv
<1> SUFFICES ASSUME TemplateInit PROVE GapInv
  OBVIOUS
<1>1. read = 0 /\ leftOver = {} /\ work = <<>> /\ phase = "read" /\ column = 0
  BY DEF TemplateInit
<1>2. AllReached
  BY <1>1 DEF AllReached
<1> QED BY <1>1, <1>2 DEF GapInv

\* What a variant brings is awaited with that variant.
LEMMA GapRead ==
  ASSUME TemplateTyped, TemplateTyped', Grows, GapInv, ReadVariant PROVE GapInv'
<1>1. /\ phase = "read" /\ read' = read + 1 /\ refs' = refs /\ roots' = roots /\ column' = column /\ nodes' = nodes
      /\ leftOver' = leftOver \cup (Below(roots[read + 1], Printed) \ (Printed \cup {roots[read + 1]}))
      /\ expanded' = Append(expanded, Below(roots[read + 1], Printed) \ Printed)
      /\ IF nodes # <<>> THEN phase' = "walk" /\ toWalk' = <<read + 1>> /\ pending' = pending /\ work' = work
         ELSE phase' \in {"read", "build"} /\ toWalk' = toWalk /\ pending' = Append(pending, read + 1)
  BY DEF ReadVariant, treeVars
<1>2. /\ read \in Nat /\ expanded \in Seq(SUBSET Drv) /\ Len(expanded) = read /\ pending \in Seq(1..read)
      /\ work = <<>> /\ toWalk = <<>> /\ column = 0 /\ (nodes = <<>> \/ pending = <<>>)
  BY <1>1 DEF TemplateTyped, ReadTyped, PhaseTyped
<1>3. AllReached'
  BY ReachedRead DEF GapInv
<1>4. PICK v : v = read + 1
  OBVIOUS
<1>5. PICK e : e = Below(roots[read + 1], Printed) \ Printed
  OBVIOUS
<1>6. expanded'[v] = e /\ leftOver' \subseteq leftOver \cup e /\ \A u \in 1..read : expanded'[u] = expanded[u]
  <2>1. expanded' = Append(expanded, e)
    BY <1>1, <1>5
  <2>2. expanded'[v] = e /\ \A u \in 1..read : expanded'[u] = expanded[u]
    BY <1>2, <1>4, <2>1
  <2> QED BY <1>1, <1>5, <2>2
<1>7. ToSet(pending) \subseteq 1..read /\ ToSet(toWalk) = {}
  BY <1>2 DEF ToSet
<1>8. ASSUME Clean' PROVE leftOver' \subseteq Awaited'
  <2>1. Clean
    BY <1>8, CleanBefore
  <2>2. leftOver \subseteq UNION {expanded[u] : u \in ToSet(pending)}
    BY <1>2, <1>7, <2>1 DEF GapInv, Awaited, Nothing
  <2>3. ToSet(pending) \cup {v} \subseteq ToSet(pending') \cup ToSet(toWalk')
    <3>1. CASE nodes # <<>>
      <4>1. toWalk' = <<v>> /\ ToSet(pending) = {}
        BY <1>1, <1>2, <1>4, <3>1 DEF ToSet
      <4>2. ToSet(<<v>>) = {v}
        BY DEF ToSet
      <4> QED BY <4>1, <4>2
    <3>2. CASE nodes = <<>>
      <4>1. pending' = Append(pending, v)
        BY <1>1, <1>4, <3>2
      <4>2. ToSet(Append(pending, v)) = ToSet(pending) \cup {v}
        <5>1. PICK l \in Nat : l = Len(pending) /\ DOMAIN pending = 1..l
          BY <1>2
        <5>2. PICK q : q = Append(pending, v)
          OBVIOUS
        <5>3. DOMAIN q = 1..(l + 1) /\ q[l + 1] = v /\ \A i \in 1..l : q[i] = pending[i]
          BY <1>2, <5>1, <5>2
        <5>4. 1..(l + 1) = (1..l) \cup {l + 1}
          OBVIOUS
        <5> QED BY <5>1, <5>2, <5>3, <5>4 DEF ToSet
      <4> QED BY <4>1, <4>2
    <3> QED BY <3>1, <3>2
  <2>4. ASSUME NEW d \in leftOver' PROVE d \in Awaited'
    <3>1. CASE d \in e
      BY <1>6, <2>3, <3>1 DEF Awaited
    <3>2. CASE d \in leftOver
      <4>1. PICK u \in ToSet(pending) : d \in expanded[u]
        BY <2>2, <3>2
      <4>2. d \in expanded'[u] /\ u \in ToSet(pending') \cup ToSet(toWalk')
        BY <1>6, <1>7, <2>3, <4>1
      <4> QED BY <4>2 DEF Awaited
    <3> QED BY <1>6, <3>1, <3>2
  <2> QED BY <2>4
<1>9. phase' # "closed" /\ (phase' = "walk" => work' = <<>> /\ column' = 0)
  BY <1>1, <1>2
<1> QED BY <1>3, <1>8, <1>9 DEF GapInv

\* A step within a walk.
LEMMA GapWalk ==
  ASSUME TemplateTyped, TemplateTyped', Grows, GapInv, WalkInv', phase' = "walk", leftOver' \subseteq leftOver,
         UNCHANGED <<refs, roots, read, expanded, pending, toWalk, column>>
  PROVE  GapInv'
<1>1. AllReached'
  BY ReachedSame DEF GapInv
<1>2. ASSUME Clean' PROVE leftOver' \subseteq Awaited'
  <2>1. Clean
    BY <1>2, CleanBefore
  <2>2. Awaited' = Awaited
    BY DEF Awaited
  <2> QED BY <2>1, <2>2 DEF GapInv
<1> QED BY <1>1, <1>2 DEF GapInv, WalkInv

\* A step outside the walks that leaves all awaited as it was.
LEMMA GapOutside ==
  ASSUME TemplateTyped, TemplateTyped', Grows, GapInv, leftOver' \subseteq leftOver,
         UNCHANGED <<refs, roots, read, expanded>>, Clean => leftOver' \cap Awaited \subseteq Awaited',
         phase' = "walk" => work' = <<>> /\ column' = 0,
         phase' = "closed" => pending' = <<>> /\ toWalk' = <<>> /\ column' = 0
  PROVE  GapInv'
<1>1. AllReached'
  BY ReachedSame DEF GapInv
<1>2. ASSUME Clean' PROVE leftOver' \subseteq Awaited'
  <2>1. Clean
    BY <1>2, CleanBefore
  <2> QED BY <2>1 DEF GapInv
<1> QED BY <1>1, <1>2 DEF GapInv

\* The walk of a column is over: nothing of that column is left over.
LEMMA ColumnDone ==
  ASSUME TemplateTyped, GapInv, phase = "walk", work = <<>>, Clean, column # 0
  PROVE  leftOver \cap expanded[column] = {}
<1>1. AllReached /\ \E S \in SUBSET Drv : Covers(S)
  BY DEF GapInv
<1>2. PICK S \in SUBSET Drv : Covers(S)
  BY <1>1
<1>3. column \in 1..read
  BY DEF TemplateTyped, ReadTyped
<1> QED BY <1>1, <1>2, <1>3, WalkedOut

\* The next column is begun when the last one is finished.
LEMMA GapStartWalk ==
  ASSUME TemplateTyped, TemplateTyped', Grows, GapInv, StartWalk PROVE GapInv'
<1>1. /\ phase = "walk" /\ work = <<>> /\ toWalk # <<>> /\ column' = Head(toWalk) /\ toWalk' = Tail(toWalk)
      /\ phase' = "walk" /\ pending' = pending /\ leftOver' = leftOver
      /\ UNCHANGED <<refs, roots, read, expanded>>
  BY DEF StartWalk, treeVars, readVars
<1>2. toWalk \in Seq(1..read) /\ read \in Nat
  BY DEF TemplateTyped, TreesTyped, ReadTyped
<1>3. ToSet(toWalk) = {column'} \cup ToSet(toWalk') /\ column' # 0
  <2>1. Head(toWalk) \in 1..read /\ ToSet(toWalk) = {Head(toWalk)} \cup ToSet(Tail(toWalk))
    BY <1>1, <1>2, ToSetTail
  <2> QED BY <1>1, <1>2, <2>1
<1>4. WalkInv'
  BY CoverStartWalk
<1>5. AllReached'
  BY <1>1, ReachedSame DEF GapInv
<1>6. ASSUME Clean' PROVE leftOver' \subseteq Awaited'
  <2>1. Clean
    BY <1>6, CleanBefore
  <2>2. column # 0 => leftOver \cap expanded[column] = {}
    BY <1>1, <2>1, ColumnDone
  <2>3. ASSUME NEW d \in leftOver PROVE d \in Awaited'
    <3>1. PICK u \in ToSet(pending) \cup ToSet(toWalk) \cup ({column} \ {Nothing}) : d \in expanded[u]
      BY <2>1 DEF GapInv, Awaited
    <3>2. u \in ToSet(pending') \cup ToSet(toWalk') \cup ({column'} \ {Nothing})
      BY <1>1, <1>3, <2>2, <3>1 DEF Nothing
    <3> QED BY <1>1, <3>1, <3>2 DEF Awaited
  <2> QED BY <1>1, <2>3
<1> QED BY <1>1, <1>4, <1>5, <1>6 DEF GapInv, WalkInv

\* All columns have been walked.
LEMMA GapWalksDone ==
  ASSUME TemplateTyped, TemplateTyped', Grows, GapInv, WalksDone PROVE GapInv'
<1>1. /\ phase = "walk" /\ work = <<>> /\ phase' = "read" /\ column' = 0 /\ pending' = pending /\ toWalk' = toWalk
      /\ leftOver' = leftOver /\ UNCHANGED <<refs, roots, read, expanded>>
  BY DEF WalksDone, treeVars, readVars
<1>2. ASSUME Clean PROVE leftOver' \cap Awaited \subseteq Awaited'
  <2>1. column # 0 => leftOver \cap expanded[column] = {}
    BY <1>1, <1>2, ColumnDone
  <2>2. ASSUME NEW d \in leftOver \cap Awaited PROVE d \in Awaited'
    <3>1. PICK u \in ToSet(pending) \cup ToSet(toWalk) \cup ({column} \ {Nothing}) : d \in expanded[u]
      BY DEF Awaited
    <3>2. u \in ToSet(pending') \cup ToSet(toWalk')
      BY <1>1, <2>1, <3>1 DEF Nothing
    <3> QED BY <1>1, <3>1, <3>2 DEF Awaited
  <2> QED BY <1>1, <2>2
<1>3. leftOver' \subseteq leftOver /\ phase' # "walk" /\ phase' # "closed"
  BY <1>1
<1> QED BY <1>1, <1>2, <1>3, GapOutside

\* The variants that the template was built from are to be walked, no others.
LEMMA GapTemplateBuilt ==
  ASSUME TemplateTyped, TemplateTyped', Grows, GapInv, TemplateBuilt PROVE GapInv'
<1>1. /\ phase = "build" /\ work = <<>> /\ phase' = "walk" /\ toWalk' = pending /\ column' = column /\ work' = work
      /\ leftOver' = leftOver /\ UNCHANGED <<refs, roots, read, expanded>>
  BY DEF TemplateBuilt, treeVars
<1>2. column = 0 /\ toWalk = <<>>
  BY <1>1 DEF TemplateTyped, PhaseTyped
<1>3. ToSet(toWalk) = {}
  BY <1>2 DEF ToSet
<1>4. Awaited \subseteq Awaited'
  BY <1>1, <1>2, <1>3 DEF Awaited, Nothing
<1> QED BY <1>1, <1>2, <1>4, GapOutside

\* The section ends with nothing to build or to walk, or with a last template to build.
LEMMA GapClose ==
  ASSUME TemplateTyped, TemplateTyped', Grows, GapInv, CloseMatrix PROVE GapInv'
<1>1. /\ phase = "read" /\ phase' \in {"closed", "build"} /\ (phase' = "closed" => pending = <<>>)
      /\ leftOver' = leftOver /\ toWalk' = toWalk /\ column' = column /\ pending' = pending
      /\ UNCHANGED <<refs, roots, read, expanded>>
  BY DEF CloseMatrix, treeVars, readVars
<1>2. column = 0 /\ toWalk = <<>>
  BY <1>1 DEF TemplateTyped, PhaseTyped
<1>3. Awaited' = Awaited
  BY <1>1 DEF Awaited
<1> QED BY <1>1, <1>2, <1>3, GapOutside

\* Every step keeps the invariant.
LEMMA GapStep ==
  ASSUME TemplateTyped, GapInv, [TemplateNext]_templateVars PROVE GapInv'
<1>1. TemplateTyped' /\ Grows
  BY TypedStep
<1>2. CASE ReadVariant
  BY <1>1, <1>2, GapRead
<1>3. CASE CloseMatrix
  BY <1>1, <1>3, GapClose
<1>4. CASE BuildVisit
  <2>1. /\ phase = "build" /\ phase' = "build" /\ leftOver' \subseteq leftOver
        /\ UNCHANGED <<refs, roots, read, expanded, pending, toWalk, column>>
    BY <1>4 DEF BuildVisit, treeVars, readVars
  <2>2. Awaited' = Awaited
    BY <2>1 DEF Awaited
  <2> QED BY <1>1, <2>1, <2>2, GapOutside, SMTT(30)
<1>5. CASE TemplateBuilt
  BY <1>1, <1>5, GapTemplateBuilt
<1>6. CASE StartWalk
  BY <1>1, <1>6, GapStartWalk
<1>7. CASE VisitStop \/ VisitNode \/ RevisitSame \/ RevisitSplit \/ Extend
  <2>1. /\ phase = "walk" /\ work # <<>> /\ phase' = "walk" /\ leftOver' \subseteq leftOver
        /\ UNCHANGED <<refs, roots, read, expanded, pending, toWalk, column>>
    BY <1>7, Zenon DEF VisitStop, VisitNode, RevisitSame, RevisitSplit, Extend, Fresh, Again, Item, treeVars, readVars
  <2>2. column # 0
    BY <2>1 DEF TemplateTyped, PhaseTyped
  <2>3. AllReached /\ WalkInv
    BY <2>1, <2>2 DEF GapInv, WalkInv
  <2>4. WalkInv'
    <3>1. CASE VisitStop
      BY <2>3, <3>1, CoverVisitStop
    <3>2. CASE VisitNode
      BY <2>3, <3>2, CoverVisitNode
    <3>3. CASE RevisitSame
      BY <2>3, <3>3, CoverRevisitSame
    <3>4. CASE RevisitSplit
      BY <2>3, <3>4, CoverRevisitSplit
    <3>5. CASE Extend
      <4>1. CASE NewExtension(Head(work))
        BY <2>3, <3>5, <4>1, CoverExtendNew
      <4>2. CASE ~NewExtension(Head(work))
        BY <2>3, <3>5, <4>2, CoverExtendThere
      <4> QED BY <4>1, <4>2
    <3> QED BY <1>7, <3>1, <3>2, <3>3, <3>4, <3>5
  <2> QED BY <1>1, <2>1, <2>4, GapWalk
<1>8. CASE WalksDone
  BY <1>1, <1>8, GapWalksDone
<1>9. CASE UNCHANGED templateVars
  <2>1. UNCHANGED <<refs, roots, read, expanded, leftOver, pending, toWalk, column, work, nodes, rows, phase, records>>
    BY <1>9 DEF templateVars, treeVars, readVars
  <2>2. AllReached' /\ (Grounded => Grounded') /\ (Ordered(work) => Ordered(work)') /\ Awaited' = Awaited
    <3>1. AllReached'
      BY <2>1, ReachedSame DEF GapInv
    <3>2. Grounded => Grounded'
      BY <2>1 DEF Grounded, Met
    <3> QED BY <2>1, <3>1, <3>2 DEF Ordered, Awaited
  <2>3. Clean' => Clean
    BY <1>1, CleanBefore
  <2>4. ASSUME NEW S \in SUBSET Drv, Covers(S) PROVE Covers(S)'
    <3>1. Discarded(S)' /\ Rooted(S)' /\ Spreads(S)'
      BY <2>1, <2>4 DEF Covers, Discarded, Rooted, Spreads, Drvs
    <3>2. SeenCovered(S)' /\ SharedCovered(S)'
      BY <2>1, <2>4 DEF Covers, SeenCovered, SharedCovered, Position
    <3>3. StopsCovered(S)'
      BY <2>1, <2>4 DEF Covers, StopsCovered, Met
    <3> QED BY <3>1, <3>2, <3>3 DEF Covers
  <2> QED BY <2>1, <2>2, <2>3, <2>4 DEF GapInv
<1> QED BY <1>2, <1>3, <1>4, <1>5, <1>6, <1>7, <1>8, <1>9 DEF TemplateNext

(* Whatever the trees and the number of variants: when the section of a    *)
(* binary ends without a recorded inconsistency, but for extensions, every *)
(* derivation printed in it has its place in the template, or was          *)
(* discarded below a node at which the walks end.                          *)
THEOREM NothingIsLeftOver == TemplateSpec => []NothingLeftOver
<1>1. TemplateInit => TemplateTyped /\ GapInv
  BY TypedInit, GapInit
<1>2. TemplateTyped /\ GapInv /\ [TemplateNext]_templateVars => (TemplateTyped /\ GapInv)'
  BY TypedStep, GapStep
<1>3. TemplateTyped /\ GapInv => NothingLeftOver
  <2> SUFFICES ASSUME TemplateTyped, GapInv, phase = "closed", Clean PROVE leftOver = {}
    BY DEF NothingLeftOver, Clean
  <2>1. pending = <<>> /\ toWalk = <<>> /\ column = 0 /\ leftOver \subseteq Awaited
    BY DEF GapInv
  <2>2. ToSet(pending) = {} /\ ToSet(toWalk) = {}
    BY <2>1 DEF ToSet
  <2> QED BY <2>1, <2>2 DEF Awaited, Nothing
<1> QED BY <1>1, <1>2, <1>3, PTL DEF TemplateSpec

-------------------------------------------------------------------------------
\* Two increasing sequences of the same numbers are the same.
LEMMA SameIncreasing ==
  ASSUME NEW m \in Nat, NEW n \in Nat, NEW f \in [1..m -> Nat], NEW g \in [1..n -> Nat],
         \A i, j \in 1..m : i < j => f[i] < f[j], \A i, j \in 1..n : i < j => g[i] < g[j],
         \A i \in 1..m : \E j \in 1..n : g[j] = f[i], \A j \in 1..n : \E i \in 1..m : f[i] = g[j]
  PROVE  \A i \in (1..m) \cap (1..n) : f[i] = g[i]
<1> DEFINE T == {i \in (1..m) \cap (1..n) : f[i] # g[i]}
<1>1. SUFFICES ASSUME T # {} PROVE FALSE
  OBVIOUS
<1>2. PICK i \in T : \A j \in T : i <= j
  <2>1. T \subseteq Nat
    OBVIOUS
  <2> QED BY <1>1, <2>1, Least
<1>3. i \in 1..m /\ i \in 1..n /\ f[i] \in Nat /\ g[i] \in Nat /\ f[i] # g[i]
  BY <1>2
<1>4. \A j \in 1..(i - 1) : j \in 1..m /\ j \in 1..n /\ f[j] = g[j] /\ f[j] \in Nat
  <2>1. SUFFICES ASSUME NEW j \in 1..(i - 1) PROVE j \in 1..m /\ j \in 1..n /\ f[j] = g[j] /\ f[j] \in Nat
    OBVIOUS
  <2>2. j \in 1..m /\ j \in 1..n /\ ~(i <= j)
    BY ONLY <1>3, j \in 1..(i - 1), m \in Nat, n \in Nat
  <2>3. f[j] = g[j]
    BY <1>2, <2>2
  <2> QED BY ONLY <2>2, <2>3, f \in [1..m -> Nat]
<1> HIDE DEF T
<1>5. i \in Nat /\ (\A j \in 1..m : f[j] \in Nat) /\ (\A j \in 1..n : g[j] \in Nat)
  <2>1. i \in Nat
    BY ONLY <1>3
  <2> QED BY ONLY <2>1, f \in [1..m -> Nat], g \in [1..n -> Nat]
<1>6. CASE f[i] < g[i]
  <2>1. PICK j \in 1..n : g[j] = f[i]
    BY <1>3
  <2>2. ~(i < j)
    <3>1. i < j => g[i] < g[j]
      BY <1>3
    <3> QED BY <1>3, <1>5, <1>6, <2>1, <3>1
  <2>3. j \in 1..(i - 1)
    BY <1>3, <1>5, <1>6, <2>1, <2>2
  <2>4. f[j] = f[i] /\ j \in 1..m /\ j < i
    <3>1. j < i
      BY <1>5, <2>3
    <3>2. f[j] = g[j] /\ j \in 1..m
      BY <1>4, <2>3
    <3> QED BY <2>1, <3>1, <3>2
  <2>5. f[j] < f[i]
    BY <1>3, <2>4
  <2> QED BY <1>3, <2>4, <2>5
<1>7. CASE g[i] < f[i]
  <2>1. PICK j \in 1..m : f[j] = g[i]
    BY <1>3
  <2>2. ~(i < j)
    <3>1. i < j => f[i] < f[j]
      BY <1>3
    <3> QED BY <1>3, <1>5, <1>7, <2>1, <3>1
  <2>3. j \in 1..(i - 1)
    BY <1>3, <1>5, <1>7, <2>1, <2>2
  <2>4. g[j] = g[i] /\ j \in 1..n /\ j < i
    <3>1. j < i
      BY <1>5, <2>3
    <3>2. f[j] = g[j] /\ j \in 1..n
      BY <1>4, <2>3
    <3> QED BY <2>1, <3>1, <3>2
  <2>5. g[j] < g[i]
    BY <1>3, <2>4
  <2> QED BY <1>3, <2>4, <2>5
<1> QED BY <1>3, <1>6, <1>7

\* Every element of s is in relation R to every later one.
Pairwise(s, R) == \A i, j \in DOMAIN s : i < j => <<s[i], s[j]>> \in R

\* The concatenation of two such sequences is one, when the elements of the first are in
\* relation to those of the second.
LEMMA PairwiseConcat ==
  ASSUME NEW X, NEW s \in Seq(X), NEW t \in Seq(X), NEW R, Pairwise(s, R), Pairwise(t, R),
         \A x \in ToSet(s), y \in ToSet(t) : <<x, y>> \in R
  PROVE  Pairwise(s \o t, R)
<1>0. PICK u : u = s \o t
  OBVIOUS
<1>1. /\ DOMAIN u = 1..(Len(s) + Len(t)) /\ Len(s) \in Nat /\ Len(t) \in Nat
      /\ DOMAIN s = 1..Len(s) /\ DOMAIN t = 1..Len(t)
  BY <1>0
<1>2. \A i \in DOMAIN u : IF i <= Len(s) THEN i \in DOMAIN s /\ u[i] = s[i]
                          ELSE i - Len(s) \in DOMAIN t /\ u[i] = t[i - Len(s)]
  BY <1>0, <1>1
<1>3. ASSUME NEW i \in DOMAIN u, NEW j \in DOMAIN u, i < j PROVE <<u[i], u[j]>> \in R
  <2>0. i \in Nat /\ j \in Nat
    BY <1>1
  <2>1. CASE j <= Len(s)
    BY <1>1, <1>2, <1>3, <2>0, <2>1 DEF Pairwise
  <2>2. CASE i > Len(s)
    <3>1. i - Len(s) \in DOMAIN t /\ j - Len(s) \in DOMAIN t
          /\ u[i] = t[i - Len(s)] /\ u[j] = t[j - Len(s)]
      <4>1. ~(i <= Len(s)) /\ ~(j <= Len(s))
        BY <1>1, <1>3, <2>0, <2>2
      <4> QED BY <1>2, <4>1
    <3>2. i - Len(s) < j - Len(s)
      BY <1>1, <1>3, <2>0
    <3> QED BY <3>1, <3>2 DEF Pairwise
  <2>3. CASE i <= Len(s) /\ j > Len(s)
    <3>1. u[i] \in ToSet(s) /\ u[j] \in ToSet(t)
      BY <1>1, <1>2, <2>0, <2>3 DEF ToSet
    <3> QED BY <3>1
  <2>4. i <= Len(s) \/ i > Len(s)
    BY <1>1, <2>0
  <2>5. j <= Len(s) \/ j > Len(s)
    BY <1>1, <2>0
  <2> QED BY <2>1, <2>2, <2>3, <2>4, <2>5
<1> QED BY <1>0, <1>3 DEF Pairwise

\* The tail of such a sequence is one, and the head is in relation to its elements.
LEMMA PairwiseTail ==
  ASSUME NEW X, NEW s \in Seq(X), s # <<>>, NEW R, Pairwise(s, R)
  PROVE  Pairwise(Tail(s), R) /\ \A y \in ToSet(Tail(s)) : <<Head(s), y>> \in R
<1>0. PICK t : t = Tail(s)
  OBVIOUS
<1>1. DOMAIN t = 1..(Len(s) - 1) /\ Len(s) \in Nat /\ DOMAIN s = 1..Len(s) /\ 1 \in DOMAIN s /\ Head(s) = s[1]
  BY <1>0
<1>2. \A i \in DOMAIN t : t[i] = s[i + 1] /\ i + 1 \in DOMAIN s /\ i \in Nat
  BY <1>0, <1>1
<1>3. Pairwise(t, R)
  <2>1. ASSUME NEW i \in DOMAIN t, NEW j \in DOMAIN t, i < j PROVE <<t[i], t[j]>> \in R
    <3>1. i + 1 < j + 1
      BY <1>2, <2>1
    <3> QED BY <1>2, <3>1 DEF Pairwise
  <2> QED BY <2>1 DEF Pairwise
<1>4. ASSUME NEW i \in DOMAIN t PROVE <<s[1], t[i]>> \in R
  <2>1. 1 < i + 1
    BY <1>1, <1>2
  <2> QED BY <1>1, <1>2, <2>1 DEF Pairwise
<1> QED BY <1>0, <1>1, <1>3, <1>4 DEF ToSet

\* A flattened sequence is one when its members are, and are in relation to each other.
LEMMA PairwiseFlatten ==
  ASSUME NEW X, NEW ss \in Seq(Seq(X)), NEW R, \A i \in DOMAIN ss : Pairwise(ss[i], R),
         \A i, j \in DOMAIN ss : i < j => \A x \in ToSet(ss[i]), y \in ToSet(ss[j]) : <<x, y>> \in R
  PROVE  Pairwise(FlattenSeq(ss), R)
<1>1. CASE ss = <<>>
  BY <1>1 DEF FlattenSeq, Pairwise
<1>2. CASE ss # <<>>
  <2> DEFINE n == Len(ss)
  <2>1. PICK f : f = [i \in 1..n |-> IF i = 1 THEN ss[i] ELSE f[i - 1] \o ss[i]] /\ FlattenSeq(ss) = f[n]
    BY <1>2, FlattenStep
  <2> DEFINE P == {k \in 1..n : f[k] \in Seq(X) /\ Pairwise(f[k], R) /\ ToSet(f[k]) = UNION {ToSet(ss[i]) : i \in 1..k}}
  <2>2. n \in Nat /\ 1 <= n /\ DOMAIN ss = 1..n /\ \A k \in 1..n : ss[k] \in Seq(X)
    BY <1>2
  <2> HIDE DEF n
  <2>3. f[1] = ss[1] /\ \A k \in 1..(n - 1) : f[k + 1] = f[k] \o ss[k + 1]
    <3>1. \A k \in 1..n : f[k] = IF k = 1 THEN ss[k] ELSE f[k - 1] \o ss[k]
      BY <2>1
    <3>2. ASSUME NEW k \in 1..(n - 1) PROVE f[k + 1] = f[k] \o ss[k + 1]
      <4>1. k + 1 \in 1..n /\ k + 1 # 1 /\ (k + 1) - 1 = k
        BY <2>2
      <4> QED BY <3>1, <4>1
    <3>3. f[1] = ss[1]
      BY <2>2, <3>1
    <3> QED BY <3>2, <3>3
  <2>4. 1 \in P
    <3>1. 1 \in 1..n /\ 1..1 = {1}
      BY <2>2
    <3> QED BY <2>2, <2>3, <3>1
  <2>5. ASSUME NEW k \in 1..(n - 1), k \in P PROVE k + 1 \in P
    <3>1. k + 1 \in 1..n /\ 1..(k + 1) = (1..k) \cup {k + 1} /\ ss[k + 1] \in Seq(X)
      BY <2>2
    <3>2. f[k + 1] = f[k] \o ss[k + 1]
      BY <2>3
    <3>3. f[k + 1] \in Seq(X) /\ ToSet(f[k + 1]) = ToSet(f[k]) \cup ToSet(ss[k + 1])
      BY <2>5, <3>1, <3>2, ToSetConcat
    <3>4. UNION {ToSet(ss[i]) : i \in 1..(k + 1)} = (UNION {ToSet(ss[i]) : i \in 1..k}) \cup ToSet(ss[k + 1])
      BY <3>1
    <3>5. ASSUME NEW x \in ToSet(f[k]), NEW y \in ToSet(ss[k + 1]) PROVE <<x, y>> \in R
      <4>1. PICK i \in 1..k : x \in ToSet(ss[i])
        BY <2>5
      <4>2. i \in DOMAIN ss /\ k + 1 \in DOMAIN ss /\ i < k + 1
        BY <2>2
      <4> QED BY <4>1, <4>2
    <3>6. Pairwise(f[k + 1], R)
      <4>1. f[k] \in Seq(X) /\ Pairwise(f[k], R) /\ Pairwise(ss[k + 1], R)
        BY <2>2, <2>5, <3>1
      <4> QED BY <3>1, <3>2, <3>5, <4>1, PairwiseConcat
    <3> QED BY <2>5, <3>1, <3>3, <3>4, <3>6
  <2>6. n \in P
    <3>1. 1..n \subseteq P
      <4> HIDE DEF P
      <4> QED BY <2>2, <2>4, <2>5, Induct
    <3>2. n \in 1..n
      BY <2>2
    <3> HIDE DEF P
    <3> QED BY <3>1, <3>2
  <2> QED BY <2>1, <2>2, <2>6
<1> QED BY <1>1, <1>2

\* The same of what ByRole puts together.
LEMMA PairwiseByRole ==
  ASSUME NEW X, NEW S, S \subseteq Nat, IsFiniteSet(S), NEW f, \A r \in S : f[r] \in Seq(X),
         NEW t, t = [i \in DOMAIN Sorted(S) |-> f[Sorted(S)[i]]],
         NEW R, \A r \in S : Pairwise(f[r], R),
         \A r, q \in S : r # q => \A x \in ToSet(f[r]), y \in ToSet(f[q]) : <<x, y>> \in R
  PROVE  Pairwise(FlattenSeq(t), R)
<1>1. /\ Sorted(S) \in Seq(S) /\ DOMAIN Sorted(S) = 1..Cardinality(S) /\ Cardinality(S) \in Nat /\ ToSet(Sorted(S)) = S
      /\ \A i, j \in DOMAIN Sorted(S) : i < j => Sorted(S)[i] < Sorted(S)[j]
  BY SortedSeq
<1>2. PICK q : q = Sorted(S)
  OBVIOUS
<1>3. PICK n \in Nat : DOMAIN q = 1..n
  BY <1>1, <1>2
<1>4. \A i \in 1..n : q[i] \in S
  BY <1>1, <1>2, <1>3 DEF ToSet
<1>5. \A i, j \in 1..n : i < j => q[i] # q[j]
  <2>1. \A i \in 1..n : q[i] \in Nat
    BY <1>4
  <2>2. \A i, j \in 1..n : i < j => q[i] < q[j]
    BY <1>1, <1>2, <1>3
  <2> HIDE <1>1, <1>2
  <2> QED BY <2>1, <2>2
<1>6. t = [i \in 1..n |-> f[q[i]]]
  BY <1>2, <1>3
<1>7. \A i \in 1..n : f[q[i]] \in Seq(X)
  BY <1>4
<1>8. t \in Seq(Seq(X)) /\ DOMAIN t = 1..n /\ \A i \in 1..n : t[i] = f[q[i]]
  BY <1>6, <1>7
<1>9. \A i \in DOMAIN t : Pairwise(t[i], R)
  BY <1>4, <1>8
<1>10. \A i, j \in DOMAIN t : i < j => \A x \in ToSet(t[i]), y \in ToSet(t[j]) : <<x, y>> \in R
  <2>1. ASSUME NEW i \in DOMAIN t, NEW j \in DOMAIN t, i < j, NEW x \in ToSet(t[i]), NEW y \in ToSet(t[j])
        PROVE  <<x, y>> \in R
    <3>1. q[i] \in S /\ q[j] \in S /\ q[i] # q[j] /\ x \in ToSet(f[q[i]]) /\ y \in ToSet(f[q[j]])
      BY <1>4, <1>5, <1>8, <2>1
    <3> QED BY <3>1
  <2> QED BY <2>1
<1> QED BY <1>8, <1>9, <1>10, PairwiseFlatten, ZenonT(120)

-------------------------------------------------------------------------------
\* The first two variants retrace the template.

\* The children of a role on either side of a pair, in the order of their identities,
\* the roles on both sides, and the pairs of a role.
Lefts(k, r) == Sorted(ToSet(WithRole(Children(1, k[1]), r)))
Rights(k, r) == Sorted(ToSet(WithRole(Children(2, k[2]), r)))
BothRoles(k) == Roles(Children(1, k[1])) \cap Roles(Children(2, k[2]))
Pairs(k, r) == {<<Lefts(k, r)[i], Rights(k, r)[i]>> : i \in DOMAIN Lefts(k, r) \cap DOMAIN Rights(k, r)}

\* What is below node n of role r are pairs of derivations: n stands for two derivations
\* that both have references of the role, and walks do not end at it.
Splitting(ns, n) == Twofold(ns[n].key) /\ ~ns[n].stop
Shared(ns, n, r) == Splitting(ns, n) /\ r \in BothRoles(ns[n].key)

\* The children of a node are different, and those of a role on both sides are pairs, in
\* their order; a node that stands for two derivations is nowhere else.
PairsAt(ns, n) ==
  LET kids == ns[n].children IN
  /\ \A i, j \in DOMAIN kids : i < j => kids[i] # kids[j]
  /\ \A c \in ToSet(kids) :
       /\ Twofold(ns[c].key) => Shared(ns, n, ns[c].role)
       /\ Shared(ns, n, ns[c].role) => ns[c].key \in Pairs(ns[n].key, ns[c].role)
  /\ \A i, j \in DOMAIN kids :
       i < j /\ ns[kids[i]].role = ns[kids[j]].role /\ Shared(ns, n, ns[kids[i]].role)
         => ns[kids[i]].key[1] < ns[kids[j]].key[1]
PairedTemplate(ns) == \A n \in DOMAIN ns : PairsAt(ns, n)

\* A pair is there.
HasPair(ns, n, r, k) == \E c \in ToSet(ns[n].children) : ns[c].key = k /\ ns[c].role = r
AllPaired(ns) ==
  \A n \in DOMAIN ns : Splitting(ns, n) =>
    \A r \in BothRoles(ns[n].key) : \A k \in Pairs(ns[n].key, r) : HasPair(ns, n, r, k)

RootPair == <<roots[1], roots[2]>>

\* The work of the builder: pairs that are yet to be visited, in order.
KeyRole(k) == DrvRole[IF k[1] = Nothing THEN k[2] ELSE k[1]]
PairOf(w) == <<w.left, w.right>>
SharedItem(ns, w) == w.parent # Nothing /\ Shared(ns, w.parent, KeyRole(PairOf(w)))
ItemPaired(ns, w) ==
  /\ w.parent # Nothing /\ Twofold(PairOf(w)) => SharedItem(ns, w)
  /\ SharedItem(ns, w) =>
       /\ PairOf(w) \in Pairs(ns[w.parent].key, KeyRole(PairOf(w)))
       /\ \A c \in ToSet(ns[w.parent].children) : ns[c].role = KeyRole(PairOf(w)) => ns[c].key[1] < w.left
InTurn(ns, x, y) ==
  x.parent = y.parent /\ KeyRole(PairOf(x)) = KeyRole(PairOf(y)) /\ SharedItem(ns, x) => x.left < y.left
BuildPairs(ns, ws) ==
  /\ PairedTemplate(ns)
  /\ \A n \in DOMAIN ns : ns[n].role = KeyRole(ns[n].key)
  /\ IF ns = <<>> THEN ws = <<[parent |-> Nothing, left |-> roots[1], right |-> roots[2]]>>
     ELSE ns[1].key = RootPair /\ \A w \in ToSet(ws) : w.parent # Nothing
  /\ \A w \in ToSet(ws) : ItemPaired(ns, w)
  /\ \A i, j \in DOMAIN ws : i < j => InTurn(ns, ws[i], ws[j])
  /\ \A n \in DOMAIN ns : Splitting(ns, n) =>
       \A r \in BothRoles(ns[n].key) : \A k \in Pairs(ns[n].key, r) :
         HasPair(ns, n, r, k) \/ \E w \in ToSet(ws) : w.parent = n /\ PairOf(w) = k

\* The work of a walk: a pair is walked with its own derivation of the column, and once
\* below each parent; extensions are no pairs.
ItemRetraces(ns, c, w) ==
  /\ w.kind = "pair" =>
       /\ Twofold(ns[w.node].key) => w.drv = ns[w.node].key[c]
       /\ w.parent # Nothing => w.node \in ToSet(ns[w.parent].children) /\ ns[w.parent].seen
  /\ w.kind = "extend" /\ w.parent # Nothing =>
       /\ ~Shared(ns, w.parent, DrvRole[w.drv])
       /\ w.base # Nothing => Len(ns[w.parent].key) = 1
Apart(x, y) == x.kind = "pair" /\ y.kind = "pair" /\ x.parent = y.parent => x.node # y.node
WalkPairs(ns, ws, c) ==
  /\ PairedTemplate(ns) /\ AllPaired(ns) /\ ns[1].key = RootPair
  /\ \A w \in ToSet(ws) : ItemRetraces(ns, c, w)
  /\ \A i, j \in DOMAIN ws : i < j => Apart(ws[i], ws[j])

\* The variants are read, built from and walked in their order.
InOrder ==
  /\ nodes = <<>> /\ phase = "read" => read <= 1
  /\ (nodes = <<>> /\ phase = "read") \/ phase = "build" => pending = [i \in 1..read |-> i]
  /\ phase = "build" => read \in {1, 2}
  /\ nodes # <<>> /\ phase = "read" => Position = read
  /\ phase = "walk" => /\ Position + Len(toWalk) = read /\ \A i \in DOMAIN toWalk : toWalk[i] = Position + i
                       /\ work # <<>> => column = Position
                       /\ read >= 3 => Position >= 2 /\ (work # <<>> => Position >= 3)
  /\ nodes # <<>> \/ phase = "build" => read >= 1 /\ (read = 1 => Len(roots) = 1)
  /\ read < 2 => \A n \in DOMAIN nodes : Len(nodes[n].key) = 1

RetraceInv ==
  /\ InOrder /\ CalibrationRetraces
  /\ read = 2 /\ phase = "build" => BuildPairs(nodes, work)
  /\ read = 2 /\ phase = "walk" => WalkPairs(nodes, work, column)

\* Two variants have been read.
TwoTrees == TreesTyped /\ ReadTyped /\ read = 2

\* The elements of a role in the order of their identities.
LEMMA RoleSorted ==
  ASSUME NEW s \in Seq(Drv), NEW r, NEW q, q = Sorted(ToSet(WithRole(s, r)))
  PROVE  /\ q \in Seq(Drv) /\ ToSet(q) = {d \in ToSet(s) : DrvRole[d] = r}
         /\ \A i, j \in DOMAIN q : i < j => q[i] < q[j]
<1>1. PICK D : D = ToSet(WithRole(s, r))
  OBVIOUS
<1>2. WithRole(s, r) \in Seq(Drv) /\ D = {d \in ToSet(s) : DrvRole[d] = r}
  BY <1>1, WithRoleSeq
<1>3. D \subseteq Drv /\ IsFiniteSet(D)
  BY <1>1, <1>2, ToSetFinite
<1>4. D \subseteq Nat
  BY <1>3, DrvFacts
<1>5. Sorted(D) \in Seq(D) /\ ToSet(Sorted(D)) = D /\ \A i, j \in DOMAIN Sorted(D) : i < j => Sorted(D)[i] < Sorted(D)[j]
  BY <1>3, <1>4, SortedSeq
<1> QED BY <1>1, <1>2, <1>3, <1>5

\* The children in the tree of a variant that was read.
LEMMA KidsSeq ==
  ASSUME TreesTyped, ReadTyped, NEW v \in 1..read, NEW d PROVE Children(v, d) \in Seq(Drv)
<1>1. expanded[v] \subseteq Drv
  BY DEF ReadTyped
<1>2. d \in expanded[v] => refs[d] \in Seq(Drv)
  BY <1>1 DEF TreesTyped
<1> QED BY <1>2 DEF Children

\* The two sides of a pair.
LEMMA Sides ==
  ASSUME TwoTrees, NEW k, NEW r
  PROVE  /\ Children(1, k[1]) \in Seq(Drv) /\ Children(2, k[2]) \in Seq(Drv)
         /\ Lefts(k, r) \in Seq(Drv) /\ ToSet(Lefts(k, r)) = {d \in ToSet(Children(1, k[1])) : DrvRole[d] = r}
         /\ \A i, j \in DOMAIN Lefts(k, r) : i < j => Lefts(k, r)[i] < Lefts(k, r)[j]
         /\ Rights(k, r) \in Seq(Drv) /\ ToSet(Rights(k, r)) = {d \in ToSet(Children(2, k[2])) : DrvRole[d] = r}
         /\ \A i, j \in DOMAIN Rights(k, r) : i < j => Rights(k, r)[i] < Rights(k, r)[j]
<1>1. PICK a : a = Children(1, k[1])
  OBVIOUS
<1>2. PICK b : b = Children(2, k[2])
  OBVIOUS
<1>3. a \in Seq(Drv) /\ b \in Seq(Drv)
  <2>1. 1 \in 1..read /\ 2 \in 1..read /\ TreesTyped /\ ReadTyped
    BY DEF TwoTrees
  <2> QED BY <1>1, <1>2, <2>1, KidsSeq
<1>4. PICK p : p = Lefts(k, r)
  OBVIOUS
<1>5. PICK q : q = Rights(k, r)
  OBVIOUS
<1>6. p = Sorted(ToSet(WithRole(a, r))) /\ q = Sorted(ToSet(WithRole(b, r)))
  BY <1>1, <1>2, <1>4, <1>5 DEF Lefts, Rights
<1>7. p \in Seq(Drv) /\ ToSet(p) = {d \in ToSet(a) : DrvRole[d] = r} /\ \A i, j \in DOMAIN p : i < j => p[i] < p[j]
  BY <1>3, <1>6, RoleSorted
<1>8. q \in Seq(Drv) /\ ToSet(q) = {d \in ToSet(b) : DrvRole[d] = r} /\ \A i, j \in DOMAIN q : i < j => q[i] < q[j]
  BY <1>3, <1>6, RoleSorted
<1> QED BY <1>1, <1>2, <1>3, <1>4, <1>5, <1>7, <1>8

\* A pair of children of a role.
LEMMA PairFacts ==
  ASSUME TwoTrees, NEW k, NEW r, NEW p \in Pairs(k, r)
  PROVE  p = <<p[1], p[2]>> /\ p[1] \in Drv /\ p[2] \in Drv /\ DrvRole[p[1]] = r /\ KeyRole(p) = r
<1>1. PICK ls : ls = Lefts(k, r) /\ ls \in Seq(Drv) /\ ToSet(ls) = {d \in ToSet(Children(1, k[1])) : DrvRole[d] = r}
  BY Sides
<1>2. PICK rs : rs = Rights(k, r) /\ rs \in Seq(Drv)
  BY Sides
<1>3. PICK i \in DOMAIN ls \cap DOMAIN rs : p = <<ls[i], rs[i]>>
  BY <1>1, <1>2 DEF Pairs
<1>4. ls[i] \in Drv /\ rs[i] \in Drv /\ ls[i] \in ToSet(ls)
  BY <1>1, <1>2, <1>3 DEF ToSet
<1>5. p[1] = ls[i] /\ p[2] = rs[i]
  BY <1>3
<1>6. DrvRole[p[1]] = r /\ p[1] # Nothing
  BY <1>1, <1>4, <1>5, DrvFacts DEF Nothing
<1> QED BY <1>3, <1>4, <1>5, <1>6 DEF KeyRole

\* A role on both sides has a pair.
LEMMA SomePair ==
  ASSUME TwoTrees, NEW k, NEW r \in BothRoles(k) PROVE Pairs(k, r) # {}
<1>1. PICK ls : ls = Lefts(k, r) /\ ls \in Seq(Drv) /\ ToSet(ls) = {d \in ToSet(Children(1, k[1])) : DrvRole[d] = r}
  BY Sides
<1>2. PICK rs : rs = Rights(k, r) /\ rs \in Seq(Drv) /\ ToSet(rs) = {d \in ToSet(Children(2, k[2])) : DrvRole[d] = r}
  BY Sides
<1>3. ToSet(ls) # {} /\ ToSet(rs) # {}
  BY <1>1, <1>2 DEF BothRoles, Roles
<1>4. ls # <<>> /\ rs # <<>>
  BY <1>1, <1>2, <1>3, ToSetFinite
<1>5. 1 \in DOMAIN ls /\ 1 \in DOMAIN rs
  BY <1>1, <1>2, <1>4, SMTT(30)
<1>6. <<ls[1], rs[1]>> \in Pairs(k, r)
  BY <1>1, <1>2, <1>5 DEF Pairs
<1> QED BY <1>6

\* The nodes in S are for the same derivations in ms as in ns.
Alike(ns, ms, S) == \A c \in S : ms[c].key = ns[c].key /\ ms[c].role = ns[c].role

\* A node with the same children, for the same derivations.
LEMMA PairsSame ==
  ASSUME NEW ns, NEW ms, NEW n, NEW m, PairsAt(ns, n),
         ms[m].key = ns[n].key, ms[m].stop = ns[n].stop, ms[m].children = ns[n].children,
         Alike(ns, ms, ToSet(ns[n].children))
  PROVE  PairsAt(ms, m)
<1>1. PICK kids : kids = ns[n].children /\ kids = ms[m].children
  OBVIOUS
<1>2. \A r : Shared(ms, m, r) <=> Shared(ns, n, r)
  BY DEF Shared, Splitting
<1>3. \A i \in DOMAIN kids : ms[kids[i]].key = ns[kids[i]].key /\ ms[kids[i]].role = ns[kids[i]].role
  BY <1>1 DEF Alike, ToSet
<1>4. \A c \in ToSet(kids) : ms[c].key = ns[c].key /\ ms[c].role = ns[c].role
  BY <1>1 DEF Alike
<1>5. \A c \in ToSet(kids) : /\ Twofold(ms[c].key) => Shared(ms, m, ms[c].role)
                             /\ Shared(ms, m, ms[c].role) => ms[c].key \in Pairs(ms[m].key, ms[c].role)
  BY <1>1, <1>2, <1>4, SMTT(30) DEF PairsAt
<1>6. \A i, j \in DOMAIN kids :
        i < j /\ ms[kids[i]].role = ms[kids[j]].role /\ Shared(ms, m, ms[kids[i]].role) => ms[kids[i]].key[1] < ms[kids[j]].key[1]
  BY <1>1, <1>2, <1>3 DEF PairsAt
<1>7. \A i, j \in DOMAIN kids : i < j => kids[i] # kids[j]
  BY <1>1 DEF PairsAt
<1> QED BY <1>1, <1>5, <1>6, <1>7 DEF PairsAt

\* A node without children.
LEMMA PairsNone ==
  ASSUME NEW ns, NEW n, ns[n].children = <<>> PROVE PairsAt(ns, n)
<1>1. DOMAIN <<>> = {} /\ ToSet(<<>>) = {}
  BY DEF ToSet
<1> QED BY <1>1 DEF PairsAt

\* A node with one child more, which comes after the others of its role.
LEMMA PairsAdd ==
  ASSUME NEW ns, NEW ms, NEW n, PairsAt(ns, n), ms[n].key = ns[n].key, ms[n].stop = ns[n].stop,
         NEW kids \in Seq(Nat), kids = ns[n].children, Alike(ns, ms, ToSet(kids)),
         NEW c \in Nat, c \notin ToSet(kids), ms[n].children = Append(kids, c),
         Twofold(ms[c].key) => Shared(ms, n, ms[c].role),
         Shared(ms, n, ms[c].role) => ms[c].key \in Pairs(ms[n].key, ms[c].role),
         Shared(ms, n, ms[c].role) => \A e \in ToSet(kids) : ms[e].role = ms[c].role => ms[e].key[1] < ms[c].key[1]
  PROVE  PairsAt(ms, n)
<1>1. PICK l \in Nat : l = Len(kids)
  OBVIOUS
<1>2. PICK s : s = Append(kids, c)
  OBVIOUS
<1>3. DOMAIN kids = 1..l /\ DOMAIN s = 1..(l + 1) /\ s[l + 1] = c /\ \A i \in 1..l : s[i] = kids[i]
  BY <1>1, <1>2
<1>4. ToSet(s) = ToSet(kids) \cup {c}
  BY <1>2, ToSetAppend
<1>5. \A r : Shared(ms, n, r) <=> Shared(ns, n, r)
  BY DEF Shared, Splitting
<1>6. ASSUME NEW i \in 1..l
      PROVE  kids[i] \in ToSet(kids) /\ ms[kids[i]].key = ns[kids[i]].key /\ ms[kids[i]].role = ns[kids[i]].role
  BY <1>3 DEF Alike, ToSet
<1>7. ASSUME NEW i \in DOMAIN s, NEW j \in DOMAIN s, i < j
      PROVE  /\ s[i] # s[j]
             /\ ms[s[i]].role = ms[s[j]].role /\ Shared(ms, n, ms[s[i]].role) => ms[s[i]].key[1] < ms[s[j]].key[1]
  <2>1. i \in 1..l
    BY <1>3, <1>7
  <2>2. s[i] = kids[i]
    BY <1>3, <2>1
  <2>3. CASE j = l + 1
    <3>1. s[j] = c
      BY <1>3, <2>3
    <3> QED BY <1>6, <2>1, <2>2, <3>1
  <2>4. CASE j # l + 1
    <3>1. j \in 1..l
      BY <1>3, <2>4, SMTT(30)
    <3>2. s[j] = kids[j]
      BY <1>3, <3>1
    <3>3. i \in DOMAIN kids /\ j \in DOMAIN kids
      BY <1>3, <2>1, <3>1
    <3>4. kids[i] # kids[j]
      BY <1>7, <3>3, SMTT(30) DEF PairsAt
    <3>5. ns[kids[i]].role = ns[kids[j]].role /\ Shared(ns, n, ns[kids[i]].role) => ns[kids[i]].key[1] < ns[kids[j]].key[1]
      BY <1>7, <3>3 DEF PairsAt
    <3> QED BY <1>5, <1>6, <2>1, <2>2, <3>1, <3>2, <3>4, <3>5, ZenonT(120)
  <2> QED BY <2>3, <2>4
<1>8. ASSUME NEW e \in ToSet(s)
      PROVE  /\ Twofold(ms[e].key) => Shared(ms, n, ms[e].role)
             /\ Shared(ms, n, ms[e].role) => ms[e].key \in Pairs(ms[n].key, ms[e].role)
  <2>1. CASE e = c
    BY <2>1
  <2>2. CASE e # c
    <3>1. e \in ToSet(kids)
      BY <1>4, <1>8, <2>2
    <3>2. ms[e].key = ns[e].key /\ ms[e].role = ns[e].role
      BY <3>1 DEF Alike
    <3> QED BY <1>5, <3>1, <3>2 DEF PairsAt
  <2> QED BY <2>1, <2>2
<1>9. ms[n].children = s
  BY <1>2
<1> QED BY <1>7, <1>8, <1>9 DEF PairsAt

\* A node with another child in the place of one for the same derivations.
LEMMA PairsReplace ==
  ASSUME NEW ns, NEW ms, NEW n, PairsAt(ns, n), ms[n].key = ns[n].key, ms[n].stop = ns[n].stop,
         NEW kids \in Seq(Nat), kids = ns[n].children, Alike(ns, ms, ToSet(kids)),
         NEW i \in DOMAIN kids, NEW c \in Nat, c \notin ToSet(kids),
         ms[c].key = ns[kids[i]].key, ms[c].role = ns[kids[i]].role, ms[n].children = [kids EXCEPT ![i] = c]
  PROVE  PairsAt(ms, n)
<1>1. PICK s : s = [kids EXCEPT ![i] = c]
  OBVIOUS
<1>2. DOMAIN s = DOMAIN kids /\ \A j \in DOMAIN kids : s[j] = IF j = i THEN c ELSE kids[j]
  BY <1>1
<1>3. \A r : Shared(ms, n, r) <=> Shared(ns, n, r)
  BY DEF Shared, Splitting
<1>4. ASSUME NEW j \in DOMAIN kids
      PROVE  kids[j] \in ToSet(kids) /\ ms[s[j]].key = ns[kids[j]].key /\ ms[s[j]].role = ns[kids[j]].role
  <2>1. kids[j] \in ToSet(kids)
    BY DEF ToSet
  <2>2. ms[kids[j]].key = ns[kids[j]].key /\ ms[kids[j]].role = ns[kids[j]].role
    BY <2>1 DEF Alike
  <2> QED BY <1>2, <2>1, <2>2
<1>5. ASSUME NEW j \in DOMAIN kids, NEW k \in DOMAIN kids, j < k
      PROVE  /\ s[j] # s[k]
             /\ ms[s[j]].role = ms[s[k]].role /\ Shared(ms, n, ms[s[j]].role) => ms[s[j]].key[1] < ms[s[k]].key[1]
  <2>1. kids[j] # kids[k] /\ j # k
    <3>1. kids[j] # kids[k]
      BY <1>5, SMTT(30) DEF PairsAt
    <3> QED BY <3>1
  <2>2. ns[kids[j]].role = ns[kids[k]].role /\ Shared(ns, n, ns[kids[j]].role) => ns[kids[j]].key[1] < ns[kids[k]].key[1]
    BY <1>5 DEF PairsAt
  <2>3. s[j] # s[k]
    BY <1>2, <1>4, <2>1, SMTT(30)
  <2> QED BY <1>3, <1>4, <2>2, <2>3, ZenonT(120)
<1>6. ASSUME NEW j \in DOMAIN kids
      PROVE  /\ Twofold(ms[s[j]].key) => Shared(ms, n, ms[s[j]].role)
             /\ Shared(ms, n, ms[s[j]].role) => ms[s[j]].key \in Pairs(ms[n].key, ms[s[j]].role)
  <2>1. kids[j] \in ToSet(kids)
    BY <1>4
  <2> QED BY <1>3, <1>4, <2>1, SMTT(30) DEF PairsAt
<1>7. \A e \in ToSet(s) : \E j \in DOMAIN kids : e = s[j]
  BY <1>2 DEF ToSet
<1>8. \A j, k \in DOMAIN s : j < k =>
        /\ s[j] # s[k]
        /\ ms[s[j]].role = ms[s[k]].role /\ Shared(ms, n, ms[s[j]].role) => ms[s[j]].key[1] < ms[s[k]].key[1]
  BY <1>2, <1>5
<1>9. \A e \in ToSet(s) : /\ Twofold(ms[e].key) => Shared(ms, n, ms[e].role)
                          /\ Shared(ms, n, ms[e].role) => ms[e].key \in Pairs(ms[n].key, ms[e].role)
  BY <1>6, <1>7
<1>10. ms[n].children = s
  BY <1>1
<1> QED BY ONLY <1>8, <1>9, <1>10 DEF PairsAt

\* A pair stays there when every child has a successor for the same derivations.
LEMMA HasPairKept ==
  ASSUME NEW ns, NEW ms, NEW n, NEW m, NEW r, NEW k, HasPair(ns, n, r, k),
         \A c \in ToSet(ns[n].children) : \E e \in ToSet(ms[m].children) : ms[e].key = ns[c].key /\ ms[e].role = ns[c].role
  PROVE  HasPair(ms, m, r, k)
BY DEF HasPair

\* The items of one-sided children are no pairs, and have the roles of the children.
LEMMA OneSidedItems ==
  ASSUME NEW n, NEW s \in Seq(Drv), NEW left \in BOOLEAN
  PROVE  \A x \in ToSet(OneSided(n, s, left)) :
           /\ x.parent = n /\ ~Twofold(PairOf(x))
           /\ \E d \in ToSet(s) : KeyRole(PairOf(x)) = DrvRole[d]
<1> DEFINE p == OneSided(n, s, left)
<1>1. SUFFICES ASSUME NEW i \in DOMAIN s
      PROVE  /\ p[i].parent = n /\ ~Twofold(PairOf(p[i]))
             /\ \E d \in ToSet(s) : KeyRole(PairOf(p[i])) = DrvRole[d]
  <2>1. DOMAIN p = DOMAIN s
    BY DEF OneSided
  <2> QED BY <2>1 DEF ToSet
<1>2. PICK d : d = s[i] /\ d \in ToSet(s) /\ d \in Drv
  BY DEF ToSet
<1>3. d # Nothing
  BY <1>2, DrvFacts DEF Nothing
<1>4. p[i] = [parent |-> n, left |-> IF left THEN d ELSE Nothing, right |-> IF left THEN Nothing ELSE d]
  BY <1>2 DEF OneSided
<1>5. p[i].parent = n /\ \/ p[i].left = d /\ p[i].right = Nothing
                         \/ p[i].left = Nothing /\ p[i].right = d
  BY <1>4
<1>6. PairOf(p[i])[1] = p[i].left /\ PairOf(p[i])[2] = p[i].right
  BY DEF PairOf
<1>7. KeyRole(PairOf(p[i])) = DrvRole[d]
  BY <1>3, <1>5, <1>6 DEF KeyRole
<1>8. ~Twofold(PairOf(p[i]))
  <2>1. Nothing \in {PairOf(p[i])[1], PairOf(p[i])[2]}
    BY <1>5, <1>6
  <2>2. {PairOf(p[i])[1], PairOf(p[i])[2]} \subseteq ToSet(PairOf(p[i]))
    <3>1. DOMAIN PairOf(p[i]) = 1..2
      BY DEF PairOf
    <3>2. 1 \in 1..2 /\ 2 \in 1..2
      OBVIOUS
    <3> QED BY <3>1, <3>2 DEF ToSet
  <2> QED BY <2>1, <2>2 DEF Twofold
<1> QED BY <1>2, <1>5, <1>7, <1>8

PairItems(p, n, k, r) ==
  /\ \A x \in ToSet(p) : x.parent = n /\ PairOf(x) \in Pairs(k, r)
  /\ \A q \in Pairs(k, r) : \E x \in ToSet(p) : PairOf(x) = q
  /\ \A i, j \in DOMAIN p : i < j => p[i].left < p[j].left

\* The items of a role on both sides are the pairs of the role, in order.
LEMMA RolePairsItems ==
  ASSUME TwoTrees, NEW n, NEW k, NEW r,
         NEW a \in {Children(1, k[1])}, NEW b \in {Children(2, k[2])}
  PROVE  PairItems(RolePairs(n, a, b, r), n, k, r)
<1>0. PICK p : p = RolePairs(n, a, b, r)
  OBVIOUS
<1>1. PICK ls : ls = Lefts(k, r) /\ ls \in Seq(Drv) /\ \A i, j \in DOMAIN ls : i < j => ls[i] < ls[j]
  BY Sides
<1>2. PICK rs : rs = Rights(k, r) /\ rs \in Seq(Drv)
  BY Sides
<1>3. PICK m : m = (IF Len(ls) < Len(rs) THEN Len(ls) ELSE Len(rs))
  OBVIOUS
<1>4. p = [i \in 1..m |-> [parent |-> n, left |-> ls[i], right |-> rs[i]]]
  BY <1>0, <1>1, <1>2, <1>3 DEF RolePairs, Lefts, Rights
<1>5. 1..m = DOMAIN ls \cap DOMAIN rs
  <2>1. DOMAIN ls = 1..Len(ls) /\ DOMAIN rs = 1..Len(rs) /\ Len(ls) \in Nat /\ Len(rs) \in Nat
    BY <1>1, <1>2
  <2> QED BY <1>3, <2>1
<1>6. DOMAIN p = 1..m
  BY <1>4
<1>7. ASSUME NEW i \in 1..m
      PROVE  p[i].parent = n /\ p[i].left = ls[i] /\ PairOf(p[i]) = <<ls[i], rs[i]>> /\ p[i] \in ToSet(p)
  <2>1. p[i] = [parent |-> n, left |-> ls[i], right |-> rs[i]]
    BY <1>4
  <2>2. p[i] \in ToSet(p)
    BY <1>6 DEF ToSet
  <2> QED BY <2>1, <2>2 DEF PairOf
<1>8. Pairs(k, r) = {<<ls[i], rs[i]>> : i \in 1..m}
  BY <1>1, <1>2, <1>5 DEF Pairs
<1>9. \A x \in ToSet(p) : x.parent = n /\ PairOf(x) \in Pairs(k, r)
  BY <1>6, <1>7, <1>8 DEF ToSet
<1>10. \A q \in Pairs(k, r) : \E x \in ToSet(p) : PairOf(x) = q
  BY <1>7, <1>8
<1>11. \A i, j \in DOMAIN p : i < j => p[i].left < p[j].left
  <2>1. \A i, j \in 1..m : i < j => ls[i] < ls[j]
    BY <1>1, <1>5
  <2>2. \A i \in 1..m : p[i].left = ls[i]
    BY <1>7
  <2> QED BY ONLY <1>6, <2>1, <2>2
<1> QED BY ONLY <1>0, <1>9, <1>10, <1>11 DEF PairItems

\* Pairs of a role on both sides, in order.
Turns(X, k) ==
  {e \in X \X X : KeyRole(PairOf(e[1])) = KeyRole(PairOf(e[2])) /\ KeyRole(PairOf(e[1])) \in BothRoles(k) => e[1].left < e[2].left}

Split(p, n, k, len) ==
  /\ \A x \in ToSet(p) :
       /\ x.parent = n
       /\ Twofold(PairOf(x)) \/ KeyRole(PairOf(x)) \in BothRoles(k)
            => KeyRole(PairOf(x)) \in BothRoles(k) /\ PairOf(x) \in Pairs(k, KeyRole(PairOf(x)))
  /\ \A r \in BothRoles(k) : \A q \in Pairs(k, r) : \E x \in ToSet(p) : PairOf(x) = q
  /\ Pairwise(p, Turns(BuildItems(len), k))

\* What is walked below a pair whose sides are different.
LEMMA SplitItems ==
  ASSUME TwoTrees, First = 1, Second = 2, ~Alone, NEW len \in Nat, NEW n \in 0..len, NEW w \in BuildItems(len),
         Twofold(PairOf(w))
  PROVE  Split(PairChildren(n, w), n, PairOf(w), len)
<1>00. PICK p : p = PairChildren(n, w)
  OBVIOUS
<1>0. PICK k : k = PairOf(w)
  OBVIOUS
<1>1. k[1] = w.left /\ k[2] = w.right /\ w.left # Nothing /\ w.right # Nothing /\ w.left # w.right
  <2>1. k[1] = w.left /\ k[2] = w.right /\ DOMAIN k = 1..2
    BY <1>0 DEF PairOf
  <2>2. k[1] \in ToSet(k) /\ k[2] \in ToSet(k)
    <3>1. 1 \in 1..2 /\ 2 \in 1..2
      OBVIOUS
    <3> QED BY <2>1, <3>1 DEF ToSet
  <2> QED BY <1>0, <2>1, <2>2 DEF Twofold
<1>2. First = 1 /\ Second = 2 /\ ~Alone
  OBVIOUS
<1>3. PICK a : a = Children(1, k[1]) /\ a \in Seq(Drv)
  BY Sides
<1>4. PICK b : b = Children(2, k[2]) /\ b \in Seq(Drv)
  BY Sides
<1>5. PICK both : both = Roles(a) \cap Roles(b) /\ both = BothRoles(k)
  BY <1>3, <1>4 DEF BothRoles
<1>31. Roles(a) \subseteq Nat /\ IsFiniteSet(Roles(a)) /\ Roles(b) \subseteq Nat /\ IsFiniteSet(Roles(b))
  BY <1>3, <1>4, RolesFinite
<1>32. \A S : S \subseteq Roles(a) => S \subseteq Nat /\ IsFiniteSet(S)
  BY <1>31, FS_Subset
<1>33. \A S : S \subseteq Roles(b) => S \subseteq Nat /\ IsFiniteSet(S)
  BY <1>31, FS_Subset
<1>34. PICK A : A = Roles(a) \ both
  OBVIOUS
<1>35. PICK B : B = Roles(b) \ both
  OBVIOUS
<1>6. A = Roles(a) \ both /\ A \subseteq Nat /\ IsFiniteSet(A)
  BY <1>32, <1>34
<1>7. B = Roles(b) \ both /\ B \subseteq Nat /\ IsFiniteSet(B)
  BY <1>33, <1>35
<1>8. both \subseteq Nat /\ IsFiniteSet(both)
  BY <1>5, <1>32
<1> DEFINE X == BuildItems(len)
           R == Turns(X, k)
           f1 == [r \in A |-> OneSided(n, WithRole(a, r), TRUE)]
           f2 == [r \in B |-> OneSided(n, WithRole(b, r), FALSE)]
           f3 == [r \in both |-> RolePairs(n, a, b, r)]
<1>9. PICK t1 : t1 = [i \in DOMAIN Sorted(A) |-> f1[Sorted(A)[i]]]
  OBVIOUS
<1>10. PICK t2 : t2 = [i \in DOMAIN Sorted(B) |-> f2[Sorted(B)[i]]]
  OBVIOUS
<1>11. PICK t3 : t3 = [i \in DOMAIN Sorted(both) |-> f3[Sorted(both)[i]]]
  BY Zenon
<1>12. ASSUME NEW S, S \subseteq Nat, IsFiniteSet(S) PROVE \A i \in DOMAIN Sorted(S) : Sorted(S)[i] \in S
  <2>1. ToSet(Sorted(S)) = S
    BY <1>12, SortedSeq, Zenon
  <2> QED BY <2>1 DEF ToSet
<1>13. p = FlattenSeq(t1) \o FlattenSeq(t2) \o FlattenSeq(t3)
  <2>1. t1 = [i \in DOMAIN Sorted(A) |-> OneSided(n, WithRole(a, Sorted(A)[i]), TRUE)]
    BY <1>6, <1>9, <1>12
  <2>2. t2 = [i \in DOMAIN Sorted(B) |-> OneSided(n, WithRole(b, Sorted(B)[i]), FALSE)]
    BY <1>7, <1>10, <1>12
  <2>3. t3 = [i \in DOMAIN Sorted(both) |-> RolePairs(n, a, b, Sorted(both)[i])]
    BY <1>8, <1>11, <1>12
  <2>4. a = Children(First, w.left) /\ b = Children(Second, w.right)
    BY <1>1, <1>2, <1>3, <1>4
  <2>5. both = Roles(Children(First, w.left)) \cap Roles(Children(Second, w.right))
    BY <1>5, <2>4
  <2> QED BY <1>00, <1>1, <1>6, <1>7, <2>1, <2>2, <2>3, <2>4, <2>5, Zenon DEF PairChildren, ByRole
<1>14. /\ \A r \in A : f1[r] \in Seq(X)
       /\ \A r \in B : f2[r] \in Seq(X)
       /\ \A r \in both : f3[r] \in Seq(X)
  <2>1. \A r : OneSided(n, WithRole(a, r), TRUE) \in Seq(X)
    BY <1>2, <1>3, WithRoleSeq, OneSidedTyped
  <2>2. \A r : OneSided(n, WithRole(b, r), FALSE) \in Seq(X)
    BY <1>2, <1>4, WithRoleSeq, OneSidedTyped
  <2>3. \A r : RolePairs(n, a, b, r) \in Seq(X)
    BY <1>2, <1>3, <1>4, RolePairsTyped
  <2> QED BY <2>1, <2>2, <2>3
<1>15. ASSUME NEW r \in A, NEW x \in ToSet(f1[r])
       PROVE  x.parent = n /\ ~Twofold(PairOf(x)) /\ KeyRole(PairOf(x)) = r
  <2>1. PICK s : s = WithRole(a, r) /\ s \in Seq(Drv) /\ ToSet(s) = {d \in ToSet(a) : DrvRole[d] = r}
    BY <1>3, WithRoleSeq
  <2>2. x \in ToSet(OneSided(n, s, TRUE))
    BY <2>1
  <2>3. s \in Seq(Drv)
    BY <2>1
  <2>4. \A y \in ToSet(OneSided(n, s, TRUE)) :
          y.parent = n /\ ~Twofold(PairOf(y)) /\ \E d \in ToSet(s) : KeyRole(PairOf(y)) = DrvRole[d]
    BY ONLY <2>3, OneSidedItems, ZenonT(120)
  <2> QED BY <2>1, <2>2, <2>4
<1>16. ASSUME NEW r \in B, NEW x \in ToSet(f2[r])
       PROVE  x.parent = n /\ ~Twofold(PairOf(x)) /\ KeyRole(PairOf(x)) = r
  <2>1. PICK s : s = WithRole(b, r) /\ s \in Seq(Drv) /\ ToSet(s) = {d \in ToSet(b) : DrvRole[d] = r}
    BY <1>4, WithRoleSeq
  <2>2. x \in ToSet(OneSided(n, s, FALSE))
    BY <2>1
  <2>3. s \in Seq(Drv)
    BY <2>1
  <2>4. \A y \in ToSet(OneSided(n, s, FALSE)) :
          y.parent = n /\ ~Twofold(PairOf(y)) /\ \E d \in ToSet(s) : KeyRole(PairOf(y)) = DrvRole[d]
    BY ONLY <2>3, OneSidedItems, ZenonT(120)
  <2> QED BY <2>1, <2>2, <2>4
<1>17. ASSUME NEW r \in both
       PROVE  /\ \A x \in ToSet(f3[r]) : x.parent = n /\ PairOf(x) \in Pairs(k, r) /\ KeyRole(PairOf(x)) = r
              /\ \A q \in Pairs(k, r) : \E x \in ToSet(f3[r]) : PairOf(x) = q
              /\ \A i, j \in DOMAIN f3[r] : i < j => f3[r][i].left < f3[r][j].left
  <2>1. PICK o : o = f3[r]
    OBVIOUS
  <2>11. o = RolePairs(n, a, b, r)
    BY <2>1
  <2>12. a \in {Children(1, k[1])} /\ b \in {Children(2, k[2])}
    BY <1>3, <1>4
  <2>13. PairItems(RolePairs(n, a, b, r), n, k, r)
    BY <2>12, RolePairsItems
  <2>2. /\ \A x \in ToSet(o) : x.parent = n /\ PairOf(x) \in Pairs(k, r)
        /\ \A q \in Pairs(k, r) : \E x \in ToSet(o) : PairOf(x) = q
        /\ \A i, j \in DOMAIN o : i < j => o[i].left < o[j].left
    BY <2>11, <2>13 DEF PairItems
  <2>3. \A x \in ToSet(o) : KeyRole(PairOf(x)) = r
    BY <2>2, PairFacts
  <2> QED BY <2>1, <2>2, <2>3
<1>18. \A S \in {A, B} : S \cap both = {}
  BY <1>6, <1>7
<1> HIDE DEF f1, f2, f3, X
<1>19. PICK p1 : p1 = FlattenSeq(t1) /\ p1 \in Seq(X) /\ ToSet(p1) = UNION {ToSet(f1[r]) : r \in A}
  <2>1. A \subseteq Nat /\ IsFiniteSet(A)
    BY <1>6
  <2>2. \A r \in A : f1[r] \in Seq(X)
    BY <1>14
  <2>3. t1 = [i \in DOMAIN Sorted(A) |-> f1[Sorted(A)[i]]]
    BY <1>9
  <2>4. FlattenSeq(t1) \in Seq(X) /\ ToSet(FlattenSeq(t1)) = UNION {ToSet(f1[r]) : r \in A}
    BY ONLY <2>1, <2>2, <2>3, ByRoleSeq
  <2> QED BY <2>4
<1>20. PICK p2 : p2 = FlattenSeq(t2) /\ p2 \in Seq(X) /\ ToSet(p2) = UNION {ToSet(f2[r]) : r \in B}
  <2>1. B \subseteq Nat /\ IsFiniteSet(B)
    BY <1>7
  <2>2. \A r \in B : f2[r] \in Seq(X)
    BY <1>14
  <2>3. t2 = [i \in DOMAIN Sorted(B) |-> f2[Sorted(B)[i]]]
    BY <1>10
  <2>4. FlattenSeq(t2) \in Seq(X) /\ ToSet(FlattenSeq(t2)) = UNION {ToSet(f2[r]) : r \in B}
    BY ONLY <2>1, <2>2, <2>3, ByRoleSeq
  <2> QED BY <2>4
<1>21. PICK p3 : p3 = FlattenSeq(t3) /\ p3 \in Seq(X) /\ ToSet(p3) = UNION {ToSet(f3[r]) : r \in both}
  <2>1. both \subseteq Nat /\ IsFiniteSet(both)
    BY <1>8
  <2>2. \A r \in both : f3[r] \in Seq(X)
    BY <1>14
  <2>3. t3 = [i \in DOMAIN Sorted(both) |-> f3[Sorted(both)[i]]]
    BY <1>11
  <2>4. FlattenSeq(t3) \in Seq(X) /\ ToSet(FlattenSeq(t3)) = UNION {ToSet(f3[r]) : r \in both}
    BY ONLY <2>1, <2>2, <2>3, ByRoleSeq
  <2> QED BY <2>4
<1>22. PICK p12 : p12 = p1 \o p2 /\ p12 \in Seq(X) /\ ToSet(p12) = ToSet(p1) \cup ToSet(p2)
  <2>1. p1 \in Seq(X) /\ p2 \in Seq(X)
    BY <1>19, <1>20
  <2>2. p1 \o p2 \in Seq(X) /\ ToSet(p1 \o p2) = ToSet(p1) \cup ToSet(p2)
    BY ONLY <2>1, ToSetConcat
  <2> QED BY <2>2
<1>23. p = p12 \o p3 /\ ToSet(p) = ToSet(p12) \cup ToSet(p3)
  <2>0. p12 \in Seq(X) /\ p3 \in Seq(X)
    BY <1>21, <1>22
  <2>1. p = p12 \o p3
    BY <1>13, <1>19, <1>20, <1>21, <1>22
  <2>2. p12 \o p3 \in Seq(X) /\ ToSet(p12 \o p3) = ToSet(p12) \cup ToSet(p3)
    BY ONLY <2>0, ToSetConcat
  <2> QED BY <2>1, <2>2
<1>24. ASSUME NEW x \in ToSet(p12) PROVE x.parent = n /\ ~Twofold(PairOf(x)) /\ KeyRole(PairOf(x)) \notin both /\ x \in X
  <2>0. x \in X
    BY <1>22, ToSetFinite
  <2>1. CASE x \in ToSet(p1)
    <3>1. PICK r \in A : x \in ToSet(f1[r])
      BY <1>19, <2>1
    <3> QED BY <1>15, <1>18, <2>0, <3>1
  <2>2. CASE x \in ToSet(p2)
    <3>1. PICK r \in B : x \in ToSet(f2[r])
      BY <1>20, <2>2
    <3> QED BY <1>16, <1>18, <2>0, <3>1
  <2> QED BY <1>22, <2>1, <2>2
<1>25. ASSUME NEW x \in ToSet(p3)
       PROVE  x.parent = n /\ KeyRole(PairOf(x)) \in both /\ PairOf(x) \in Pairs(k, KeyRole(PairOf(x))) /\ x \in X
  <2>0. x \in X
    BY <1>21, ToSetFinite
  <2>1. PICK r \in both : x \in ToSet(f3[r])
    BY <1>21
  <2> QED BY <1>17, <2>0, <2>1
<1>26. ASSUME NEW r \in BothRoles(k), NEW q \in Pairs(k, r) PROVE \E x \in ToSet(p) : PairOf(x) = q
  <2>1. r \in both
    BY <1>5
  <2>2. PICK x \in ToSet(f3[r]) : PairOf(x) = q
    BY <1>17, <2>1
  <2> QED BY <1>21, <1>23, <2>1, <2>2
<1>27. Pairwise(p12, R)
  <2>1. ASSUME NEW i \in DOMAIN p12, NEW j \in DOMAIN p12, i < j PROVE <<p12[i], p12[j]>> \in R
    <3>1. p12[i] \in ToSet(p12) /\ p12[j] \in ToSet(p12)
      BY DEF ToSet
    <3> QED BY <1>5, <1>24, <3>1 DEF Turns
  <2> QED BY <2>1 DEF Pairwise
<1>28. \A x \in ToSet(p12), y \in ToSet(p3) : <<x, y>> \in R
  BY <1>5, <1>24, <1>25 DEF Turns
<1>29. Pairwise(p3, R)
  <2>1. ASSUME NEW r \in both PROVE Pairwise(f3[r], R)
    <3>0. ToSet(f3[r]) \subseteq X
      BY <1>14, ToSetFinite
    <3>1. ASSUME NEW i \in DOMAIN f3[r], NEW j \in DOMAIN f3[r], i < j PROVE <<f3[r][i], f3[r][j]>> \in R
      <4>1. f3[r][i] \in X /\ f3[r][j] \in X
        BY <3>0 DEF ToSet
      <4>2. f3[r][i].left < f3[r][j].left
        BY <1>17, <3>1
      <4> QED BY <4>1, <4>2 DEF Turns
    <3> QED BY <3>1 DEF Pairwise
  <2>2. ASSUME NEW r \in both, NEW q \in both, r # q, NEW x \in ToSet(f3[r]), NEW y \in ToSet(f3[q]) PROVE <<x, y>> \in R
    <3>1. KeyRole(PairOf(x)) = r /\ KeyRole(PairOf(y)) = q
      BY <1>17
    <3>2. x \in X /\ y \in X
      BY <1>14, ToSetFinite
    <3> QED BY <2>2, <3>1, <3>2 DEF Turns
  <2> HIDE DEF R
  <2>3. Pairwise(FlattenSeq(t3), R)
    BY <1>8, <1>11, <1>14, <2>1, <2>2, PairwiseByRole, ZenonT(120)
  <2> QED BY <1>21, <2>3
<1>30. Pairwise(p, R)
  <2> HIDE DEF R
  <2> QED BY <1>21, <1>22, <1>23, <1>27, <1>28, <1>29, PairwiseConcat
<1>36. \A x \in ToSet(p) :
       /\ x.parent = n
       /\ Twofold(PairOf(x)) \/ KeyRole(PairOf(x)) \in BothRoles(k)
            => KeyRole(PairOf(x)) \in BothRoles(k) /\ PairOf(x) \in Pairs(k, KeyRole(PairOf(x)))
  BY <1>5, <1>23, <1>24, <1>25
<1> QED BY ONLY <1>0, <1>00, <1>26, <1>30, <1>36 DEF X, R, Split

\* What is walked below anything else are no pairs.
LEMMA OtherItems ==
  ASSUME TwoTrees, First = 1, Second = 2, ~Alone, NEW len \in Nat, NEW n \in 0..len, NEW w \in BuildItems(len),
         ~Twofold(PairOf(w))
  PROVE  \A x \in ToSet(PairChildren(n, w)) : x.parent = n /\ ~Twofold(PairOf(x))
<1>0. PICK p : p = PairChildren(n, w)
  OBVIOUS
<1> DEFINE a == IF w.left = Nothing THEN <<>> ELSE Children(First, w.left)
           b == IF w.right = Nothing THEN <<>> ELSE Children(Second, w.right)
           shared == IF a # <<>> THEN a ELSE b
<1>1. w.left \in Derivation /\ w.right \in Derivation /\ (w.left # Nothing \/ w.right # Nothing)
  BY DEF BuildItems
<1>2. a \in Seq(Drv) /\ b \in Seq(Drv)
  BY <1>1, ChildrenSeq DEF Derivation, TwoTrees
<1>3. w.right = Nothing \/ w.left = Nothing \/ w.left = w.right
  <2>1. Len(PairOf(w)) = 2 /\ PairOf(w)[1] = w.left /\ PairOf(w)[2] = w.right /\ ToSet(PairOf(w)) = {w.left, w.right}
    <3>1. ToSet(<<w.left, w.right>>) = {w.left, w.right}
      BY DEF ToSet
    <3> QED BY <3>1 DEF PairOf
  <2> QED BY <2>1 DEF Twofold
<1>4. CASE w.right = Nothing
  <2>1. p = OneSided(n, a, TRUE)
    BY <1>0, <1>1, <1>4 DEF PairChildren
  <2> HIDE DEF a
  <2>2. a \in Seq(Drv)
    BY <1>2
  <2>3. \A x \in ToSet(OneSided(n, a, TRUE)) : x.parent = n /\ ~Twofold(PairOf(x))
    BY ONLY <2>2, OneSidedItems, ZenonT(60)
  <2> QED BY <1>0, <2>1, <2>3
<1>5. CASE w.right # Nothing /\ w.left = Nothing
  <2>1. p = OneSided(n, b, FALSE)
    BY <1>0, <1>5 DEF PairChildren
  <2> HIDE DEF b
  <2>2. b \in Seq(Drv)
    BY <1>2
  <2>3. \A x \in ToSet(OneSided(n, b, FALSE)) : x.parent = n /\ ~Twofold(PairOf(x))
    BY ONLY <2>2, OneSidedItems
  <2> QED BY <1>0, <2>1, <2>3
<1>6. CASE w.right # Nothing /\ w.left # Nothing /\ w.left = w.right
  <2>1. p = [i \in DOMAIN shared |-> [parent |-> n, left |-> shared[i], right |-> shared[i]]]
    BY <1>0, <1>6 DEF PairChildren
  <2> HIDE DEF shared
  <2>2. ASSUME NEW i \in DOMAIN shared PROVE p[i].parent = n /\ ~Twofold(PairOf(p[i]))
    <3>1. p[i] = [parent |-> n, left |-> shared[i], right |-> shared[i]]
      BY <2>1
    <3>2. PairOf(p[i])[1] = shared[i] /\ PairOf(p[i])[2] = shared[i]
      BY <3>1 DEF PairOf
    <3> QED BY <3>1, <3>2 DEF Twofold
  <2>3. DOMAIN p = DOMAIN shared
    BY <2>1
  <2> QED BY <1>0, <2>2, <2>3 DEF ToSet
<1> QED BY <1>3, <1>4, <1>5, <1>6

\* A node without children is added: what was paired stays so.
LEMMA BuildAppend ==
  ASSUME NEW ns, Wellformed(ns), NEW e \in NodeRecord, e.children = <<>>, PairedTemplate(ns)
  PROVE  LET ms == Append(ns, e) IN
         /\ PairedTemplate(ms)
         /\ \A x : x.parent \in 0..Len(ns) /\ ItemPaired(ns, x) => ItemPaired(ms, x)
         /\ \A x, y : x.parent \in 0..Len(ns) /\ InTurn(ns, x, y) => InTurn(ms, x, y)
         /\ \A n \in DOMAIN ns : \A r, k : HasPair(ns, n, r, k) => HasPair(ms, n, r, k)
<1>1. PICK ms : ms = Append(ns, e)
  OBVIOUS
<1>2. PICK len \in Nat : len = Len(ns) /\ DOMAIN ns = 1..len
  BY WellformedIs
<1>3. ToSet(e.children) = {}
  BY DEF ToSet
<1>4. Wellformed(ms) /\ Len(ms) = len + 1 /\ ms[len + 1] = e /\ \A k \in 1..len : ms[k] = ns[k]
  <2>1. ToSet(e.children) \subseteq 1..(Len(ns) + 1)
    BY <1>3
  <2>2. Wellformed(ms) /\ Len(ms) = Len(ns) + 1
    BY <1>1, <2>1, AppendNode
  <2>3. ms[Len(ns) + 1] = e /\ \A k \in DOMAIN ns : ms[k] = ns[k]
    <3>1. ns \in Seq(NodeRecord)
      BY DEF Wellformed
    <3> QED BY ONLY <1>1, <1>2, <3>1, e \in NodeRecord
  <2> QED BY ONLY <1>2, <2>2, <2>3
<1>5. DOMAIN ms = 1..(len + 1)
  BY <1>4, WellformedIs
<1>6. \A n \in 1..len : ToSet(ns[n].children) \subseteq 1..len
  BY <1>2 DEF Wellformed
<1>7. \A n \in 1..len : Alike(ns, ms, ToSet(ns[n].children))
  BY <1>4, <1>6 DEF Alike
<1>8. PairedTemplate(ms)
  <2>1. ASSUME NEW n \in 1..(len + 1) PROVE PairsAt(ms, n)
    <3>1. CASE n = len + 1
      <4>1. ms[n].children = <<>>
        BY <1>4, <3>1
      <4> QED BY <4>1, PairsNone
    <3>2. CASE n # len + 1
      <4>1. n \in 1..len
        BY <3>2
      <4>2. PairsAt(ns, n)
        BY <1>2, <4>1 DEF PairedTemplate
      <4>3. ms[n] = ns[n] /\ Alike(ns, ms, ToSet(ns[n].children))
        BY <1>4, <1>7, <4>1
      <4>4. ms[n].key = ns[n].key /\ ms[n].stop = ns[n].stop /\ ms[n].children = ns[n].children
        BY <4>3
      <4> QED BY ONLY <4>2, <4>3, <4>4, PairsSame
    <3> QED BY <3>1, <3>2
  <2> QED BY <1>5, <2>1 DEF PairedTemplate
<1>9. \A n \in 1..len : \A r : Shared(ms, n, r) <=> Shared(ns, n, r)
  BY <1>4 DEF Shared, Splitting
<1>10. ASSUME NEW x, x.parent \in 0..len
       PROVE  /\ SharedItem(ms, x) <=> SharedItem(ns, x)
              /\ x.parent # Nothing => x.parent \in 1..len
  BY <1>9, <1>10 DEF SharedItem, Nothing
<1>11. ASSUME NEW x, x.parent \in 0..len, ItemPaired(ns, x) PROVE ItemPaired(ms, x)
  <2>1. CASE ~SharedItem(ns, x)
    BY <1>10, <1>11, <2>1 DEF ItemPaired
  <2>2. CASE SharedItem(ns, x)
    <3>1. x.parent \in 1..len
      BY <1>10, <1>11, <2>2 DEF SharedItem
    <3>2. ms[x.parent] = ns[x.parent] /\ \A c \in ToSet(ns[x.parent].children) : ms[c] = ns[c]
      BY <1>4, <1>6, <3>1
    <3> QED BY <1>10, <1>11, <2>2, <3>2 DEF ItemPaired
  <2> QED BY <2>1, <2>2
<1>12. ASSUME NEW x, NEW y, x.parent \in 0..len, InTurn(ns, x, y) PROVE InTurn(ms, x, y)
  BY <1>10, <1>12 DEF InTurn
<1>13. ASSUME NEW n \in 1..len, NEW r, NEW k, HasPair(ns, n, r, k) PROVE HasPair(ms, n, r, k)
  <2>1. ms[n].children = ns[n].children
    BY <1>4
  <2> QED BY <1>7, <1>13, <2>1 DEF HasPair, Alike
<1> QED BY ONLY <1>1, <1>2, <1>8, <1>11, <1>12, <1>13

\* The next item gives its parent the child n, unless it has it already.
LEMMA BuildChild ==
  ASSUME NEW ns, Wellformed(ns), PairedTemplate(ns), \A n \in DOMAIN ns : ns[n].role = KeyRole(ns[n].key),
         NEW w, w.parent \in DOMAIN ns, ItemPaired(ns, w), NEW n \in DOMAIN ns, ns[n].key = PairOf(w)
  PROVE  LET ms == WithChild(ns, w.parent, n) IN
         /\ PairedTemplate(ms) /\ DOMAIN ms = DOMAIN ns
         /\ \A k \in DOMAIN ns : ms[k].key = ns[k].key /\ ms[k].role = ns[k].role /\ ms[k].stop = ns[k].stop
         /\ \A x : x.parent \in 0..Len(ns) /\ ItemPaired(ns, x) /\ InTurn(ns, w, x) => ItemPaired(ms, x)
         /\ \A x, y : x.parent \in 0..Len(ns) /\ InTurn(ns, x, y) => InTurn(ms, x, y)
         /\ \A m \in DOMAIN ns : \A r, k : HasPair(ns, m, r, k) => HasPair(ms, m, r, k)
         /\ HasPair(ms, w.parent, KeyRole(PairOf(w)), PairOf(w))
<1>1. PICK ms : ms = WithChild(ns, w.parent, n)
  OBVIOUS
<1>2. PICK len \in Nat : len = Len(ns) /\ DOMAIN ns = 1..len /\ ns \in [1..len -> NodeRecord]
  BY WellformedIs
<1>3. PICK q : q = w.parent /\ q \in 1..len
  BY <1>2
<1>4. PICK kids \in Seq(Nat) : kids = ns[q].children
  <2>1. q \in DOMAIN ns
    BY <1>2, <1>3
  <2>2. ns[q].children \in Seq(Nat)
    BY <2>1, NodeFields
  <2> QED BY <2>2
<1>5. \A m \in 1..len : ToSet(ns[m].children) \subseteq 1..len
  BY <1>2 DEF Wellformed
<1>6. PICK r : r = KeyRole(PairOf(w))
  OBVIOUS
<1>7. ns[n].role = r /\ n \in 1..len /\ n \in Nat /\ ns[n].key[1] = w.left
  <2>1. ns[n].role = KeyRole(ns[n].key)
    OBVIOUS
  <2>2. KeyRole(ns[n].key) = r
    BY <1>6
  <2>3. ns[n].key[1] = w.left
    BY DEF PairOf
  <2> QED BY ONLY <1>2, <2>1, <2>2, <2>3, n \in DOMAIN ns
<1>8. CASE n \in ToSet(kids)
  <2>1. ms = ns
    BY <1>1, <1>3, <1>4, <1>8 DEF WithChild
  <2>2. HasPair(ns, q, r, PairOf(w))
    BY <1>4, <1>7, <1>8 DEF HasPair
  <2>3. ASSUME NEW x, ItemPaired(ns, x) PROVE ItemPaired(ms, x)
    BY <2>1, <2>3
  <2>4. ASSUME NEW x, NEW y, InTurn(ns, x, y) PROVE InTurn(ms, x, y)
    BY <2>1, <2>4
  <2> QED BY ONLY <1>1, <1>3, <1>6, <2>1, <2>2, <2>3, <2>4, PairedTemplate(ns)
<1>9. CASE n \notin ToSet(kids)
  <2>1. ms = [ns EXCEPT ![q].children = Append(kids, n)]
    <3>1. q # Nothing
      BY <1>3 DEF Nothing
    <3> QED BY <1>1, <1>3, <1>4, <1>9, <3>1 DEF WithChild
  <2>2. /\ DOMAIN ms = 1..len
        /\ \A k \in 1..len : /\ ms[k].key = ns[k].key /\ ms[k].role = ns[k].role /\ ms[k].stop = ns[k].stop
                             /\ ms[k].children = IF k = q THEN Append(kids, n) ELSE ns[k].children
    BY <1>2, <1>3, <2>1, ZenonT(120) DEF NodeRecord
  <2>3. ToSet(Append(kids, n)) = ToSet(kids) \cup {n}
    BY <1>7, ToSetAppend
  <2>4. \A k \in 1..len : Alike(ns, ms, ToSet(ns[k].children))
    BY <1>5, <2>2 DEF Alike
  <2>5. \A k \in 1..len : \A s : Shared(ms, k, s) <=> Shared(ns, k, s)
    BY <2>2 DEF Shared, Splitting
  <2>6. \A x : x.parent \in 0..len => (SharedItem(ms, x) <=> SharedItem(ns, x))
    BY <2>5 DEF SharedItem, Nothing
  <2>7. SharedItem(ns, w) <=> Shared(ns, q, r)
    BY <1>3, <1>6 DEF SharedItem, Nothing
  <2>8. PairedTemplate(ms)
    <3>1. ASSUME NEW k \in 1..len, k # q PROVE PairsAt(ms, k)
      <4>1. PairsAt(ns, k)
        BY <1>2 DEF PairedTemplate
      <4>2. ms[k].key = ns[k].key /\ ms[k].stop = ns[k].stop /\ ms[k].children = ns[k].children
        BY <2>2, <3>1
      <4>3. Alike(ns, ms, ToSet(ns[k].children))
        BY <2>4
      <4> QED BY ONLY <4>1, <4>2, <4>3, PairsSame
    <3>2. PairsAt(ms, q)
      <4>1. PairsAt(ns, q)
        BY <1>2, <1>3 DEF PairedTemplate
      <4>2. ms[q].key = ns[q].key /\ ms[q].stop = ns[q].stop /\ ms[q].children = Append(kids, n)
        BY <1>3, <2>2
      <4>3. Alike(ns, ms, ToSet(kids))
        BY <1>3, <1>4, <2>4
      <4>4. ms[n].key = PairOf(w) /\ ms[n].role = r
        BY <1>7, <2>2
      <4>5. Twofold(ms[n].key) => Shared(ms, q, ms[n].role)
        BY <1>3, <2>5, <2>7, <4>4 DEF ItemPaired, Nothing
      <4>6. Shared(ms, q, ms[n].role) => ms[n].key \in Pairs(ms[q].key, ms[n].role)
        BY <1>3, <1>6, <2>5, <2>7, <4>2, <4>4 DEF ItemPaired
      <4>7. Shared(ms, q, ms[n].role) => \A e \in ToSet(kids) : ms[e].role = ms[n].role => ms[e].key[1] < ms[n].key[1]
        <5>1. SUFFICES ASSUME Shared(ns, q, r), NEW e \in ToSet(kids), ms[e].role = r
              PROVE  ms[e].key[1] < ms[n].key[1]
          BY <1>3, <2>5, <4>4
        <5>2. ms[e].key = ns[e].key /\ ns[e].role = r
          BY <4>3, <5>1 DEF Alike
        <5>3. ns[e].key[1] < w.left
          BY <1>3, <1>4, <1>6, <2>7, <5>1, <5>2 DEF ItemPaired
        <5> QED BY <4>4, <5>2, <5>3 DEF PairOf
      <4>8. kids = ns[q].children /\ n \in Nat /\ n \notin ToSet(kids) /\ kids \in Seq(Nat)
        BY <1>4, <1>7, <1>9
      <4> QED BY ONLY <4>1, <4>2, <4>3, <4>5, <4>6, <4>7, <4>8, PairsAdd
    <3> QED BY <2>2, <3>1, <3>2 DEF PairedTemplate
  <2>9. ASSUME NEW x, x.parent \in 0..len, ItemPaired(ns, x), InTurn(ns, w, x) PROVE ItemPaired(ms, x)
    <3>1. CASE ~SharedItem(ns, x)
      BY <2>6, <2>9, <3>1 DEF ItemPaired
    <3>2. CASE SharedItem(ns, x)
      <4>1. PICK s : s = KeyRole(PairOf(x))
        OBVIOUS
      <4>2. PICK p : p = x.parent /\ p \in 1..len /\ p # Nothing
        BY <2>9, <3>2 DEF SharedItem, Nothing
      <4>3. PairOf(x) \in Pairs(ms[p].key, s)
        BY <2>2, <2>9, <3>2, <4>1, <4>2 DEF ItemPaired
      <4>4. ASSUME NEW c \in ToSet(ms[p].children), ms[c].role = s PROVE ms[c].key[1] < x.left
        <5>1. c \in ToSet(ns[p].children) \/ (p = q /\ c = n)
          BY <1>4, <2>2, <2>3, <4>2, <4>4
        <5>2. CASE c \in ToSet(ns[p].children)
          <6>1. ms[c].key = ns[c].key /\ ns[c].role = s
            BY <2>4, <4>2, <4>4, <5>2 DEF Alike
          <6> QED BY <2>9, <3>2, <4>1, <4>2, <5>2, <6>1 DEF ItemPaired
        <5>3. CASE p = q /\ c = n
          <6>1. ms[c].key = ns[n].key /\ s = r
            BY <1>7, <2>2, <4>4, <5>3
          <6>2. w.parent = x.parent /\ KeyRole(PairOf(w)) = KeyRole(PairOf(x)) /\ SharedItem(ns, w)
            <7>1. Shared(ns, p, s)
              BY <3>2, <4>1, <4>2 DEF SharedItem
            <7> QED BY <1>3, <1>6, <2>7, <4>1, <4>2, <5>3, <6>1, <7>1
          <6> QED BY <1>7, <2>9, <6>1, <6>2 DEF InTurn
        <5> QED BY <5>1, <5>2, <5>3
      <4> QED BY <2>6, <2>9, <3>2, <4>1, <4>2, <4>3, <4>4 DEF ItemPaired
    <3> QED BY <3>1, <3>2
  <2>10. ASSUME NEW x, NEW y, x.parent \in 0..len, InTurn(ns, x, y) PROVE InTurn(ms, x, y)
    BY <2>6, <2>10 DEF InTurn
  <2>11. ASSUME NEW m \in 1..len, NEW s, NEW k, HasPair(ns, m, s, k) PROVE HasPair(ms, m, s, k)
    <3>1. PICK c \in ToSet(ns[m].children) : ns[c].key = k /\ ns[c].role = s
      BY <2>11 DEF HasPair
    <3>2. c \in ToSet(ms[m].children)
      BY <1>4, <2>2, <2>3, <3>1
    <3>3. ms[c].key = k /\ ms[c].role = s
      BY <2>4, <3>1 DEF Alike
    <3> QED BY <3>2, <3>3 DEF HasPair
  <2>12. HasPair(ms, q, r, PairOf(w))
    <3>1. n \in ToSet(ms[q].children)
      BY <1>3, <2>2, <2>3
    <3>2. ms[n].key = PairOf(w) /\ ms[n].role = r
      BY <1>7, <2>2
    <3> QED BY <3>1, <3>2 DEF HasPair
  <2> QED BY ONLY <1>1, <1>2, <1>3, <1>6, <2>2, <2>8, <2>9, <2>10, <2>11, <2>12
<1> QED BY <1>8, <1>9

\* Items in their order, as a relation.
TurnSet(ns, X) == {e \in X \X X : InTurn(ns, e[1], e[2])}

LEMMA TurnsPairwise ==
  ASSUME NEW ns, NEW X, NEW s \in Seq(X)
  PROVE  Pairwise(s, TurnSet(ns, X)) <=> \A i, j \in DOMAIN s : i < j => InTurn(ns, s[i], s[j])
<1>1. \A i \in DOMAIN s : s[i] \in X
  OBVIOUS
<1>2. \A i, j \in DOMAIN s : <<s[i], s[j]>> \in TurnSet(ns, X) <=> InTurn(ns, s[i], s[j])
  <2>1. \A x, y \in X : <<x, y>> \in TurnSet(ns, X) <=> InTurn(ns, x, y)
    BY DEF TurnSet
  <2> QED BY <1>1, <2>1
<1> QED BY <1>2 DEF Pairwise

\* What is walked below a new node at which walks do not end.
NewItems(gs, n, p, X) ==
  /\ \A x \in ToSet(p) : x.parent = n /\ ItemPaired(gs, x)
  /\ Pairwise(p, TurnSet(gs, X))
  /\ Splitting(gs, n) => \A r \in BothRoles(gs[n].key) : \A k \in Pairs(gs[n].key, r) :
                           \E x \in ToSet(p) : x.parent = n /\ PairOf(x) = k

LEMMA NewItemsPaired ==
  ASSUME TwoTrees, First = 1, Second = 2, ~Alone, NEW len \in Nat, NEW n \in 1..len, NEW w \in BuildItems(len),
         NEW gs, gs[n].key = PairOf(w), gs[n].children = <<>>, ~gs[n].stop
  PROVE  NewItems(gs, n, PairChildren(n, w), BuildItems(len))
<1>1. PICK p : p = PairChildren(n, w)
  OBVIOUS
<1>2. PICK k : k = PairOf(w) /\ k = gs[n].key
  OBVIOUS
<1>3. n \in 0..len /\ n # Nothing
  BY DEF Nothing
<1>4. p \in Seq(BuildItems(len))
  BY <1>1, <1>3, PairChildrenTyped DEF TwoTrees
<1>5. PICK X : X = BuildItems(len)
  OBVIOUS
<1>6. \A i \in DOMAIN p : p[i] \in ToSet(p) /\ p[i] \in X
  BY <1>4, <1>5 DEF ToSet
<1>7. \A r : Shared(gs, n, r) <=> Twofold(k) /\ r \in BothRoles(k)
  BY <1>2 DEF Shared, Splitting
<1>8. Splitting(gs, n) <=> Twofold(k)
  BY <1>2 DEF Splitting
<1>9. \A x : x.parent = n => (SharedItem(gs, x) <=> Twofold(k) /\ KeyRole(PairOf(x)) \in BothRoles(k))
  BY <1>3, <1>7 DEF SharedItem
<1>10. ToSet(gs[n].children) = {}
  BY DEF ToSet
<1>11. CASE Twofold(k)
  <2>1. Split(p, n, k, len)
    <3>1. Twofold(PairOf(w))
      BY <1>2, <1>11
    <3>2. n \in 0..len
      BY <1>3
    <3>3. Split(PairChildren(n, w), n, PairOf(w), len)
      BY <3>1, <3>2, SplitItems
    <3> QED BY <1>1, <1>2, <3>3
  <2>2. ASSUME NEW x \in ToSet(p)
        PROVE  /\ x.parent = n
               /\ Twofold(PairOf(x)) \/ KeyRole(PairOf(x)) \in BothRoles(k)
                    => KeyRole(PairOf(x)) \in BothRoles(k) /\ PairOf(x) \in Pairs(k, KeyRole(PairOf(x)))
    BY <2>1 DEF Split
  <2>3. ASSUME NEW x \in ToSet(p) PROVE x.parent = n /\ ItemPaired(gs, x)
    <3>1. x.parent = n
      BY <2>2
    <3>2. SharedItem(gs, x) <=> KeyRole(PairOf(x)) \in BothRoles(k)
      BY <1>9, <1>11, <3>1
    <3> QED BY <1>2, <1>10, <2>2, <3>1, <3>2 DEF ItemPaired
  <2>4. ASSUME NEW i \in DOMAIN p, NEW j \in DOMAIN p, i < j PROVE InTurn(gs, p[i], p[j])
    <3>1. <<p[i], p[j]>> \in Turns(X, k)
      BY <1>5, <2>1, <2>4 DEF Split, Pairwise
    <3>2. p[i] \in X /\ p[j] \in X /\ p[i].parent = n
      BY <1>6, <2>3
    <3>3. KeyRole(PairOf(p[i])) = KeyRole(PairOf(p[j])) /\ KeyRole(PairOf(p[i])) \in BothRoles(k) => p[i].left < p[j].left
      BY <3>1, <3>2 DEF Turns
    <3>4. SharedItem(gs, p[i]) => KeyRole(PairOf(p[i])) \in BothRoles(k)
      BY <1>9, <3>2
    <3> QED BY <3>3, <3>4 DEF InTurn
  <2>5. Pairwise(p, TurnSet(gs, X))
    BY <1>4, <1>5, <2>4, TurnsPairwise
  <2>6. ASSUME NEW r \in BothRoles(k), NEW q \in Pairs(k, r) PROVE \E x \in ToSet(p) : x.parent = n /\ PairOf(x) = q
    BY <2>1, <2>2 DEF Split
  <2> QED BY ONLY <1>1, <1>2, <1>5, <2>3, <2>5, <2>6 DEF NewItems
<1>12. CASE ~Twofold(k)
  <2>1. ASSUME NEW x \in ToSet(p) PROVE x.parent = n /\ ~Twofold(PairOf(x))
    <3>1. ~Twofold(PairOf(w)) /\ n \in 0..len
      BY <1>2, <1>3, <1>12
    <3> QED BY <1>1, <3>1, OtherItems
  <2>2. ASSUME NEW x \in ToSet(p) PROVE x.parent = n /\ ~SharedItem(gs, x) /\ ItemPaired(gs, x)
    BY <1>9, <1>12, <2>1 DEF ItemPaired
  <2>3. ASSUME NEW i \in DOMAIN p, NEW j \in DOMAIN p, i < j PROVE InTurn(gs, p[i], p[j])
    BY <1>6, <2>2 DEF InTurn
  <2>4. Pairwise(p, TurnSet(gs, X))
    BY <1>4, <1>5, <2>3, TurnsPairwise
  <2> QED BY ONLY <1>1, <1>2, <1>5, <1>8, <1>12, <2>2, <2>4 DEF NewItems
<1> QED BY <1>11, <1>12

\* The pairs are all there, or to be walked, or the next.
PairsDue(ns, ws, w) ==
  \A n \in DOMAIN ns : Splitting(ns, n) =>
    \A r \in BothRoles(ns[n].key) : \A k \in Pairs(ns[n].key, r) :
      \/ HasPair(ns, n, r, k) \/ (n = w.parent /\ k = PairOf(w))
      \/ \E x \in ToSet(ws) : x.parent = n /\ PairOf(x) = k

\* The next item gives its parent a child, and vs is what remains to be walked.
LEMMA ChildPaired ==
  ASSUME TwoTrees, NEW ns, Wellformed(ns), PairedTemplate(ns), \A n \in DOMAIN ns : ns[n].role = KeyRole(ns[n].key),
         ns[1].key = RootPair,
         NEW w, w.parent \in DOMAIN ns, ItemPaired(ns, w), NEW n \in DOMAIN ns, ns[n].key = PairOf(w),
         NEW X, \A x \in X : x.parent \in 0..Len(ns),
         NEW vs \in Seq(X), \A x \in ToSet(vs) : x.parent # Nothing /\ ItemPaired(ns, x) /\ InTurn(ns, w, x),
         Pairwise(vs, TurnSet(ns, X)), PairsDue(ns, vs, w)
  PROVE  BuildPairs(WithChild(ns, w.parent, n), vs)
<1>1. PICK ms : ms = WithChild(ns, w.parent, n)
  OBVIOUS
<1>2. /\ PairedTemplate(ms) /\ DOMAIN ms = DOMAIN ns
      /\ \A k \in DOMAIN ns : ms[k].key = ns[k].key /\ ms[k].role = ns[k].role /\ ms[k].stop = ns[k].stop
  BY <1>1, BuildChild
<1>3. \A x : x.parent \in 0..Len(ns) /\ ItemPaired(ns, x) /\ InTurn(ns, w, x) => ItemPaired(ms, x)
  BY <1>1, BuildChild
<1>4. \A x, y : x.parent \in 0..Len(ns) /\ InTurn(ns, x, y) => InTurn(ms, x, y)
  BY <1>1, BuildChild
<1>5. /\ \A m \in DOMAIN ns : \A r, k : HasPair(ns, m, r, k) => HasPair(ms, m, r, k)
      /\ HasPair(ms, w.parent, KeyRole(PairOf(w)), PairOf(w))
  BY <1>1, BuildChild
<1>6. \A x \in ToSet(vs) : x \in X /\ x.parent \in 0..Len(ns)
  BY ToSetFinite
<1>7. \A n_1 \in DOMAIN ms : ms[n_1].role = KeyRole(ms[n_1].key)
  BY <1>2
<1>8. ms # <<>> /\ ms[1].key = RootPair
  <2>1. DOMAIN ns = 1..Len(ns) /\ Len(ns) \in Nat
    BY WellformedIs
  <2>2. 1 \in DOMAIN ns
    BY <2>1
  <2>3. ms # <<>>
    BY <1>2, <2>2
  <2> QED BY <1>2, <2>2, <2>3
<1>9. \A x \in ToSet(vs) : x.parent # Nothing /\ ItemPaired(ms, x)
  BY <1>3, <1>6
<1>10. ASSUME NEW i \in DOMAIN vs, NEW j \in DOMAIN vs, i < j PROVE InTurn(ms, vs[i], vs[j])
  <2>1. InTurn(ns, vs[i], vs[j])
    BY <1>10, TurnsPairwise
  <2>2. vs[i] \in ToSet(vs)
    BY DEF ToSet
  <2> QED BY <1>4, <1>6, <2>1, <2>2
<1>11. ASSUME NEW m \in DOMAIN ms, Splitting(ms, m), NEW r \in BothRoles(ms[m].key), NEW k \in Pairs(ms[m].key, r)
       PROVE  HasPair(ms, m, r, k) \/ \E x \in ToSet(vs) : x.parent = m /\ PairOf(x) = k
  <2>1. m \in DOMAIN ns /\ Splitting(ns, m) /\ r \in BothRoles(ns[m].key) /\ k \in Pairs(ns[m].key, r)
    BY <1>2, <1>11 DEF Splitting
  <2>2. \/ HasPair(ns, m, r, k) \/ (m = w.parent /\ k = PairOf(w))
        \/ \E x \in ToSet(vs) : x.parent = m /\ PairOf(x) = k
    BY <2>1 DEF PairsDue
  <2>3. KeyRole(k) = r
    BY <2>1, PairFacts
  <2> QED BY <1>5, <2>1, <2>2, <2>3
<1>12. ms = <<>> => vs = <<[parent |-> Nothing, left |-> roots[1], right |-> roots[2]]>>
  BY <1>8
<1> HIDE DEF Splitting
<1> QED BY ONLY <1>1, <1>2, <1>7, <1>8, <1>9, <1>10, <1>11, <1>12 DEF BuildPairs

\* The work of the builder, as its head and its tail.
LEMMA HeadTail ==
  ASSUME NEW X, NEW ns, NEW ws \in Seq(X), ws # <<>>, NEW w, w = Head(ws), BuildPairs(ns, ws)
  PROVE  /\ Tail(ws) \in Seq(X) /\ Pairwise(Tail(ws), TurnSet(ns, X))
         /\ ItemPaired(ns, w) /\ \A x \in ToSet(Tail(ws)) : ItemPaired(ns, x) /\ InTurn(ns, w, x)
         /\ PairsDue(ns, Tail(ws), w)
<1>1. Tail(ws) \in Seq(X) /\ w \in X
  BY ONLY ws \in Seq(X), ws # <<>>, w = Head(ws)
<1>2. ToSet(ws) = {w} \cup ToSet(Tail(ws))
  BY ToSetTail
<1>3. Pairwise(ws, TurnSet(ns, X))
  BY TurnsPairwise DEF BuildPairs
<1>4. PICK t : t = Tail(ws)
  OBVIOUS
<1>5. Pairwise(t, TurnSet(ns, X)) /\ \A y \in ToSet(t) : <<w, y>> \in TurnSet(ns, X)
  BY <1>3, <1>4, PairwiseTail
<1>6. ASSUME NEW x \in ToSet(t) PROVE ItemPaired(ns, x) /\ InTurn(ns, w, x)
  <2>1. ItemPaired(ns, x)
    BY <1>2, <1>4 DEF BuildPairs
  <2>2. <<w, x>> \in TurnSet(ns, X)
    BY <1>5
  <2> QED BY <2>1, <2>2 DEF TurnSet
<1>7. ItemPaired(ns, w)
  BY <1>2 DEF BuildPairs
<1>8. PairsDue(ns, t, w)
  <2>1. \A x \in ToSet(ws) : x = w \/ x \in ToSet(t)
    BY <1>2, <1>4
  <2> QED BY <2>1 DEF PairsDue, BuildPairs
<1> QED BY <1>1, <1>4, <1>5, <1>6, <1>7, <1>8

\* The next item has its node already.
LEMMA ThereBuilt ==
  ASSUME TwoTrees, NEW ns, Wellformed(ns), NEW ws \in Seq(BuildItems(Len(ns))), ws # <<>>, NEW w, w = Head(ws),
         BuildPairs(ns, ws), NEW n \in DOMAIN ns, ns[n].key = PairOf(w)
  PROVE  BuildPairs(WithChild(ns, w.parent, n), Tail(ws))
<1>1. PICK X : X = BuildItems(Len(ns)) /\ ws \in Seq(X)
  OBVIOUS
<1>2. PICK t : t = Tail(ws)
  OBVIOUS
<1>3. /\ t \in Seq(X) /\ Pairwise(t, TurnSet(ns, X))
      /\ ItemPaired(ns, w) /\ \A x \in ToSet(t) : ItemPaired(ns, x) /\ InTurn(ns, w, x)
      /\ PairsDue(ns, t, w)
  BY <1>1, <1>2, HeadTail
<1>4. \A x \in X : x.parent \in 0..Len(ns)
  BY <1>1 DEF BuildItems
<1>5. ToSet(ws) = {w} \cup ToSet(t) /\ w \in X
  BY <1>1, <1>2, ToSetTail
<1>6. ns # <<>>
  OBVIOUS
<1>7. /\ PairedTemplate(ns) /\ \A m \in DOMAIN ns : ns[m].role = KeyRole(ns[m].key)
      /\ ns[1].key = RootPair /\ \A x \in ToSet(ws) : x.parent # Nothing
  BY <1>6 DEF BuildPairs
<1>8. w.parent \in DOMAIN ns
  <2>1. DOMAIN ns = 1..Len(ns) /\ Len(ns) \in Nat
    BY WellformedIs
  <2>2. w.parent \in 0..Len(ns) /\ w.parent # 0
    BY <1>4, <1>5, <1>7 DEF Nothing
  <2> QED BY <2>1, <2>2
<1>9. \A x \in ToSet(t) : x.parent # Nothing /\ ItemPaired(ns, x) /\ InTurn(ns, w, x)
  BY <1>3, <1>5, <1>7
<1>10. BuildPairs(WithChild(ns, w.parent, n), t)
  BY ONLY TwoTrees, Wellformed(ns), n \in DOMAIN ns, ns[n].key = PairOf(w), <1>3, <1>4, <1>7, <1>8, <1>9, ChildPaired
<1> QED BY <1>2, <1>10

\* The next item gets a new node, and what is below it is walked first.
LEMMA NewBuilt ==
  ASSUME TwoTrees, First = 1, Second = 2, ~Alone,
         NEW ns, Wellformed(ns), NEW ws \in Seq(BuildItems(Len(ns))), ws # <<>>, NEW w, w = Head(ws),
         BuildPairs(ns, ws), NEW e \in NodeRecord, e.children = <<>>, e.key = PairOf(w), e.role = KeyRole(PairOf(w)),
         NEW n, n = Len(ns) + 1, NEW p, p = IF e.stop THEN <<>> ELSE PairChildren(n, w)
  PROVE  BuildPairs(WithChild(Append(ns, e), w.parent, n), p \o Tail(ws))
<1>1. PICK len \in Nat : len = Len(ns) /\ DOMAIN ns = 1..len /\ n = len + 1
  BY WellformedIs
<1>2. PICK gs : gs = Append(ns, e)
  OBVIOUS
<1>3. ToSet(e.children) = {}
  BY DEF ToSet
<1>4. Wellformed(gs) /\ Len(gs) = n /\ gs[n] = e /\ \A k \in 1..len : gs[k] = ns[k]
  <2>1. ToSet(e.children) \subseteq 1..(Len(ns) + 1)
    BY <1>3
  <2>2. Wellformed(gs) /\ Len(gs) = Len(ns) + 1
    BY <1>2, <2>1, AppendNode
  <2>3. gs[Len(ns) + 1] = e /\ \A k \in DOMAIN ns : gs[k] = ns[k]
    <3>1. ns \in Seq(NodeRecord)
      BY DEF Wellformed
    <3> QED BY ONLY <1>1, <1>2, <3>1, e \in NodeRecord
  <2> QED BY ONLY <1>1, <2>2, <2>3
<1>5. DOMAIN gs = 1..n /\ n \in Nat /\ n \in 1..n /\ n \in DOMAIN gs
  BY <1>1, <1>4, WellformedIs
<1>6. /\ PairedTemplate(gs)
      /\ \A x : x.parent \in 0..len /\ ItemPaired(ns, x) => ItemPaired(gs, x)
      /\ \A x, y : x.parent \in 0..len /\ InTurn(ns, x, y) => InTurn(gs, x, y)
      /\ \A m \in 1..len : \A r, k : HasPair(ns, m, r, k) => HasPair(gs, m, r, k)
  <2>1. PairedTemplate(ns)
    BY DEF BuildPairs
  <2>2. LET ms == Append(ns, e) IN
         /\ PairedTemplate(ms)
         /\ \A x : x.parent \in 0..Len(ns) /\ ItemPaired(ns, x) => ItemPaired(ms, x)
         /\ \A x, y : x.parent \in 0..Len(ns) /\ InTurn(ns, x, y) => InTurn(ms, x, y)
         /\ \A m \in DOMAIN ns : \A r, k : HasPair(ns, m, r, k) => HasPair(ms, m, r, k)
    BY ONLY <2>1, Wellformed(ns), e \in NodeRecord, e.children = <<>>, BuildAppend
  <2> QED BY ONLY <1>1, <1>2, <2>2
<1>7. PICK X : X = BuildItems(n)
  OBVIOUS
<1>8. PICK Y : Y = BuildItems(len) /\ Y \subseteq X /\ ws \in Seq(Y)
  <2>1. len <= n
    BY <1>1
  <2>2. BuildItems(len) \subseteq BuildItems(n)
    BY <1>1, <1>5, <2>1, ItemsGrow
  <2> QED BY <1>1, <1>7, <2>2
<1>9. PICK t : t = Tail(ws)
  OBVIOUS
<1>10. /\ t \in Seq(Y) /\ Pairwise(t, TurnSet(ns, Y))
       /\ ItemPaired(ns, w) /\ \A x \in ToSet(t) : ItemPaired(ns, x) /\ InTurn(ns, w, x)
       /\ PairsDue(ns, t, w)
  BY <1>8, <1>9, HeadTail
<1>11. (\A x \in X : x.parent \in 0..n) /\ (\A x \in Y : x.parent \in 0..len)
  BY <1>7, <1>8 DEF BuildItems
<1>12. ToSet(ws) = {w} \cup ToSet(t) /\ w \in Y /\ w \in X /\ ToSet(t) \subseteq Y /\ t \in Seq(X)
  <2>1. ToSet(ws) = {w} \cup ToSet(t) /\ w \in Y
    BY <1>8, <1>9, ToSetTail
  <2>2. ToSet(t) \subseteq Y
    BY <1>10, ToSetFinite
  <2>3. t \in Seq(X)
    BY <1>8, <1>10
  <2> QED BY <1>8, <2>1, <2>2, <2>3
<1>13. \A m \in DOMAIN gs : gs[m].role = KeyRole(gs[m].key)
  <2>1. \A m \in 1..len : gs[m].role = KeyRole(gs[m].key)
    BY <1>1, <1>4 DEF BuildPairs
  <2>2. gs[n].role = KeyRole(gs[n].key)
    BY <1>4
  <2>3. \A m \in 1..n : m \in 1..len \/ m = n
    BY <1>1
  <2> QED BY <1>5, <2>1, <2>2, <2>3
<1>14. /\ p \in Seq(X)
       /\ \A x \in ToSet(p) : x.parent = n /\ ItemPaired(gs, x)
       /\ Pairwise(p, TurnSet(gs, X))
       /\ Splitting(gs, n) => \A r \in BothRoles(gs[n].key) : \A k \in Pairs(gs[n].key, r) :
                                \E x \in ToSet(p) : x.parent = n /\ PairOf(x) = k
  <2>1. CASE e.stop
    <3>1. p = <<>>
      BY <2>1
    <3>2. ~Splitting(gs, n)
      BY <1>4, <2>1 DEF Splitting
    <3>3. p \in Seq(X) /\ DOMAIN p = {} /\ ToSet(p) = {}
      BY ONLY <3>1 DEF ToSet
    <3>4. Pairwise(p, TurnSet(gs, X))
      BY ONLY <3>3 DEF Pairwise
    <3> QED BY ONLY <3>2, <3>3, <3>4
  <2>2. CASE ~e.stop
    <3>1. p = PairChildren(n, w)
      BY <2>2
    <3>2. gs[n].key = PairOf(w) /\ gs[n].children = <<>> /\ ~gs[n].stop
      BY <1>4, <2>2
    <3>3. NewItems(gs, n, PairChildren(n, w), BuildItems(n))
      <4>1. n \in Nat /\ n \in 1..n /\ w \in BuildItems(n)
        BY <1>5, <1>7, <1>12
      <4> QED BY ONLY TwoTrees, First = 1, Second = 2, ~Alone, <3>2, <4>1, NewItemsPaired
    <3>4. PairChildren(n, w) \in Seq(BuildItems(n))
      BY <1>5, <1>7, <1>12, PairChildrenTyped DEF TwoTrees
    <3> QED BY <1>7, <3>1, <3>3, <3>4 DEF NewItems
  <2> QED BY <2>1, <2>2
<1>15. PICK vs : vs = p \o t
  OBVIOUS
<1>16. vs \in Seq(X) /\ ToSet(vs) = ToSet(p) \cup ToSet(t)
  <2>1. p \in Seq(X) /\ t \in Seq(X)
    BY <1>12, <1>14
  <2>2. p \o t \in Seq(X) /\ ToSet(p \o t) = ToSet(p) \cup ToSet(t)
    BY ONLY <2>1, ToSetConcat
  <2> QED BY <1>15, <2>2
<1>17. \A x \in ToSet(t) : x.parent \in 0..len /\ ItemPaired(gs, x)
  BY <1>6, <1>10, <1>11, <1>12
<1>18. Pairwise(vs, TurnSet(gs, X))
  <2>1. Pairwise(t, TurnSet(gs, X))
    <3>1. ASSUME NEW i \in DOMAIN t, NEW j \in DOMAIN t, i < j PROVE InTurn(gs, t[i], t[j])
      <4>1. InTurn(ns, t[i], t[j])
        BY <1>10, <3>1, TurnsPairwise
      <4>2. t[i] \in ToSet(t)
        BY DEF ToSet
      <4> QED BY <1>6, <1>17, <4>1, <4>2
    <3> QED BY <1>12, <3>1, TurnsPairwise
  <2>2. \A x \in ToSet(p), y \in ToSet(t) : <<x, y>> \in TurnSet(gs, X)
    <3>1. SUFFICES ASSUME NEW x \in ToSet(p), NEW y \in ToSet(t) PROVE <<x, y>> \in TurnSet(gs, X)
      OBVIOUS
    <3>2. x \in X /\ y \in X
      BY <1>12, <1>14, ToSetFinite
    <3>3. x.parent # y.parent
      <4>1. x.parent = n /\ y.parent \in 0..len
        BY <1>14, <1>17
      <4> QED BY <1>1, <4>1
    <3> QED BY <3>2, <3>3 DEF TurnSet, InTurn
  <2>3. p \in Seq(X) /\ t \in Seq(X) /\ Pairwise(p, TurnSet(gs, X))
    BY <1>12, <1>14
  <2>4. Pairwise(p \o t, TurnSet(gs, X))
    BY ONLY <2>1, <2>2, <2>3, PairwiseConcat
  <2> QED BY <1>15, <2>4
<1>19. PairsDue(gs, vs, w)
  <2>1. SUFFICES ASSUME NEW m \in 1..n, Splitting(gs, m), NEW r \in BothRoles(gs[m].key), NEW k \in Pairs(gs[m].key, r)
        PROVE  \/ HasPair(gs, m, r, k) \/ (m = w.parent /\ k = PairOf(w))
               \/ \E x \in ToSet(vs) : x.parent = m /\ PairOf(x) = k
    BY <1>5 DEF PairsDue
  <2>2. CASE m = n
    BY <1>14, <1>16, <2>1, <2>2
  <2>3. CASE m # n
    <3>1. m \in 1..len /\ m \in DOMAIN ns
      BY <1>1, <2>3
    <3>2. gs[m] = ns[m]
      BY <1>4, <3>1
    <3>3. Splitting(ns, m)
      BY <2>1, <3>2 DEF Splitting
    <3>4. \/ HasPair(ns, m, r, k) \/ (m = w.parent /\ k = PairOf(w))
          \/ \E x \in ToSet(t) : x.parent = m /\ PairOf(x) = k
      BY <1>10, <2>1, <3>1, <3>2, <3>3 DEF PairsDue
    <3> QED BY <1>6, <1>16, <3>1, <3>4
  <2> QED BY <2>2, <2>3
<1>20. CASE ns = <<>>
  <2>1. ws = <<[parent |-> Nothing, left |-> roots[1], right |-> roots[2]]>>
    BY <1>20 DEF BuildPairs
  <2>2. w.parent = Nothing /\ PairOf(w) = RootPair /\ t = <<>>
    BY <1>9, <2>1 DEF PairOf, RootPair
  <2>3. WithChild(gs, w.parent, n) = gs
    BY <2>2 DEF WithChild
  <2>4. len = 0 /\ n = 1
    BY <1>1, <1>20
  <2>5. gs # <<>> /\ gs[1].key = RootPair
    BY <1>4, <1>5, <2>2, <2>4
  <2>6. ToSet(t) = {}
    BY <2>2 DEF ToSet
  <2>7. \A x \in ToSet(vs) : x.parent # Nothing /\ ItemPaired(gs, x)
    BY <1>14, <1>16, <2>4, <2>6 DEF Nothing
  <2>8. \A i, j \in DOMAIN vs : i < j => InTurn(gs, vs[i], vs[j])
    BY <1>16, <1>18, TurnsPairwise
  <2>9. ASSUME NEW m \in DOMAIN gs, Splitting(gs, m), NEW r \in BothRoles(gs[m].key), NEW k \in Pairs(gs[m].key, r)
        PROVE  HasPair(gs, m, r, k) \/ \E x \in ToSet(vs) : x.parent = m /\ PairOf(x) = k
    <3>1. m # w.parent
      BY <1>5, <2>2, <2>9 DEF Nothing
    <3> QED BY <1>19, <2>9, <3>1 DEF PairsDue
  <2>10. BuildPairs(gs, vs)
    <3> HIDE DEF Splitting
    <3> QED BY ONLY <1>6, <1>13, <2>5, <2>7, <2>8, <2>9 DEF BuildPairs
  <2> QED BY <1>2, <1>9, <1>15, <2>3, <2>10
<1>21. CASE ns # <<>>
  <2>1. ns[1].key = RootPair /\ \A x \in ToSet(ws) : x.parent # Nothing
    BY <1>21 DEF BuildPairs
  <2>2. w.parent \in 1..len /\ w.parent \in DOMAIN gs
    <3>1. w.parent \in 0..len /\ w.parent # 0
      BY <1>11, <1>12, <2>1 DEF Nothing
    <3> QED BY <1>1, <1>5, <3>1
  <2>3. gs[1].key = RootPair
    BY <1>4, <2>1, <2>2
  <2>4. ItemPaired(gs, w)
    BY <1>6, <1>10, <2>2
  <2>5. ASSUME NEW x \in ToSet(vs) PROVE x.parent # Nothing /\ ItemPaired(gs, x) /\ InTurn(gs, w, x)
    <3>1. CASE x \in ToSet(t)
      BY <1>6, <1>10, <1>12, <1>17, <2>1, <2>2, <3>1
    <3>2. CASE x \in ToSet(p)
      <4>1. x.parent = n /\ ItemPaired(gs, x)
        BY <1>14, <3>2
      <4>2. w.parent # n /\ n # 0
        BY <1>1, <2>2
      <4> QED BY <4>1, <4>2 DEF InTurn, Nothing
    <3> QED BY <1>16, <2>5, <3>1, <3>2
  <2>6. \A x \in X : x.parent \in 0..Len(gs)
    BY <1>4, <1>11
  <2>7. gs[n].key = PairOf(w)
    BY <1>4
  <2>8. BuildPairs(WithChild(gs, w.parent, n), vs)
    BY ONLY TwoTrees, <1>4, <1>5, <1>6, <1>13, <1>16, <1>18, <1>19, <2>2, <2>3, <2>4, <2>5, <2>6, <2>7, ChildPaired
  <2> QED BY <1>2, <1>9, <1>15, <2>8
<1> QED BY <1>20, <1>21

\* The pairs of a step are those of the trees that were read, which it leaves alone.
LEMMA TreesKept ==
  ASSUME refs' = refs, expanded' = expanded, roots' = roots
  PROVE  /\ \A ns, ws : BuildPairs(ns, ws)' <=> BuildPairs(ns, ws)
         /\ \A ns, ws, c : WalkPairs(ns, ws, c)' <=> WalkPairs(ns, ws, c)
<1>1. \A v, d : Children(v, d)' = Children(v, d)
  BY DEF Children
<1>2. \A k, r : Lefts(k, r)' = Lefts(k, r) /\ Rights(k, r)' = Rights(k, r)
  BY <1>1 DEF Lefts, Rights
<1>3. \A k : BothRoles(k)' = BothRoles(k)
  BY <1>1 DEF BothRoles
<1>4. \A k, r : Pairs(k, r)' = Pairs(k, r)
  BY <1>2 DEF Pairs
<1>5. \A ns, n, r : Shared(ns, n, r)' <=> Shared(ns, n, r)
  BY <1>3 DEF Shared, Splitting
<1>6. \A ns, n : PairsAt(ns, n)' <=> PairsAt(ns, n)
  BY <1>4, <1>5 DEF PairsAt
<1>7. \A ns : PairedTemplate(ns)' <=> PairedTemplate(ns)
  BY <1>6 DEF PairedTemplate
<1>8. \A ns, w : SharedItem(ns, w)' <=> SharedItem(ns, w)
  BY <1>5 DEF SharedItem
<1>9. \A ns, w : ItemPaired(ns, w)' <=> ItemPaired(ns, w)
  BY <1>4, <1>8 DEF ItemPaired
<1>10. \A ns, x, y : InTurn(ns, x, y)' <=> InTurn(ns, x, y)
  BY <1>8 DEF InTurn
<1>11. RootPair' = RootPair
  BY DEF RootPair
<1>12. \A ns, n, r, k : HasPair(ns, n, r, k)' <=> HasPair(ns, n, r, k)
  BY DEF HasPair
<1>13. \A ns : AllPaired(ns)' <=> AllPaired(ns)
  <2>1. SUFFICES ASSUME NEW ns PROVE AllPaired(ns)' <=> AllPaired(ns)
    OBVIOUS
  <2>2. ASSUME NEW n
        PROVE  (\A r \in BothRoles(ns[n].key) : \A k \in Pairs(ns[n].key, r) : HasPair(ns, n, r, k))'
                 <=> (\A r \in BothRoles(ns[n].key) : \A k \in Pairs(ns[n].key, r) : HasPair(ns, n, r, k))
    BY <1>3, <1>4, <1>12
  <2>3. \A n : Splitting(ns, n)' <=> Splitting(ns, n)
    BY DEF Splitting
  <2> QED BY <2>2, <2>3 DEF AllPaired
<1>16. ASSUME NEW ns, NEW ws PROVE BuildPairs(ns, ws)' <=> BuildPairs(ns, ws)
  <2> DEFINE C(n) == \A r \in BothRoles(ns[n].key) : \A k \in Pairs(ns[n].key, r) :
                       HasPair(ns, n, r, k) \/ \E w \in ToSet(ws) : w.parent = n /\ PairOf(w) = k
  <2>1. \A n : C(n)' <=> C(n)
    <3>1. SUFFICES ASSUME NEW n PROVE C(n)' <=> C(n)
      OBVIOUS
    <3>2. \A k : (\E w \in ToSet(ws) : w.parent = n /\ PairOf(w) = k)' <=> (\E w \in ToSet(ws) : w.parent = n /\ PairOf(w) = k)
      OBVIOUS
    <3> QED BY <1>3, <1>4, <1>12, <3>2
  <2>2. \A n : Splitting(ns, n)' <=> Splitting(ns, n)
    BY DEF Splitting
  <2>3. (\A n \in DOMAIN ns : Splitting(ns, n) => C(n))' <=> (\A n \in DOMAIN ns : Splitting(ns, n) => C(n))
    <3> HIDE DEF C
    <3> QED BY <2>1, <2>2
  <2>4. (\A w \in ToSet(ws) : ItemPaired(ns, w))' <=> (\A w \in ToSet(ws) : ItemPaired(ns, w))
    BY <1>9
  <2>5. (\A i, j \in DOMAIN ws : i < j => InTurn(ns, ws[i], ws[j]))' <=> (\A i, j \in DOMAIN ws : i < j => InTurn(ns, ws[i], ws[j]))
    BY <1>10
  <2>6. (IF ns = <<>> THEN ws = <<[parent |-> Nothing, left |-> roots[1], right |-> roots[2]]>>
         ELSE ns[1].key = RootPair /\ \A w \in ToSet(ws) : w.parent # Nothing)'
        <=> (IF ns = <<>> THEN ws = <<[parent |-> Nothing, left |-> roots[1], right |-> roots[2]]>>
             ELSE ns[1].key = RootPair /\ \A w \in ToSet(ws) : w.parent # Nothing)
    BY <1>11
  <2>7. (\A n \in DOMAIN ns : ns[n].role = KeyRole(ns[n].key))' <=> (\A n \in DOMAIN ns : ns[n].role = KeyRole(ns[n].key))
    OBVIOUS
  <2>8. PairedTemplate(ns)' <=> PairedTemplate(ns)
    BY <1>7
  <2> QED BY <2>3, <2>4, <2>5, <2>6, <2>7, <2>8 DEF BuildPairs
<1>14. \A ns, c, w : ItemRetraces(ns, c, w)' <=> ItemRetraces(ns, c, w)
  BY <1>5 DEF ItemRetraces
<1>15. ASSUME NEW ns, NEW ws, NEW c PROVE WalkPairs(ns, ws, c)' <=> WalkPairs(ns, ws, c)
  BY <1>7, <1>11, <1>13, <1>14 DEF WalkPairs
<1> QED BY <1>15, <1>16

\* The first two variants are paired.
LEMMA BuildsPair ==
  ASSUME pending = [i \in 1..read |-> i], read = 2
  PROVE  First = 1 /\ Second = 2 /\ ~Alone
<1>1. Len(pending) = 2 /\ pending[1] = 1 /\ pending[2] = 2
  OBVIOUS
<1> QED BY <1>1 DEF First, Second, Alone

\* A visit of the builder keeps the pairs.
LEMMA VisitBuilt ==
  ASSUME TemplateTyped, InOrder, read = 2, BuildPairs(nodes, work), BuildVisit
  PROVE  BuildPairs(nodes', work')
<1> DEFINE w0 == Head(work)
           there == {n \in DOMAIN nodes : nodes[n].key = NodeKey(w0)}
           n0 == IF there = {} THEN Len(nodes) + 1 ELSE CHOOSE m \in there : TRUE
           stop == IsStop({w0.left, w0.right})
           one == IF w0.left = Nothing THEN w0.right ELSE w0.left
           e0 == TemplateNode(NodeKey(w0), DrvRole[one], stop, Nothing \in {w0.left, w0.right})
           grown == IF there # {} THEN nodes ELSE Append(nodes, e0)
<1>1. /\ phase = "build" /\ work # <<>>
      /\ nodes' = WithChild(grown, w0.parent, n0)
      /\ work' = (IF there = {} /\ ~stop THEN PairChildren(n0, w0) ELSE <<>>) \o Tail(work)
  BY SMTT(30) DEF BuildVisit
<1>2. TwoTrees /\ Wellformed(nodes) /\ work \in Seq(BuildItems(Len(nodes)))
  BY <1>1, SMTT(30) DEF TemplateTyped, NodesTyped, PhaseTyped, TwoTrees
<1>3. First = 1 /\ Second = 2 /\ ~Alone
  <2>1. pending = [i \in 1..read |-> i]
    BY <1>1, SMTT(30) DEF InOrder
  <2> QED BY <2>1, BuildsPair, SMTT(30)
<1>4. PICK w : w = w0 /\ w \in BuildItems(Len(nodes))
  BY <1>1, <1>2
<1>5. NodeKey(w) = PairOf(w)
  BY <1>3 DEF NodeKey, PairOf
<1>6. CASE there # {}
  <2>1. PICK n \in DOMAIN nodes : n = n0 /\ nodes[n].key = NodeKey(w)
    BY <1>4, <1>6
  <2>2. nodes' = WithChild(nodes, w.parent, n)
    BY <1>1, <1>4, <1>6, <2>1, SMTT(30)
  <2>3. Tail(work) \in Seq(BuildItems(Len(nodes))) /\ work' = Tail(work)
    <3>1. work' = <<>> \o Tail(work) /\ Tail(work) \in Seq(BuildItems(Len(nodes)))
      BY <1>1, <1>2, <1>6, SMTT(30)
    <3> QED BY <3>1, SMTT(30)
  <2>4. nodes[n].key = PairOf(w) /\ w = Head(work) /\ work # <<>>
    BY <1>1, <1>4, <1>5, <2>1
  <2>5. BuildPairs(WithChild(nodes, w.parent, n), Tail(work))
    BY ONLY <1>2, <2>4, n \in DOMAIN nodes, BuildPairs(nodes, work), ThereBuilt
  <2> QED BY <2>2, <2>3, <2>5
<1>7. CASE there = {}
  <2>1. PICK e : e = e0
    OBVIOUS
  <2>2. PICK n : n = Len(nodes) + 1
    OBVIOUS
  <2>3. /\ w.left \in Derivation /\ w.right \in Derivation /\ (w.left # Nothing \/ w.right # Nothing)
    BY <1>4 DEF BuildItems
  <2>4. DrvRole[one] = KeyRole(PairOf(w)) /\ DrvRole[one] \in Nat
    <3>1. PairOf(w)[1] = w.left /\ PairOf(w)[2] = w.right
      BY DEF PairOf
    <3>2. one \in Drv
      BY <1>4, <2>3 DEF Derivation
    <3>3. DrvRole[one] \in Nat
      BY <3>2, DrvFacts
    <3> QED BY <1>4, <3>1, <3>3 DEF KeyRole
  <2>5. PairOf(w) \in Seq(Nat)
    <3>1. w.left \in Nat /\ w.right \in Nat
      BY <2>3, DrvFacts
    <3> QED BY <3>1 DEF PairOf
  <2>6. stop \in BOOLEAN /\ (Nothing \in {w0.left, w0.right}) \in BOOLEAN
    BY DEF IsStop
  <2>7. e \in NodeRecord /\ e.children = <<>> /\ e.key = PairOf(w) /\ e.role = KeyRole(PairOf(w)) /\ e.stop = stop
    <3>1. PICK role : role = DrvRole[one]
      OBVIOUS
    <3>2. PICK o : o = (Nothing \in {w0.left, w0.right})
      OBVIOUS
    <3>3. e = TemplateNode(PairOf(w), role, stop, o)
      BY <1>4, <1>5, <2>1, <3>1, <3>2
    <3> HIDE DEF w0, stop, one, e0
    <3>4. role \in Nat /\ o \in BOOLEAN /\ role = KeyRole(PairOf(w))
      BY <2>4, <2>6, <3>1, <3>2
    <3> QED BY <2>5, <2>6, <3>3, <3>4, NewNode
  <2>8. nodes' = WithChild(Append(nodes, e), w.parent, n)
    BY <1>1, <1>4, <1>7, <2>1, <2>2
  <2>9. PICK p : p = (IF e.stop THEN <<>> ELSE PairChildren(n, w))
    OBVIOUS
  <2>10. work' = p \o Tail(work)
    <3>1. n = n0
      BY <1>7, <2>2, SMTT(30)
    <3>2. work' = (IF there = {} /\ ~stop THEN PairChildren(n, w) ELSE <<>>) \o Tail(work)
      BY <1>1, <1>4, <3>1
    <3> HIDE DEF there, stop
    <3>3. (IF there = {} /\ ~stop THEN PairChildren(n, w) ELSE <<>>) = p
      BY <1>7, <2>7, <2>9, SMTT(30)
    <3> QED BY <3>2, <3>3
  <2>11. w = Head(work) /\ work # <<>>
    BY <1>1, <1>4
  <2>12. BuildPairs(WithChild(Append(nodes, e), w.parent, n), p \o Tail(work))
    BY ONLY <1>2, <1>3, <2>2, <2>7, <2>9, <2>11, BuildPairs(nodes, work), NewBuilt
  <2> QED BY <2>8, <2>10, <2>12
<1> QED BY <1>6, <1>7, SMTT(30)

\* What ElementsAt selects is in the order of the positions.
LEMMA AtInOrder ==
  ASSUME NEW X, NEW s \in Seq(X), NEW p \in SUBSET (DOMAIN s), NEW q, q = ElementsAt(s, p),
         NEW i \in DOMAIN q, NEW j \in DOMAIN q, i < j
  PROVE  \E a, b \in p : a < b /\ q[i] = s[a] /\ q[j] = s[b]
<1>1. p \subseteq Nat /\ IsFiniteSet(p)
  <2>1. DOMAIN s = 1..Len(s) /\ Len(s) \in Nat
    OBVIOUS
  <2>2. IsFiniteSet(1..Len(s)) /\ p \in SUBSET (1..Len(s)) /\ p \subseteq Nat
    BY ONLY <2>1, p \in SUBSET (DOMAIN s), FS_Interval, SMTT(30)
  <2> QED BY <2>2, FS_Subset
<1>2. PICK t : t = Sorted(p) /\ ToSet(t) = p /\ \A k, l \in DOMAIN t : k < l => t[k] < t[l]
  BY <1>1, SortedSeq
<1>3. q = [k \in DOMAIN t |-> s[t[k]]]
  BY <1>2 DEF ElementsAt
<1>4. i \in DOMAIN t /\ j \in DOMAIN t
  BY <1>3
<1>5. t[i] \in p /\ t[j] \in p /\ t[i] < t[j]
  BY <1>2, <1>4 DEF ToSet
<1>6. q[i] = s[t[i]] /\ q[j] = s[t[j]]
  BY <1>3, <1>4
<1> QED BY <1>5, <1>6

\* Two increasing sequences of the same numbers are as long.
LEMMA SameLength ==
  ASSUME NEW m \in Nat, NEW n \in Nat, NEW f \in [1..m -> Nat], NEW g \in [1..n -> Nat],
         \A i, j \in 1..m : i < j => f[i] < f[j], \A i, j \in 1..n : i < j => g[i] < g[j],
         \A i \in 1..m : \E j \in 1..n : g[j] = f[i], \A j \in 1..n : \E i \in 1..m : f[i] = g[j]
  PROVE  \A i \in 1..n : i \in 1..m /\ f[i] = g[i]
<1>1. \A i \in (1..m) \cap (1..n) : f[i] = g[i]
  BY SameIncreasing, ZenonT(60)
<1>2. SUFFICES ASSUME NEW i \in 1..n PROVE i \in 1..m
  BY <1>1
<1>3. PICK k \in 1..m : f[k] = g[i]
  OBVIOUS
<1>4. SUFFICES ASSUME i \notin 1..m PROVE FALSE
  OBVIOUS
<1>5. k < i /\ k \in 1..n
  BY <1>3, <1>4
<1>6. g[k] < g[i]
  BY <1>5
<1>7. g[k] = f[k]
  BY <1>1, <1>3, <1>5
<1>8. g[k] \in Nat
  BY <1>5
<1> QED BY ONLY <1>3, <1>6, <1>7, <1>8

\* The pairs of the co-walk below node m, of role r.
Matched(m, d, r, cs, ds) ==
  /\ cs \in Seq(DOMAIN nodes) /\ ToSet(cs) = {c \in ToSet(nodes[m].children) : nodes[c].role = r}
  /\ ds = Sorted(ToSet(WithRole(Children(column, d), r)))
  /\ \A i, j \in DOMAIN cs : i < j =>
       \E a, b \in DOMAIN nodes[m].children : a < b /\ cs[i] = nodes[m].children[a] /\ cs[j] = nodes[m].children[b]
  /\ \A x \in ToSet(SameRole(m, d, r)) :
       /\ x.kind = "pair" /\ x.base = Nothing
       /\ \E i \in DOMAIN cs \cap DOMAIN ds : x.node = cs[i] /\ x.drv = ds[i]
  /\ DOMAIN SameRole(m, d, r) \subseteq DOMAIN cs /\ \A i \in DOMAIN SameRole(m, d, r) : SameRole(m, d, r)[i].node = cs[i]

LEMMA SameRoleFollowing ==
  ASSUME TreesTyped, Wellformed(nodes), NEW m \in DOMAIN nodes, NEW d \in Drv, NEW r
  PROVE  \E cs, ds : Matched(m, d, r, cs, ds)
<1>1. PICK kids \in Seq(Drv) : kids = Children(column, d)
  BY ChildrenSeq
<1>2. PICK all \in Seq(DOMAIN nodes) : all = nodes[m].children
  <2>1. nodes[m].children \in Seq(Nat) /\ ToSet(nodes[m].children) \subseteq DOMAIN nodes
    BY NodeFields
  <2>2. \A i \in 1..Len(nodes[m].children) : nodes[m].children[i] \in DOMAIN nodes
    BY <2>1 DEF ToSet
  <2> QED BY ONLY <2>1, <2>2, SeqWithin
<1>3. PICK p : p = {i \in DOMAIN all : nodes[all[i]].role = r}
  OBVIOUS
<1>4. PICK cs \in Seq(DOMAIN nodes) : cs = ElementsAt(all, p) /\ ToSet(cs) = {all[i] : i \in p}
  <2>1. p \in SUBSET (DOMAIN all)
    BY <1>3
  <2> QED BY <2>1, AtSeq
<1>5. ToSet(cs) = {c \in ToSet(all) : nodes[c].role = r}
  BY <1>3, <1>4 DEF ToSet
<1>6. PICK ds : ds = Sorted(ToSet(WithRole(kids, r)))
  OBVIOUS
<1>7. ds \in Seq(Drv)
  BY <1>6, RoleSorted
<1>8. PICK n \in Nat : n = (IF Len(cs) < Len(ds) THEN Len(cs) ELSE Len(ds))
  BY <1>7
<1>9. PICK q : q = SameRole(m, d, r)
  OBVIOUS
<1>10. q = [i \in 1..n |-> [kind |-> "pair", parent |-> m, node |-> cs[i], drv |-> ds[i], base |-> Nothing]]
  BY <1>1, <1>2, <1>3, <1>4, <1>6, <1>8, <1>9 DEF SameRole
<1>11. 1..n \subseteq DOMAIN cs /\ 1..n \subseteq DOMAIN ds
  <2>1. PICK a \in Nat : a = Len(cs) /\ DOMAIN cs = 1..a
    BY ONLY cs \in Seq(DOMAIN nodes), SeqDomain, Zenon
  <2>2. PICK b \in Nat : b = Len(ds) /\ DOMAIN ds = 1..b
    BY ONLY <1>7, SeqDomain, Zenon
  <2>3. n = (IF a < b THEN a ELSE b)
    BY ONLY <1>8, <2>1, <2>2, Zenon
  <2>4. 1..n \subseteq 1..a /\ 1..n \subseteq 1..b
    BY ONLY a \in Nat, b \in Nat, n \in Nat, <2>3, ShorterRange, Zenon
  <2> QED BY ONLY <2>1, <2>2, <2>4, Zenon
<1>12. DOMAIN q = 1..n /\ \A i \in 1..n : q[i].kind = "pair" /\ q[i].base = Nothing /\ q[i].node = cs[i] /\ q[i].drv = ds[i]
  BY <1>10
<1>13. ASSUME NEW i \in DOMAIN cs, NEW j \in DOMAIN cs, i < j
       PROVE  \E a, b \in DOMAIN all : a < b /\ cs[i] = all[a] /\ cs[j] = all[b]
  <2>1. p \in SUBSET (DOMAIN all) /\ cs = ElementsAt(all, p) /\ all \in Seq(DOMAIN nodes)
    BY <1>3, <1>4
  <2>2. \E a, b \in p : a < b /\ cs[i] = all[a] /\ cs[j] = all[b]
    BY ONLY <1>13, <2>1, i \in DOMAIN cs, j \in DOMAIN cs, AtInOrder
  <2> QED BY <2>1, <2>2
<1>14. \A x \in ToSet(q) : /\ x.kind = "pair" /\ x.base = Nothing
                           /\ \E i \in DOMAIN cs \cap DOMAIN ds : x.node = cs[i] /\ x.drv = ds[i]
  <2>1. SUFFICES ASSUME NEW x \in ToSet(q)
        PROVE  x.kind = "pair" /\ x.base = Nothing /\ \E i \in DOMAIN cs \cap DOMAIN ds : x.node = cs[i] /\ x.drv = ds[i]
    OBVIOUS
  <2>2. PICK i \in 1..n : x = q[i]
    BY <1>12, <2>1 DEF ToSet
  <2> QED BY <1>11, <1>12, <2>2
<1>15. DOMAIN q \subseteq DOMAIN cs /\ \A i \in DOMAIN q : q[i].node = cs[i]
  BY <1>11, <1>12
<1>16. Matched(m, d, r, cs, ds)
  BY ONLY <1>1, <1>2, <1>5, <1>6, <1>9, <1>13, <1>14, <1>15, cs \in Seq(DOMAIN nodes) DEF Matched
<1> QED BY <1>16

\* The nodes of the pairs of a role are children of the node, and each is there once.
LEMMA SameRoleNodes ==
  ASSUME TreesTyped, Wellformed(nodes), NEW m \in DOMAIN nodes, PairsAt(nodes, m), NEW d \in Drv, NEW r
  PROVE  /\ \A x \in ToSet(SameRole(m, d, r)) :
              x.kind = "pair" /\ x.node \in ToSet(nodes[m].children) /\ nodes[x.node].role = r
         /\ \A i, j \in DOMAIN SameRole(m, d, r) : i < j => SameRole(m, d, r)[i].node # SameRole(m, d, r)[j].node
<1>1. PICK cs, ds : Matched(m, d, r, cs, ds)
  BY SameRoleFollowing
<1>2. PICK q : q = SameRole(m, d, r)
  OBVIOUS
<1>3. PICK kids : kids = nodes[m].children
  OBVIOUS
<1>4. /\ ToSet(cs) = {c \in ToSet(kids) : nodes[c].role = r}
      /\ \A i, j \in DOMAIN cs : i < j => \E a, b \in DOMAIN kids : a < b /\ cs[i] = kids[a] /\ cs[j] = kids[b]
      /\ \A x \in ToSet(q) : x.kind = "pair" /\ \E i \in DOMAIN cs \cap DOMAIN ds : x.node = cs[i] /\ x.drv = ds[i]
      /\ DOMAIN q \subseteq DOMAIN cs /\ \A i \in DOMAIN q : q[i].node = cs[i]
  BY <1>1, <1>2, <1>3 DEF Matched
<1>5. \A a, b \in DOMAIN kids : a < b => kids[a] # kids[b]
  BY <1>3 DEF PairsAt
<1>6. \A i, j \in DOMAIN q : i < j => q[i].node # q[j].node
  <2>1. ASSUME NEW i \in DOMAIN q, NEW j \in DOMAIN q, i < j PROVE q[i].node # q[j].node
    <3>1. PICK a \in DOMAIN kids, b \in DOMAIN kids : a < b /\ cs[i] = kids[a] /\ cs[j] = kids[b]
      BY <1>4, <2>1
    <3> QED BY <1>4, <1>5, <3>1
  <2> QED BY <2>1
<1>7. \A x \in ToSet(q) : x.kind = "pair" /\ x.node \in ToSet(kids) /\ nodes[x.node].role = r
  <2>1. \A i \in DOMAIN cs : cs[i] \in ToSet(cs)
    BY DEF ToSet
  <2> QED BY <1>4, <2>1
<1> QED BY <1>2, <1>3, <1>6, <1>7

\* A pair is walked with its own derivation of the column.
LEMMA SameRoleRetraces ==
  ASSUME TwoTrees, Wellformed(nodes), NEW m \in DOMAIN nodes, PairsAt(nodes, m), AllPaired(nodes), NEW d \in Drv, NEW r,
         column \in {1, 2}, Twofold(nodes[m].key) => d = nodes[m].key[column], NEW x \in ToSet(SameRole(m, d, r)),
         Twofold(nodes[x.node].key)
  PROVE  x.drv = nodes[x.node].key[column]
<1>1. PICK cs, ds : Matched(m, d, r, cs, ds)
  BY SameRoleFollowing DEF TwoTrees
<1>2. PICK kids : kids = nodes[m].children
  OBVIOUS
<1>3. PICK k : k = nodes[m].key
  OBVIOUS
<1>4. /\ ToSet(cs) = {c \in ToSet(kids) : nodes[c].role = r}
      /\ \A i, j \in DOMAIN cs : i < j => \E a, b \in DOMAIN kids : a < b /\ cs[i] = kids[a] /\ cs[j] = kids[b]
      /\ ds = Sorted(ToSet(WithRole(Children(column, d), r)))
      /\ \E i \in DOMAIN cs \cap DOMAIN ds : x.node = cs[i] /\ x.drv = ds[i]
  BY <1>1, <1>2 DEF Matched
<1>5. PICK ix \in DOMAIN cs \cap DOMAIN ds : x.node = cs[ix] /\ x.drv = ds[ix]
  BY <1>4
<1>6. PICK l \in Nat : DOMAIN cs = 1..l
  <2>1. cs \in Seq(DOMAIN nodes)
    BY <1>1 DEF Matched
  <2> QED BY <2>1
<1>7. \A i \in 1..l : cs[i] \in ToSet(kids) /\ nodes[cs[i]].role = r
  <2>1. \A i \in 1..l : cs[i] \in ToSet(cs)
    BY <1>6 DEF ToSet
  <2> QED BY <1>4, <2>1
<1>8. Shared(nodes, m, r)
  <2>1. cs[ix] \in ToSet(kids) /\ nodes[cs[ix]].role = r
    BY <1>5, <1>6, <1>7
  <2> QED BY <1>2, <1>5, <2>1 DEF PairsAt
<1>9. Twofold(k) /\ ~nodes[m].stop /\ r \in BothRoles(k) /\ d = k[column]
  BY <1>3, <1>8 DEF Shared, Splitting
<1>10. PICK ls : ls = Lefts(k, r) /\ ls \in Seq(Drv) /\ \A i, j \in DOMAIN ls : i < j => ls[i] < ls[j]
  BY Sides
<1>11. PICK rs : rs = Rights(k, r) /\ rs \in Seq(Drv)
  BY Sides
<1>12. PICK u \in Nat : 1..u = DOMAIN ls \cap DOMAIN rs
  <2>1. DOMAIN ls = 1..Len(ls) /\ DOMAIN rs = 1..Len(rs) /\ Len(ls) \in Nat /\ Len(rs) \in Nat
    BY <1>10, <1>11
  <2>2. PICK u : u = IF Len(ls) < Len(rs) THEN Len(ls) ELSE Len(rs)
    OBVIOUS
  <2>3. u \in Nat /\ 1..u = DOMAIN ls \cap DOMAIN rs
    BY <2>1, <2>2
  <2> QED BY <2>3
<1>13. Pairs(k, r) = {<<ls[i], rs[i]>> : i \in 1..u}
  BY <1>10, <1>11, <1>12 DEF Pairs
<1>14. \A i \in 1..u : ls[i] \in Nat /\ ls[i] \in Drv
  <2>1. \A i \in 1..u : ls[i] \in Drv
    BY <1>10, <1>12
  <2> QED BY <2>1, DrvFacts
<1>15. \A i, j \in 1..u : i < j => ls[i] < ls[j]
  BY <1>10, <1>12
<1>16. PICK f : f = [i \in 1..u |-> ls[i]]
  OBVIOUS
<1>17. PICK g : g = [i \in 1..l |-> nodes[cs[i]].key[1]]
  OBVIOUS
<1>18. \A i \in 1..l : \E j \in 1..u : nodes[cs[i]].key = <<ls[j], rs[j]>>
  <2>1. \A i \in 1..l : nodes[cs[i]].key \in Pairs(k, r)
    BY <1>2, <1>3, <1>7, <1>8 DEF PairsAt
  <2> QED BY <1>13, <2>1
<1>19. \A j \in 1..u : \E i \in 1..l : nodes[cs[i]].key = <<ls[j], rs[j]>>
  <2>1. SUFFICES ASSUME NEW j \in 1..u PROVE \E i \in 1..l : nodes[cs[i]].key = <<ls[j], rs[j]>>
    OBVIOUS
  <2>2. <<ls[j], rs[j]>> \in Pairs(k, r)
    BY <1>13
  <2>3. HasPair(nodes, m, r, <<ls[j], rs[j]>>)
    BY <1>3, <1>8, <1>9, <2>2 DEF AllPaired, Shared
  <2>4. PICK c \in ToSet(kids) : nodes[c].key = <<ls[j], rs[j]>> /\ nodes[c].role = r
    BY <1>2, <2>3 DEF HasPair
  <2>5. c \in ToSet(cs)
    BY <1>4, <2>4
  <2>6. PICK i \in 1..l : c = cs[i]
    BY <1>6, <2>5 DEF ToSet
  <2> QED BY <2>4, <2>6
<1>20. ASSUME NEW i \in 1..l, NEW j \in 1..l, i < j PROVE nodes[cs[i]].key[1] < nodes[cs[j]].key[1]
  <2>1. PICK a \in DOMAIN kids, b \in DOMAIN kids : a < b /\ cs[i] = kids[a] /\ cs[j] = kids[b]
    BY <1>4, <1>6, <1>20
  <2>2. nodes[kids[a]].role = r /\ nodes[kids[b]].role = r
    BY <1>7, <2>1
  <2> QED BY <1>2, <1>8, <2>1, <2>2 DEF PairsAt
<1>21. f \in [1..u -> Nat] /\ g \in [1..l -> Nat]
  <2>1. \A i \in 1..l : nodes[cs[i]].key[1] \in Nat
    BY <1>14, <1>18
  <2> QED BY <1>14, <1>16, <1>17, <2>1
<1>22. \A i \in 1..l : i \in 1..u /\ f[i] = g[i]
  <2>1. \A i, j \in 1..u : i < j => f[i] < f[j]
    BY ONLY <1>15, <1>16
  <2>2. \A i, j \in 1..l : i < j => g[i] < g[j]
    BY ONLY <1>17, <1>20
  <2>5. (\A i \in 1..u : f[i] = ls[i]) /\ (\A i \in 1..l : g[i] = nodes[cs[i]].key[1])
    BY ONLY <1>16, <1>17
  <2>3. ASSUME NEW i \in 1..u PROVE \E j \in 1..l : g[j] = f[i]
    <3>1. PICK j \in 1..l : nodes[cs[j]].key = <<ls[i], rs[i]>>
      BY <1>19
    <3>2. nodes[cs[j]].key[1] = ls[i]
      BY ONLY <3>1
    <3> QED BY ONLY <2>5, <3>2, i \in 1..u, j \in 1..l
  <2>4. ASSUME NEW j \in 1..l PROVE \E i \in 1..u : f[i] = g[j]
    <3>1. PICK i \in 1..u : nodes[cs[j]].key = <<ls[i], rs[i]>>
      BY <1>18
    <3>2. nodes[cs[j]].key[1] = ls[i]
      BY ONLY <3>1
    <3> QED BY ONLY <2>5, <3>2, i \in 1..u, j \in 1..l
  <2> QED BY ONLY <1>21, <2>1, <2>2, <2>3, <2>4, l \in Nat, u \in Nat, SameLength, ZenonT(120)
<1>23. ix \in 1..l /\ ix \in 1..u
  BY <1>5, <1>6, <1>22
<1>24. PICK j \in 1..u : nodes[cs[ix]].key = <<ls[j], rs[j]>>
  BY <1>18, <1>23
<1>25. ls[ix] = ls[j]
  <2>1. g[ix] = ls[j] /\ f[ix] = ls[ix]
    BY <1>16, <1>17, <1>23, <1>24
  <2> QED BY <1>22, <1>23, <2>1
<1>26. j = ix
  <2>1. ls[ix] \in Nat /\ ls[j] \in Nat
    BY <1>14, <1>23
  <2>2. ~(ix < j) /\ ~(j < ix)
    BY <1>15, <1>23, <1>25, <2>1
  <2> QED BY <1>23, <2>2
<1>27. nodes[x.node].key[1] = ls[ix] /\ nodes[x.node].key[2] = rs[ix]
  BY <1>5, <1>24, <1>26
<1>28. CASE column = 1
  <2>1. ds = ls
    BY <1>4, <1>9, <1>10, <1>28 DEF Lefts
  <2> QED BY <1>5, <1>27, <1>28, <2>1
<1>29. CASE column = 2
  <2>1. ds = rs
    BY <1>4, <1>9, <1>11, <1>29 DEF Rights
  <2> QED BY <1>5, <1>27, <1>29, <2>1
<1> QED BY <1>28, <1>29

\* Pairs of items that are not for the same node.
Differ(X) == {e \in X \X X : e[1].kind = "pair" /\ e[2].kind = "pair" => e[1].node # e[2].node}

\* A child of the variant at node m, in its place: its pair's own derivation, or an extension
\* of a role that has no pairs.
InPlace(m, x) ==
  /\ x.base = Nothing
  /\ x.kind = "pair" => /\ x.node \in ToSet(nodes[m].children)
                        /\ Twofold(nodes[x.node].key) => x.drv = nodes[x.node].key[column]
  /\ x.kind = "extend" => ~Shared(nodes, m, DrvRole[x.drv])

\* An extension has a role that has no pairs.
LEMMA ExtensionUnshared ==
  ASSUME TwoTrees, NEW m \in DOMAIN nodes, AllPaired(nodes), NEW r, r \notin TemplateRoles(m)
  PROVE  ~Shared(nodes, m, r)
<1>1. SUFFICES ASSUME Shared(nodes, m, r) PROVE FALSE
  OBVIOUS
<1>2. Splitting(nodes, m) /\ r \in BothRoles(nodes[m].key)
  BY <1>1 DEF Shared
<1>3. PICK k : k \in Pairs(nodes[m].key, r)
  BY <1>2, SomePair
<1>4. HasPair(nodes, m, r, k)
  BY <1>2, <1>3 DEF AllPaired
<1> QED BY <1>4 DEF HasPair, TemplateRoles

\* The children of a variant at a node: what is walked below it retraces the template.
LEMMA WalkedRetraces ==
  ASSUME TwoTrees, Wellformed(nodes), NEW m \in DOMAIN nodes, PairedTemplate(nodes), AllPaired(nodes),
         NEW d \in Drv, column \in {1, 2}, Twofold(nodes[m].key) => d = nodes[m].key[column]
  PROVE  LET X == ChildItems(Len(nodes), Children(column, d)) IN
         /\ Walked(m, d) \in Seq(X) /\ \A x \in ToSet(Walked(m, d)) : InPlace(m, x)
         /\ Pairwise(Walked(m, d), Differ(X))
<1>0. PICK X : X = ChildItems(Len(nodes), Children(column, d))
  OBVIOUS
<1>1. PICK kids \in Seq(Drv) : kids = Children(column, d)
  BY ChildrenSeq DEF TwoTrees
<1>2. PICK S : S = CommonRoles(m, d)
  OBVIOUS
<1>3. S \subseteq Nat /\ IsFiniteSet(S)
  <2>1. S \subseteq Roles(kids)
    BY <1>1, <1>2 DEF CommonRoles
  <2>2. Roles(kids) \subseteq Nat /\ IsFiniteSet(Roles(kids))
    BY RolesFinite
  <2> QED BY <2>1, <2>2, FS_Subset
<1>4. PICK f : f = [r \in S |-> SameRole(m, d, r)]
  OBVIOUS
<1>5. TreesTyped /\ PairsAt(nodes, m)
  BY DEF TwoTrees, PairedTemplate
<1>6. \A x \in X : x.base = Nothing /\ x.kind \in {"pair", "extend"}
  BY <1>0 DEF ChildItems, WalkItems
<1>7. ASSUME NEW r \in S
      PROVE  /\ f[r] \in Seq(X)
             /\ \A x \in ToSet(f[r]) : x.kind = "pair" /\ nodes[x.node].role = r /\ InPlace(m, x)
             /\ Pairwise(f[r], Differ(X))
  <2>1. PICK q : q = SameRole(m, d, r) /\ q = f[r]
    BY <1>4
  <2>2. q \in Seq(X)
    <3>1. SameRole(m, d, r) \in Seq(ChildItems(Len(nodes), Children(column, d)))
      BY ONLY <1>5, Wellformed(nodes), m \in DOMAIN nodes, d \in Drv, SameRoleItems
    <3> QED BY <1>0, <2>1, <3>1
  <2>3. /\ \A x \in ToSet(q) : x.kind = "pair" /\ x.node \in ToSet(nodes[m].children) /\ nodes[x.node].role = r
        /\ \A i, j \in DOMAIN q : i < j => q[i].node # q[j].node
    <3>1. /\ \A x \in ToSet(SameRole(m, d, r)) :
               x.kind = "pair" /\ x.node \in ToSet(nodes[m].children) /\ nodes[x.node].role = r
          /\ \A i, j \in DOMAIN SameRole(m, d, r) : i < j => SameRole(m, d, r)[i].node # SameRole(m, d, r)[j].node
      BY ONLY <1>5, Wellformed(nodes), m \in DOMAIN nodes, d \in Drv, SameRoleNodes
    <3> QED BY ONLY <2>1, <3>1
  <2>4. \A i \in DOMAIN q : q[i] \in ToSet(q) /\ q[i] \in X
    BY <2>2 DEF ToSet
  <2>5. \A x \in ToSet(q) : Twofold(nodes[x.node].key) => x.drv = nodes[x.node].key[column]
    <3>1. \A x \in ToSet(SameRole(m, d, r)) : Twofold(nodes[x.node].key) => x.drv = nodes[x.node].key[column]
      BY <1>5, SameRoleRetraces
    <3> QED BY ONLY <2>1, <3>1
  <2>6. \A x \in ToSet(q) : x \in X
    BY <2>2, ToSetFinite
  <2>7. \A x \in ToSet(q) : InPlace(m, x)
    <3>1. SUFFICES ASSUME NEW x \in ToSet(q) PROVE InPlace(m, x)
      OBVIOUS
    <3>2. x.kind # "extend"
      BY <2>3
    <3> QED BY <1>6, <2>3, <2>5, <2>6, <3>2 DEF InPlace
  <2>8. Pairwise(q, Differ(X))
    <3>1. ASSUME NEW i \in DOMAIN q, NEW j \in DOMAIN q, i < j PROVE <<q[i], q[j]>> \in Differ(X)
      <4>1. q[i] \in X /\ q[j] \in X /\ q[i].node # q[j].node
        BY <2>3, <2>4, <3>1
      <4> QED BY <4>1 DEF Differ
    <3> QED BY <3>1 DEF Pairwise
  <2> QED BY <2>1, <2>2, <2>3, <2>7, <2>8
<1>8. PICK t : t = [i \in DOMAIN Sorted(S) |-> f[Sorted(S)[i]]]
  OBVIOUS
<1>9. ByRole(LAMBDA r : SameRole(m, d, r), CommonRoles(m, d)) = FlattenSeq(t)
  <2>1. \A i \in DOMAIN Sorted(S) : Sorted(S)[i] \in S
    <3>1. ToSet(Sorted(S)) = S
      BY <1>3, SortedSeq
    <3> QED BY <3>1 DEF ToSet
  <2>2. t = [i \in DOMAIN Sorted(S) |-> SameRole(m, d, Sorted(S)[i])]
    BY <1>4, <1>8, <2>1
  <2> QED BY <1>2, <2>2 DEF ByRole
<1>10. PICK e : e = Extensions(m, d) /\ e \in Seq(X)
                /\ \A w \in ToSet(e) : w.kind = "extend" /\ DrvRole[w.drv] \notin TemplateRoles(m)
  <2>1. /\ Extensions(m, d) \in Seq(ChildItems(Len(nodes), Children(column, d)))
        /\ \A w \in ToSet(Extensions(m, d)) : w.kind = "extend" /\ DrvRole[w.drv] \notin TemplateRoles(m)
    BY ONLY <1>5, Wellformed(nodes), m \in DOMAIN nodes, d \in Drv, ExtensionItems
  <2> QED BY <1>0, <2>1
<1>11. PICK g : g = FlattenSeq(t) /\ g \in Seq(X) /\ ToSet(g) = UNION {ToSet(f[r]) : r \in S}
  <2>1. \A r \in S : f[r] \in Seq(X)
    BY <1>7
  <2>2. FlattenSeq(t) \in Seq(X) /\ ToSet(FlattenSeq(t)) = UNION {ToSet(f[r]) : r \in S}
    BY ONLY <1>3, <1>8, <2>1, ByRoleSeq
  <2> QED BY <2>2
<1>12. Pairwise(g, Differ(X))
  <2>1. \A r \in S : f[r] \in Seq(X) /\ Pairwise(f[r], Differ(X))
    BY <1>7
  <2>2. \A r, q \in S : r # q => \A x \in ToSet(f[r]), y \in ToSet(f[q]) : <<x, y>> \in Differ(X)
    <3>1. SUFFICES ASSUME NEW r \in S, NEW q \in S, r # q, NEW x \in ToSet(f[r]), NEW y \in ToSet(f[q])
          PROVE  <<x, y>> \in Differ(X)
      OBVIOUS
    <3>2. x \in X /\ y \in X
      BY <1>7, ToSetFinite
    <3>3. nodes[x.node].role = r /\ nodes[y.node].role = q
      BY <1>7
    <3>4. x.node # y.node
      BY <3>1, <3>3
    <3> QED BY <3>2, <3>4 DEF Differ
  <2>3. Pairwise(FlattenSeq(t), Differ(X))
    <3>1. PICK R : R = Differ(X)
      OBVIOUS
    <3>2. \A r \in S : f[r] \in Seq(X)
      BY <2>1
    <3>3. \A r \in S : Pairwise(f[r], R)
      BY <2>1, <3>1
    <3>4. \A r, q \in S : r # q => \A x \in ToSet(f[r]), y \in ToSet(f[q]) : <<x, y>> \in R
      BY <2>2, <3>1
    <3>5. Pairwise(FlattenSeq(t), R)
      <4>1. S \subseteq Nat
        BY <1>3
      <4>2. IsFiniteSet(S)
        BY <1>3
      <4> QED BY ONLY <1>8, <3>2, <3>3, <3>4, <4>1, <4>2, PairwiseByRole, ZenonT(120)
    <3> QED BY ONLY <3>1, <3>5
  <2> QED BY <1>11, <2>3
<1>13. Walked(m, d) = e \o g
  BY <1>9, <1>10, <1>11 DEF Walked
<1>14. \A x \in ToSet(e) : x \in X /\ x.kind = "extend" /\ InPlace(m, x)
  <2>1. SUFFICES ASSUME NEW x \in ToSet(e) PROVE x \in X /\ x.kind = "extend" /\ InPlace(m, x)
    OBVIOUS
  <2>2. x \in X
    BY <1>10, ToSetFinite
  <2>3. x.kind = "extend" /\ ~Shared(nodes, m, DrvRole[x.drv])
    BY <1>10, ExtensionUnshared
  <2>4. x.kind # "pair"
    BY <2>3
  <2> QED BY <1>6, <2>2, <2>3, <2>4 DEF InPlace
<1>15. \A x \in ToSet(g) : x \in X /\ InPlace(m, x)
  BY <1>7, <1>11, ToSetFinite
<1>16. e \in Seq(X) /\ g \in Seq(X)
  BY <1>10, <1>11
<1>17. e \o g \in Seq(X) /\ ToSet(e \o g) = ToSet(e) \cup ToSet(g)
  BY ONLY <1>16, ToSetConcat
<1>18. Pairwise(e \o g, Differ(X))
  <2>1. Pairwise(e, Differ(X))
    <3>1. \A i \in DOMAIN e : e[i] \in ToSet(e)
      BY DEF ToSet
    <3>2. ASSUME NEW i \in DOMAIN e, NEW j \in DOMAIN e PROVE <<e[i], e[j]>> \in Differ(X)
      <4>1. e[i] \in X /\ e[j] \in X /\ e[i].kind # "pair"
        BY <1>14, <3>1
      <4> QED BY <4>1 DEF Differ
    <3> QED BY <3>2 DEF Pairwise
  <2>2. \A x \in ToSet(e), y \in ToSet(g) : <<x, y>> \in Differ(X)
    <3>1. SUFFICES ASSUME NEW x \in ToSet(e), NEW y \in ToSet(g) PROVE <<x, y>> \in Differ(X)
      OBVIOUS
    <3>2. x \in X /\ y \in X /\ x.kind # "pair"
      BY <1>14, <1>15
    <3> QED BY <3>2 DEF Differ
  <2> QED BY ONLY <1>12, <1>16, <2>1, <2>2, PairwiseConcat
<1>19. \A x \in ToSet(e \o g) : InPlace(m, x)
  BY <1>14, <1>15, <1>17
<1> QED BY ONLY <1>0, <1>13, <1>17, <1>18, <1>19

\* A kept node is what it was.
LEMMA KeptShared ==
  ASSUME NEW ns, NEW ms, Keeps(ns, ms), NEW n \in DOMAIN ns
  PROVE  /\ Splitting(ms, n) <=> Splitting(ns, n)
         /\ \A r : Shared(ms, n, r) <=> Shared(ns, n, r)
<1>1. ms[n].key = ns[n].key /\ ms[n].stop = ns[n].stop
  BY DEF Keeps
<1> QED BY <1>1 DEF Splitting, Shared

\* The fields of an item of the walk.
LEMMA WalkItemFields ==
  ASSUME NEW ns, Wellformed(ns), NEW y \in WalkItems(Len(ns))
  PROVE  /\ y.parent # Nothing => y.parent \in DOMAIN ns
         /\ y.kind = "pair" => y.node \in DOMAIN ns
         /\ y.kind \in {"pair", "extend"} /\ y.drv \in Drv
<1>1. Len(ns) \in Nat /\ DOMAIN ns = 1..Len(ns)
  BY WellformedIs
<1> QED BY <1>1 DEF WalkItems, Nothing

\* An item keeps its place when its node is still a child of its parent.
LEMMA ItemKept ==
  ASSUME NEW ns, Wellformed(ns), NEW ms, Keeps(ns, ms), NEW c, NEW y \in WalkItems(Len(ns)), ItemRetraces(ns, c, y),
         y.kind = "pair" /\ y.parent # Nothing => y.node \in ToSet(ms[y.parent].children) /\ ms[y.parent].seen
  PROVE  ItemRetraces(ms, c, y)
<1>1. y.parent # Nothing => y.parent \in DOMAIN ns
  BY WalkItemFields
<1>2. y.kind = "pair" => y.node \in DOMAIN ns
  BY WalkItemFields
<1>3. y.kind = "pair" => ms[y.node].key = ns[y.node].key
  BY <1>2 DEF Keeps
<1>4. y.parent # Nothing => ms[y.parent].key = ns[y.parent].key
  BY <1>1 DEF Keeps
<1>5. y.parent # Nothing => \A r : Shared(ms, y.parent, r) <=> Shared(ns, y.parent, r)
  BY <1>1, KeptShared
<1>6. y.kind = "pair" /\ Twofold(ms[y.node].key) => y.drv = ms[y.node].key[c]
  BY <1>3 DEF ItemRetraces
<1>7. y.kind = "extend" /\ y.parent # Nothing => ~Shared(ms, y.parent, DrvRole[y.drv])
  BY <1>5 DEF ItemRetraces
<1>8. y.kind = "extend" /\ y.parent # Nothing /\ y.base # Nothing => Len(ms[y.parent].key) = 1
  BY <1>4 DEF ItemRetraces
<1> QED BY <1>6, <1>7, <1>8 DEF ItemRetraces

\* The nodes change, but not what they stand for nor their children.
SameNodes(ns, ms) == Keeps(ns, ms) /\ DOMAIN ms = DOMAIN ns /\ \A n \in DOMAIN ns : ms[n].children = ns[n].children

\* The template stays paired.
LEMMA SamePaired ==
  ASSUME NEW ns, Wellformed(ns), 1 \in DOMAIN ns, NEW ms, SameNodes(ns, ms), PairedTemplate(ns), AllPaired(ns), ns[1].key = RootPair
  PROVE  PairedTemplate(ms) /\ AllPaired(ms) /\ ms[1].key = RootPair
<1>1. ASSUME NEW n \in DOMAIN ns
      PROVE  /\ ms[n].key = ns[n].key /\ ms[n].stop = ns[n].stop /\ ms[n].children = ns[n].children
             /\ Alike(ns, ms, ToSet(ns[n].children))
  <2>1. ToSet(ns[n].children) \subseteq DOMAIN ns
    BY DEF Wellformed
  <2> QED BY <2>1 DEF SameNodes, Keeps, Alike
<1>2. PairedTemplate(ms)
  <2>1. ASSUME NEW n \in DOMAIN ns PROVE PairsAt(ms, n)
    <3>1. PairsAt(ns, n)
      BY DEF PairedTemplate
    <3> QED BY <1>1, <3>1, PairsSame
  <2> QED BY <2>1 DEF PairedTemplate, SameNodes
<1>3. AllPaired(ms)
  <2>1. SUFFICES ASSUME NEW n \in DOMAIN ms, Splitting(ms, n), NEW r \in BothRoles(ms[n].key), NEW k \in Pairs(ms[n].key, r)
                 PROVE  HasPair(ms, n, r, k)
    BY DEF AllPaired
  <2>2. n \in DOMAIN ns
    BY DEF SameNodes
  <2>3. Splitting(ns, n)
    BY <2>1, <2>2, KeptShared DEF SameNodes
  <2>4. HasPair(ns, n, r, k)
    BY <1>1, <2>1, <2>2, <2>3 DEF AllPaired
  <2>5. \A c \in ToSet(ns[n].children) : \E e \in ToSet(ms[n].children) : ms[e].key = ns[c].key /\ ms[e].role = ns[c].role
    BY <1>1, <2>2 DEF Alike
  <2> QED BY <2>4, <2>5, HasPairKept
<1> QED BY <1>1, <1>2, <1>3

\* Items in a sequence of items that are pairwise apart.
ApartSet(X) == {e \in X \X X : Apart(e[1], e[2])}

LEMMA ApartPairwise ==
  ASSUME NEW X, NEW s \in Seq(X)
  PROVE  Pairwise(s, ApartSet(X)) <=> \A i, j \in DOMAIN s : i < j => Apart(s[i], s[j])
<1>1. \A i \in DOMAIN s : s[i] \in X
  OBVIOUS
<1>2. \A i, j \in DOMAIN s : <<s[i], s[j]>> \in ApartSet(X) <=> Apart(s[i], s[j])
  BY <1>1 DEF ApartSet
<1> QED BY <1>2 DEF Pairwise

\* What the rest of the work is like.
LEMMA RestRetraces ==
  ASSUME NEW ns, NEW X, NEW ws \in Seq(X), ws # <<>>, NEW c, WalkPairs(ns, ws, c)
  PROVE  /\ Tail(ws) \in Seq(X) /\ Head(ws) \in X
         /\ ItemRetraces(ns, c, Head(ws)) /\ \A y \in ToSet(Tail(ws)) : y \in X /\ ItemRetraces(ns, c, y) /\ Apart(Head(ws), y)
         /\ Pairwise(Tail(ws), ApartSet(X))
<1>1. Tail(ws) \in Seq(X) /\ ToSet(ws) = {Head(ws)} \cup ToSet(Tail(ws)) /\ Head(ws) \in X
  BY ToSetTail
<1>2. \A w \in ToSet(ws) : ItemRetraces(ns, c, w)
  BY DEF WalkPairs
<1>3. Pairwise(ws, ApartSet(X))
  <2>1. \A i, j \in DOMAIN ws : i < j => Apart(ws[i], ws[j])
    BY DEF WalkPairs
  <2> QED BY <2>1, ApartPairwise
<1>4. Pairwise(Tail(ws), ApartSet(X)) /\ \A y \in ToSet(Tail(ws)) : <<Head(ws), y>> \in ApartSet(X)
  BY <1>3, PairwiseTail
<1>5. \A y \in ToSet(Tail(ws)) : Apart(Head(ws), y) /\ y \in X
  BY <1>4 DEF ApartSet
<1> QED BY <1>1, <1>2, <1>4, <1>5

\* The head of the work is done, and others come before the rest.
LEMMA WalkOn ==
  ASSUME NEW ms, PairedTemplate(ms), AllPaired(ms), ms[1].key = RootPair, NEW c,
         NEW X, NEW t \in Seq(X), \A y \in ToSet(t) : ItemRetraces(ms, c, y), Pairwise(t, ApartSet(X)),
         NEW p \in Seq(X), \A x \in ToSet(p) : ItemRetraces(ms, c, x), Pairwise(p, ApartSet(X)),
         \A x \in ToSet(p), y \in ToSet(t) : Apart(x, y)
  PROVE  WalkPairs(ms, p \o t, c)
<1>1. p \o t \in Seq(X) /\ ToSet(p \o t) = ToSet(p) \cup ToSet(t)
  BY ToSetConcat
<1>2. ToSet(p) \subseteq X /\ ToSet(t) \subseteq X
  BY ToSetFinite
<1>3. \A x \in ToSet(p), y \in ToSet(t) : <<x, y>> \in ApartSet(X)
  BY <1>2 DEF ApartSet
<1>4. Pairwise(p \o t, ApartSet(X))
  BY <1>3, PairwiseConcat
<1>5. \A i, j \in DOMAIN (p \o t) : i < j => Apart((p \o t)[i], (p \o t)[j])
  BY <1>1, <1>4, ApartPairwise
<1>6. \A x \in ToSet(p \o t) : ItemRetraces(ms, c, x)
  BY <1>1
<1> QED BY <1>5, <1>6 DEF WalkPairs

\* What a walk puts on the work list below a node retraces the template.
LEMMA ChildrenRetrace ==
  ASSUME TwoTrees, Wellformed(nodes), NEW m \in DOMAIN nodes, PairedTemplate(nodes), AllPaired(nodes),
         NEW d \in Drv, column \in {1, 2}, Twofold(nodes[m].key) => d = nodes[m].key[column],
         NEW ns, Wellformed(ns), Keeps(nodes, ns), NEW n \in DOMAIN ns,
         ns[n].key = nodes[m].key, ns[n].stop = nodes[m].stop, ns[n].children = nodes[m].children, ns[n].seen,
         WalkChildren(ns, n, m, d)
  PROVE  /\ Wellformed(nodes') /\ SameNodes(ns, nodes') /\ KeepsSeen(ns, nodes')
         /\ \E p \in Seq(WalkItems(Len(ns))) :
              /\ work' = p \o Tail(work) /\ Pairwise(p, ApartSet(WalkItems(Len(ns))))
              /\ \A x \in ToSet(p) : x.parent = n /\ ItemRetraces(nodes', column, x)
<1>1. /\ nodes' = [k \in DOMAIN ns |->
           IF k \in ToSet(nodes[m].children) /\ nodes[k].role \notin Roles(Children(column, d))
           THEN [ns[k] EXCEPT !.optional = TRUE] ELSE ns[k]]
      /\ work' = [i \in DOMAIN Walked(m, d) |-> [Walked(m, d)[i] EXCEPT !.parent = n]] \o Tail(work)
  BY DEF WalkChildren, Walked
<1>2. PICK ms : ms = nodes'
  OBVIOUS
<1>3. Wellformed(ms) /\ Keeps(ns, ms) /\ KeepsSeen(ns, ms) /\ SameNodes(ns, ms)
  <2>1. ASSUME NEW k \in DOMAIN ns
        PROVE  /\ ms[k] \in NodeRecord /\ ms[k].children = ns[k].children /\ ms[k].seen = ns[k].seen
               /\ ms[k].key = ns[k].key /\ ms[k].role = ns[k].role /\ ms[k].stop = ns[k].stop
    <3>1. ns[k] \in NodeRecord
      BY NodeFields
    <3>2. ms[k] = ns[k] \/ ms[k] = [ns[k] EXCEPT !.optional = TRUE]
      BY <1>1, <1>2
    <3> QED BY <3>1, <3>2, ZenonT(60) DEF NodeRecord
  <2>2. DOMAIN ms = DOMAIN ns /\ ms = [k \in DOMAIN ms |-> ms[k]]
    BY <1>1, <1>2
  <2>3. Wellformed(ms) /\ Len(ms) = Len(ns) /\ Keeps(ns, ms)
    BY <2>1, <2>2, MapNodes
  <2> QED BY <2>1, <2>2, <2>3 DEF KeepsSeen, SameNodes
<1>4. PICK Y : Y = ChildItems(Len(nodes), Children(column, d))
  OBVIOUS
<1>5. PICK below : below = Walked(m, d)
  OBVIOUS
<1>6. below \in Seq(Y) /\ (\A x \in ToSet(below) : InPlace(m, x)) /\ Pairwise(below, Differ(Y))
  BY <1>4, <1>5, WalkedRetraces
<1>7. PICK X : X = WalkItems(Len(ns))
  OBVIOUS
<1>8. PICK p : p = [i \in DOMAIN below |-> [below[i] EXCEPT !.parent = n]]
  OBVIOUS
<1>9. PICK len \in Nat : len = Len(ns) /\ Len(nodes) <= len /\ Len(nodes) \in Nat /\ n \in 1..len
  BY WellformedIs DEF Keeps
<1>10. ASSUME NEW i \in DOMAIN below
       PROVE  /\ p[i] \in X /\ p[i].parent = n /\ p[i].base = below[i].base /\ p[i].drv = below[i].drv
              /\ p[i].kind = below[i].kind /\ p[i].node = below[i].node /\ below[i] \in Y
  <2>1. below[i] \in Y
    BY <1>6
  <2>2. p[i] = [below[i] EXCEPT !.parent = n]
    BY <1>8
  <2>3. below[i] \in WalkItems(len)
    BY <1>4, <1>9, <2>1, ItemsGrow DEF ChildItems
  <2>4. n \in 0..len
    BY <1>9
  <2>5. /\ p[i] \in WalkItems(len) /\ p[i].parent = n /\ p[i].base = below[i].base /\ p[i].drv = below[i].drv
        /\ p[i].kind = below[i].kind /\ p[i].node = below[i].node
    BY <2>2, <2>3, <2>4 DEF WalkItems
  <2> QED BY <1>7, <1>9, <2>1, <2>5
<1>11. p \in Seq(X) /\ DOMAIN p = DOMAIN below
  <2>1. PICK l \in Nat : DOMAIN below = 1..l
    BY <1>6
  <2>2. p \in [1..l -> X] /\ DOMAIN p = 1..l
    BY <1>8, <1>10, <2>1
  <2> HIDE <1>8
  <2> QED BY <2>1, <2>2
<1>12. Pairwise(p, ApartSet(X))
  <2>1. ASSUME NEW i \in DOMAIN p, NEW j \in DOMAIN p, i < j PROVE <<p[i], p[j]>> \in ApartSet(X)
    <3>1. <<below[i], below[j]>> \in Differ(Y)
      BY <1>6, <1>11, <2>1 DEF Pairwise
    <3>2. below[i].kind = "pair" /\ below[j].kind = "pair" => below[i].node # below[j].node
      BY <3>1 DEF Differ
    <3>3. Apart(p[i], p[j])
      BY <1>10, <1>11, <3>2 DEF Apart
    <3> QED BY <1>10, <1>11, <3>3 DEF ApartSet
  <2> QED BY <2>1 DEF Pairwise
<1>13. ASSUME NEW x \in ToSet(p) PROVE x.parent = n /\ ItemRetraces(ms, column, x)
  <2>1. PICK i \in DOMAIN below : x = p[i]
    BY <1>11 DEF ToSet
  <2>2. PICK y : y = below[i] /\ y \in Y /\ y \in ToSet(below) /\ InPlace(m, y)
    BY <1>6 DEF ToSet
  <2>3. x.parent = n /\ x.base = y.base /\ x.drv = y.drv /\ x.kind = y.kind /\ x.node = y.node
    BY <1>10, <2>1, <2>2
  <2>4. y.kind = "pair" => y.node \in DOMAIN nodes
    BY <1>4, <2>2 DEF ChildItems
  <2>5. y.kind = "pair" => y.node \in DOMAIN ns /\ ms[y.node].key = nodes[y.node].key
    BY <1>3, <2>4 DEF Keeps
  <2>6. ms[n].seen /\ ms[n].children = nodes[m].children /\ ms[n].key = nodes[m].key /\ ms[n].stop = nodes[m].stop
    BY <1>3 DEF KeepsSeen, SameNodes, Keeps
  <2>7. \A r : Shared(ms, n, r) <=> Shared(nodes, m, r)
    BY <2>6 DEF Shared, Splitting
  <2>8. x.kind = "pair" => (Twofold(ms[x.node].key) => x.drv = ms[x.node].key[column])
    BY <2>2, <2>3, <2>5 DEF InPlace
  <2>9. x.kind = "pair" => x.node \in ToSet(ms[n].children)
    BY <2>2, <2>3, <2>6 DEF InPlace
  <2>10. x.kind = "extend" => ~Shared(ms, n, DrvRole[x.drv])
    BY <2>2, <2>3, <2>7 DEF InPlace
  <2>11. x.base = Nothing
    BY <2>2, <2>3 DEF InPlace
  <2> QED BY <2>3, <2>6, <2>8, <2>9, <2>10, <2>11 DEF ItemRetraces
<1>14. work' = p \o Tail(work)
  BY <1>1, <1>5, <1>8
<1> QED BY <1>2, <1>3, <1>7, <1>11, <1>12, <1>13, <1>14

\* Nodes that change but for what they stand for and their children: the rest of the
\* work keeps its place.
LEMMA RestKept ==
  ASSUME NEW ns, Wellformed(ns), NEW ws \in Seq(WalkItems(Len(ns))), ws # <<>>, NEW c, WalkPairs(ns, ws, c),
         NEW ms, SameNodes(ns, ms), \A n \in DOMAIN ns : ns[n].seen => ms[n].seen
  PROVE  \A y \in ToSet(Tail(ws)) : ItemRetraces(ms, c, y)
<1>1. SUFFICES ASSUME NEW y \in ToSet(Tail(ws)) PROVE ItemRetraces(ms, c, y)
  OBVIOUS
<1>2. y \in WalkItems(Len(ns)) /\ ItemRetraces(ns, c, y)
  BY RestRetraces
<1>3. y.parent # Nothing => y.parent \in DOMAIN ns
  BY <1>2, WalkItemFields
<1>4. y.kind = "pair" /\ y.parent # Nothing => y.node \in ToSet(ns[y.parent].children) /\ ns[y.parent].seen
  BY <1>2 DEF ItemRetraces
<1>5. y.kind = "pair" /\ y.parent # Nothing => y.node \in ToSet(ms[y.parent].children) /\ ms[y.parent].seen
  BY <1>3, <1>4 DEF SameNodes
<1>6. Keeps(ns, ms)
  BY DEF SameNodes
<1> QED BY <1>2, <1>5, <1>6, ItemKept

\* An item is done and nothing comes in its place.
LEMMA DoneRetraces ==
  ASSUME NEW ns, Wellformed(ns), 1 \in DOMAIN ns, NEW ws \in Seq(WalkItems(Len(ns))), ws # <<>>, NEW c, WalkPairs(ns, ws, c),
         NEW ms, SameNodes(ns, ms), \A n \in DOMAIN ns : ns[n].seen => ms[n].seen
  PROVE  WalkPairs(ms, Tail(ws), c)
<1>1. PairedTemplate(ms) /\ AllPaired(ms) /\ ms[1].key = RootPair
  <2>1. PairedTemplate(ns) /\ AllPaired(ns) /\ ns[1].key = RootPair
    BY DEF WalkPairs
  <2> QED BY <2>1, SamePaired
<1>2. PICK X : X = WalkItems(Len(ns))
  OBVIOUS
<1>3. ws \in Seq(X)
  BY <1>2
<1>4. Tail(ws) \in Seq(X) /\ Pairwise(Tail(ws), ApartSet(X))
  BY <1>3, RestRetraces
<1>5. \A y \in ToSet(Tail(ws)) : ItemRetraces(ms, c, y)
  BY RestKept
<1>6. \A i, j \in DOMAIN Tail(ws) : i < j => Apart(Tail(ws)[i], Tail(ws)[j])
  BY <1>4, ApartPairwise
<1> QED BY <1>1, <1>5, <1>6 DEF WalkPairs

\* A node is marked as seen, and nothing else changes.
LEMMA MarkedSame ==
  ASSUME NEW ns, Wellformed(ns), NEW n \in DOMAIN ns, NEW ms, ms = [ns EXCEPT ![n].seen = TRUE]
  PROVE  /\ SameNodes(ns, ms) /\ ms[n].seen /\ (\A k \in DOMAIN ns : ns[k].seen => ms[k].seen)
         /\ Wellformed(ms) /\ Len(ms) = Len(ns)
<1>1. /\ Wellformed(ms) /\ Len(ms) = Len(ns) /\ Keeps(ns, ms) /\ DOMAIN ms = DOMAIN ns
      /\ \A k \in DOMAIN ns : ms[k].seen <=> (ns[k].seen \/ k = n)
  BY MarkSeen
<1>2. PICK e : e = [ns[n] EXCEPT !.seen = TRUE]
  OBVIOUS
<1>3. e.children = ns[n].children
  <2>1. ns[n] \in NodeRecord
    BY NodeFields
  <2> QED BY <1>2, <2>1 DEF NodeRecord
<1>4. ms = [ns EXCEPT ![n] = e]
  BY <1>2
<1>5. \A k \in DOMAIN ns : ms[k] = IF k = n THEN e ELSE ns[k]
  <2>1. ns = [k \in DOMAIN ns |-> ns[k]]
    BY DEF Wellformed
  <2> QED BY <1>4, <2>1
<1>6. \A k \in DOMAIN ns : ms[k].children = ns[k].children
  BY <1>3, <1>5
<1> QED BY <1>1, <1>6 DEF SameNodes

\* A visit of a node at which walks end.
LEMMA VisitStopRetraces ==
  ASSUME TemplateTyped, VisitStop, WalkPairs(nodes, work, column)
  PROVE  WalkPairs(nodes', work', column')
<1>1. /\ phase = "walk" /\ work # <<>> /\ Head(work).kind = "pair"
      /\ nodes' = [nodes EXCEPT ![Head(work).node].seen = TRUE] /\ work' = Tail(work) /\ column' = column
  BY DEF VisitStop, Fresh, Item, SkipWork
<1>2. Wellformed(nodes) /\ 1 \in DOMAIN nodes /\ work \in Seq(WalkItems(Len(nodes))) /\ Head(work).node \in DOMAIN nodes
  BY <1>1, WalkContext
<1>3. PICK n \in DOMAIN nodes : n = Head(work).node
  BY <1>2
<1>4. PICK ms : ms = nodes' /\ ms = [nodes EXCEPT ![n].seen = TRUE]
  BY <1>1, <1>3
<1>5. SameNodes(nodes, ms) /\ \A k \in DOMAIN nodes : nodes[k].seen => ms[k].seen
  BY <1>2, <1>4, MarkedSame
<1>6. WalkPairs(ms, Tail(work), column)
  BY <1>1, <1>2, <1>5, DoneRetraces
<1> QED BY <1>1, <1>4, <1>6

\* A node that was visited before.
LEMMA RevisitSameRetraces ==
  ASSUME TemplateTyped, RevisitSame, WalkPairs(nodes, work, column)
  PROVE  WalkPairs(nodes', work', column')
<1>1. phase = "walk" /\ work # <<>> /\ nodes' = nodes /\ work' = Tail(work) /\ column' = column
  BY DEF RevisitSame, Again, Item
<1>2. Wellformed(nodes) /\ 1 \in DOMAIN nodes /\ work \in Seq(WalkItems(Len(nodes)))
  BY <1>1, WalkContext
<1>3. SameNodes(nodes, nodes)
  BY <1>2, KeepsSelf DEF SameNodes
<1>4. WalkPairs(nodes, Tail(work), column)
  BY <1>1, <1>2, <1>3, DoneRetraces
<1> QED BY <1>1, <1>4

\* An item keeps its place when the nodes stay the same.
LEMMA ItemSame ==
  ASSUME NEW ns, Wellformed(ns), NEW ms, SameNodes(ns, ms), \A n \in DOMAIN ns : ns[n].seen => ms[n].seen,
         NEW c, NEW y \in WalkItems(Len(ns)), ItemRetraces(ns, c, y)
  PROVE  ItemRetraces(ms, c, y)
<1>1. y.parent # Nothing => y.parent \in DOMAIN ns
  BY WalkItemFields
<1>2. y.kind = "pair" /\ y.parent # Nothing => y.node \in ToSet(ns[y.parent].children) /\ ns[y.parent].seen
  BY DEF ItemRetraces
<1>3. y.kind = "pair" /\ y.parent # Nothing => y.node \in ToSet(ms[y.parent].children) /\ ms[y.parent].seen
  BY <1>1, <1>2 DEF SameNodes
<1>4. Keeps(ns, ms)
  BY DEF SameNodes
<1> QED BY <1>3, <1>4, ItemKept

\* The children of a node that was marked or cloned are walked.
LEMMA ChildrenOn ==
  ASSUME TwoTrees, Wellformed(nodes), 1 \in DOMAIN nodes, NEW m \in DOMAIN nodes, WalkPairs(nodes, work, column),
         NEW d \in Drv, column \in {1, 2}, Twofold(nodes[m].key) => d = nodes[m].key[column],
         NEW ns, Wellformed(ns), Keeps(nodes, ns), NEW n \in DOMAIN ns,
         ns[n].key = nodes[m].key, ns[n].stop = nodes[m].stop, ns[n].children = nodes[m].children, ns[n].seen,
         PairedTemplate(ns), AllPaired(ns), ns[1].key = RootPair,
         Tail(work) \in Seq(WalkItems(Len(ns))), Pairwise(Tail(work), ApartSet(WalkItems(Len(ns)))),
         \A y \in ToSet(Tail(work)) : ItemRetraces(ns, column, y) /\ (y.kind = "pair" => y.parent # n),
         IF d \in expanded[column] THEN WalkChildren(ns, n, m, d) ELSE nodes' = ns /\ work' = Tail(work)
  PROVE  WalkPairs(nodes', work', column)
<1>1. PICK X : X = WalkItems(Len(ns))
  OBVIOUS
<1>2. PICK t \in Seq(X) : t = Tail(work)
  BY <1>1
<1>3. Pairwise(t, ApartSet(X)) /\ \A y \in ToSet(t) : ItemRetraces(ns, column, y) /\ (y.kind = "pair" => y.parent # n)
  BY <1>1, <1>2
<1>4. CASE d \notin expanded[column]
  <2>1. nodes' = ns /\ work' = t
    BY <1>4, <1>2
  <2>2. \A i, j \in DOMAIN t : i < j => Apart(t[i], t[j])
    BY <1>3, ApartPairwise
  <2>3. WalkPairs(ns, t, column)
    BY <1>3, <2>2 DEF WalkPairs
  <2> QED BY <2>1, <2>3
<1>5. CASE d \in expanded[column]
  <2>1. WalkChildren(ns, n, m, d)
    BY <1>5
  <2>2. PairedTemplate(nodes) /\ AllPaired(nodes)
    BY DEF WalkPairs
  <2>3. PICK ms : ms = nodes'
    OBVIOUS
  <2>4. /\ Wellformed(ms) /\ SameNodes(ns, ms) /\ KeepsSeen(ns, ms)
        /\ \E p \in Seq(X) :
             /\ work' = p \o Tail(work) /\ Pairwise(p, ApartSet(X))
             /\ \A x \in ToSet(p) : x.parent = n /\ ItemRetraces(ms, column, x)
    <3>1. /\ Wellformed(nodes') /\ SameNodes(ns, nodes') /\ KeepsSeen(ns, nodes')
          /\ \E p \in Seq(WalkItems(Len(ns))) :
               /\ work' = p \o Tail(work) /\ Pairwise(p, ApartSet(WalkItems(Len(ns))))
               /\ \A x \in ToSet(p) : x.parent = n /\ ItemRetraces(nodes', column, x)
      BY ONLY TwoTrees, Wellformed(nodes), <2>1, <2>2, column \in {1, 2}, Twofold(nodes[m].key) => d = nodes[m].key[column], SMTT(30),
              Wellformed(ns), Keeps(nodes, ns), ns[n].key = nodes[m].key, ns[n].stop = nodes[m].stop,
              ns[n].children = nodes[m].children, ns[n].seen, m \in DOMAIN nodes, d \in Drv, n \in DOMAIN ns, ChildrenRetrace
    <3> QED BY <1>1, <2>3, <3>1
  <2>5. PICK p \in Seq(X) : /\ work' = p \o t /\ Pairwise(p, ApartSet(X))
                            /\ \A x \in ToSet(p) : x.parent = n /\ ItemRetraces(ms, column, x)
    BY <1>2, <2>4
  <2>6. 1 \in DOMAIN ns
    BY DEF Keeps
  <2>7. PairedTemplate(ms) /\ AllPaired(ms) /\ ms[1].key = RootPair
    BY <2>4, <2>6, SamePaired
  <2>8. \A y \in ToSet(t) : ItemRetraces(ms, column, y)
    <3>1. SUFFICES ASSUME NEW y \in ToSet(t) PROVE ItemRetraces(ms, column, y)
      OBVIOUS
    <3>2. y \in WalkItems(Len(ns)) /\ ItemRetraces(ns, column, y)
      BY <1>1, <1>3, ToSetFinite
    <3>3. \A k \in DOMAIN ns : ns[k].seen => ms[k].seen
      BY <2>4 DEF KeepsSeen
    <3> QED BY <2>4, <3>2, <3>3, ItemSame
  <2>9. \A x \in ToSet(p), y \in ToSet(t) : Apart(x, y)
    BY <1>3, <2>5 DEF Apart
  <2>10. WalkPairs(ms, p \o t, column)
    BY ONLY <2>5, <2>7, <2>8, <2>9, <1>3, t \in Seq(X), WalkOn
  <2> QED BY <2>3, <2>5, <2>10
<1> QED BY <1>4, <1>5

\* A visit of a node.
LEMMA VisitNodeRetraces ==
  ASSUME TemplateTyped, read = 2, VisitNode, WalkPairs(nodes, work, column)
  PROVE  WalkPairs(nodes', work', column')
<1>1. PICK w : w = Head(work)
  OBVIOUS
<1>2. /\ phase = "walk" /\ work # <<>> /\ w.kind = "pair" /\ ~nodes[w.node].seen /\ column' = column
      /\ IF w.drv \in expanded[column]
         THEN WalkChildren([nodes EXCEPT ![w.node].seen = TRUE], w.node, w.node, w.drv)
         ELSE nodes' = [nodes EXCEPT ![w.node].seen = TRUE] /\ work' = Tail(work)
  BY <1>1 DEF VisitNode, Fresh, Item, SkipWork
<1>3. /\ TwoTrees /\ Wellformed(nodes) /\ 1 \in DOMAIN nodes /\ work \in Seq(WalkItems(Len(nodes)))
      /\ w.node \in DOMAIN nodes /\ w.drv \in Drv /\ column \in 1..2 /\ w \in WalkItems(Len(nodes))
      /\ 0 \notin DOMAIN nodes
  BY <1>1, <1>2, WalkContext DEF TwoTrees
<1>4. PICK n \in DOMAIN nodes : n = w.node
  BY <1>3
<1>5. PICK d \in Drv : d = w.drv
  BY <1>3
<1>6. PICK ns : ns = [nodes EXCEPT ![n].seen = TRUE]
  OBVIOUS
<1>7. /\ SameNodes(nodes, ns) /\ ns[n].seen /\ (\A k \in DOMAIN nodes : nodes[k].seen => ns[k].seen)
      /\ Wellformed(ns) /\ Len(ns) = Len(nodes)
  BY <1>3, <1>6, MarkedSame
<1>8. /\ Keeps(nodes, ns) /\ n \in DOMAIN ns /\ ns[n].children = nodes[n].children
      /\ ns[n].key = nodes[n].key /\ ns[n].stop = nodes[n].stop
  BY <1>7 DEF SameNodes, Keeps
<1>9. PairedTemplate(ns) /\ AllPaired(ns) /\ ns[1].key = RootPair
  <2>1. PairedTemplate(nodes) /\ AllPaired(nodes) /\ nodes[1].key = RootPair
    BY DEF WalkPairs
  <2> QED BY <1>3, <1>7, <2>1, SamePaired
<1>10. PICK X : X = WalkItems(Len(ns)) /\ work \in Seq(X)
  BY <1>3, <1>7
<1>11. /\ Tail(work) \in Seq(X) /\ ItemRetraces(nodes, column, w) /\ Pairwise(Tail(work), ApartSet(X))
       /\ \A y \in ToSet(Tail(work)) : y \in X /\ ItemRetraces(nodes, column, y)
  BY <1>1, <1>2, <1>10, RestRetraces
<1>12. PICK t \in Seq(X) : t = Tail(work)
  BY <1>11
<1>13. \A y \in ToSet(t) : ItemRetraces(ns, column, y)
  BY <1>2, <1>3, <1>7, <1>12, RestKept
<1>14. ASSUME NEW y \in ToSet(t), y.kind = "pair" PROVE y.parent # n
  <2>1. y.parent # Nothing => nodes[y.parent].seen
    BY <1>11, <1>12, <1>14 DEF ItemRetraces
  <2> QED BY <1>2, <1>3, <1>4, <2>1 DEF Nothing
<1>15. Twofold(nodes[n].key) => d = nodes[n].key[column]
  BY <1>2, <1>4, <1>5, <1>11 DEF ItemRetraces
<1>16. IF d \in expanded[column] THEN WalkChildren(ns, n, n, d) ELSE nodes' = ns /\ work' = Tail(work)
  BY <1>2, <1>4, <1>5, <1>6
<1>17. column \in {1, 2}
  BY <1>3
<1>18. Pairwise(t, ApartSet(X))
  BY <1>11, <1>12
<1>19. \A y \in ToSet(t) : ItemRetraces(ns, column, y) /\ (y.kind = "pair" => y.parent # n)
  BY <1>13, <1>14
<1>20. TwoTrees /\ Wellformed(nodes) /\ 1 \in DOMAIN nodes
  BY <1>3
<1>21. /\ Tail(work) \in Seq(WalkItems(Len(ns))) /\ Pairwise(Tail(work), ApartSet(WalkItems(Len(ns))))
       /\ \A y \in ToSet(Tail(work)) : ItemRetraces(ns, column, y) /\ (y.kind = "pair" => y.parent # n)
  BY <1>10, <1>11, <1>12, <1>19
<1>22. WalkPairs(nodes', work', column)
  BY ONLY WalkPairs(nodes, work, column), <1>7, <1>8, <1>9, <1>15, <1>16, <1>17, <1>20, <1>21, ChildrenOn,
          n \in DOMAIN nodes, d \in Drv
<1> QED BY <1>2, <1>22

\* One child takes the place of another.
LEMMA ReplacedAt ==
  ASSUME NEW s \in Seq(Nat), NEW old \in ToSet(s), NEW new
  PROVE  \E i \in DOMAIN s : s[i] = old /\ Replaced(s, old, new) = [s EXCEPT ![i] = new]
<1>1. PICK n \in Nat : DOMAIN s = 1..n
  OBVIOUS
<1>2. PICK T : T = {k \in DOMAIN s : s[k] = old}
  OBVIOUS
<1>3. T \subseteq Nat /\ T # {}
  BY <1>1, <1>2 DEF ToSet
<1>4. PICK i \in T : \A j \in T : i <= j
  BY <1>3, Least
<1>5. i \in DOMAIN s /\ s[i] = old /\ \A j \in 1..(i - 1) : s[j] # old
  BY <1>1, <1>2, <1>4
<1>6. PICK k : k = CHOOSE c \in DOMAIN s : s[c] = old /\ \A j \in 1..(c - 1) : s[j] # old
  OBVIOUS
<1>7. k \in DOMAIN s /\ s[k] = old
  BY <1>5, <1>6
<1>8. Replaced(s, old, new) = [s EXCEPT ![k] = new]
  BY <1>6 DEF Replaced
<1> QED BY <1>7, <1>8

\* What a clone is, and what becomes of its parent.
LEMMA CloneFields ==
  ASSUME NEW ns, Wellformed(ns), NEW n \in DOMAIN ns, NEW q \in DOMAIN ns, NEW o, NEW d,
         NEW ms, ms = Clone(ns, n, q, o, d), NEW new, new = Len(ns) + 1
  PROVE  /\ ms[new].key = ns[n].key /\ ms[new].stop = ns[n].stop /\ ms[new].children = ns[n].children
         /\ ms[new].role = ns[n].role /\ ms[new].seen
         /\ ms[q].children = Replaced(ns[q].children, n, new)
         /\ \A k \in DOMAIN ns : k # q => ms[k].children = ns[k].children
<1>1. PICK len \in Nat : len = Len(ns) /\ DOMAIN ns = 1..len /\ ns = [k \in 1..len |-> ns[k]]
  BY DEF Wellformed
<1>2. PICK a : a = [ns[n] EXCEPT !.enforce = IF @ = Nothing THEN o ELSE @]
  OBVIOUS
<1>3. PICK as : as = [ns EXCEPT ![n] = a]
  OBVIOUS
<1>4. PICK b : b = [as[q] EXCEPT !.children = Replaced(@, n, new)]
  OBVIOUS
<1>5. PICK bs : bs = [as EXCEPT ![q] = b]
  OBVIOUS
<1>6. PICK c : c = [ns[n] EXCEPT !.enforce = d, !.seen = TRUE]
  OBVIOUS
<1>7. ms = Append(bs, c)
  BY <1>2, <1>3, <1>4, <1>5, <1>6 DEF Clone
<1>8. \A k \in 1..len : ns[k] \in NodeRecord
  BY <1>1 DEF Wellformed
<1>9. a.children = ns[n].children
  BY <1>1, <1>2, <1>8 DEF NodeRecord
<1>10. /\ c.children = ns[n].children /\ c.seen = TRUE
       /\ c.key = ns[n].key /\ c.role = ns[n].role /\ c.stop = ns[n].stop
  BY <1>1, <1>6, <1>8 DEF NodeRecord
<1>11. \A k \in 1..len : as[k] = IF k = n THEN a ELSE ns[k]
  BY <1>1, <1>3
<1>12. \A k \in 1..len : as[k].children = ns[k].children
  BY <1>9, <1>11
<1>13. b.children = Replaced(ns[q].children, n, new)
  <2>1. as[q].children = ns[q].children
    BY <1>1, <1>12
  <2>2. "children" \in DOMAIN as[q]
    <3>1. as[q] = a \/ as[q] = ns[q]
      BY <1>1, <1>11
    <3>2. "children" \in DOMAIN a /\ "children" \in DOMAIN ns[q]
      BY <1>1, <1>2, <1>8 DEF NodeRecord
    <3> QED BY <3>1, <3>2
  <2> QED BY <1>4, <2>1, <2>2
<1>14. DOMAIN bs = 1..len /\ \A k \in 1..len : bs[k] = IF k = q THEN b ELSE as[k]
  BY <1>1, <1>3, <1>5
<1>15. Len(bs) = len /\ ms[new] = c /\ \A k \in 1..len : ms[k] = bs[k]
  <2>1. PICK X : X = {bs[k] : k \in 1..len} \cup {c}
    OBVIOUS
  <2>2. bs = [k \in 1..len |-> bs[k]]
    BY <1>1, <1>3, <1>5
  <2>3. bs \in [1..len -> X]
    BY <2>1, <2>2
  <2>4. bs \in Seq(X) /\ Len(bs) = len /\ c \in X
    <3> HIDE <1>5, <2>2
    <3> QED BY <1>14, <2>1, <2>3
  <2>5. Append(bs, c)[len + 1] = c /\ \A k \in 1..len : Append(bs, c)[k] = bs[k]
    BY <2>4, AppendFacts
  <2> QED BY <1>1, <1>7, <2>4, <2>5
<1>16. ms[q].children = Replaced(ns[q].children, n, new)
  BY <1>1, <1>13, <1>14, <1>15
<1>17. \A k \in DOMAIN ns : k # q => ms[k].children = ns[k].children
  BY <1>1, <1>12, <1>14, <1>15
<1> QED BY <1>10, <1>15, <1>16, <1>17

\* A clone keeps the template paired, and the rest of the work its place.
LEMMA CloneRetraces ==
  ASSUME NEW ns, Wellformed(ns), 1 \in DOMAIN ns, PairedTemplate(ns), AllPaired(ns), ns[1].key = RootPair,
         NEW n \in DOMAIN ns, NEW q \in DOMAIN ns, n \in ToSet(ns[q].children), NEW o \in Derivation, NEW d \in Drv,
         NEW ms, ms = Clone(ns, n, q, o, d), NEW c
  PROVE  /\ PairedTemplate(ms) /\ AllPaired(ms) /\ ms[1].key = RootPair
         /\ \A y \in WalkItems(Len(ns)) :
              ItemRetraces(ns, c, y) /\ (y.kind = "pair" /\ y.parent = q => y.node # n) => ItemRetraces(ms, c, y)
<1>1. PICK new : new = Len(ns) + 1
  OBVIOUS
<1>2. /\ ms[new].key = ns[n].key /\ ms[new].stop = ns[n].stop /\ ms[new].children = ns[n].children
      /\ ms[new].role = ns[n].role
      /\ ms[q].children = Replaced(ns[q].children, n, new)
      /\ \A k \in DOMAIN ns : k # q => ms[k].children = ns[k].children
  BY <1>1, CloneFields
<1>3. Wellformed(ms) /\ Keeps(ns, ms) /\ KeepsSeen(ns, ms) /\ Len(ms) = new
  <2>1. Wellformed(ms) /\ Keeps(ns, ms) /\ KeepsSeen(ns, ms) /\ Cloned(ns, ms, n)
    BY CloneNode
  <2> QED BY <1>1, <2>1 DEF Cloned
<1>4. DOMAIN ns = 1..Len(ns) /\ Len(ns) \in Nat /\ DOMAIN ms = 1..new
  BY <1>3, WellformedIs
<1>5. new \in Nat /\ new \notin DOMAIN ns /\ DOMAIN ms = DOMAIN ns \cup {new}
  BY <1>1, <1>4
<1>6. ASSUME NEW k \in DOMAIN ns PROVE ms[k].key = ns[k].key /\ ms[k].stop = ns[k].stop /\ ms[k].role = ns[k].role
  BY <1>3 DEF Keeps
<1>7. ASSUME NEW k \in DOMAIN ns
      PROVE  ns[k].children \in Seq(Nat) /\ ToSet(ns[k].children) \subseteq DOMAIN ns /\ Alike(ns, ms, ToSet(ns[k].children))
             /\ new \notin ToSet(ns[k].children)
  <2>1. ns[k].children \in Seq(Nat) /\ ToSet(ns[k].children) \subseteq DOMAIN ns
    BY NodeFields
  <2> QED BY <1>5, <1>6, <2>1 DEF Alike
<1>8. PICK kids \in Seq(Nat) : kids = ns[q].children
  BY <1>7
<1>9. PICK i \in DOMAIN kids : kids[i] = n /\ ms[q].children = [kids EXCEPT ![i] = new]
  <2>1. n \in ToSet(kids) /\ ms[q].children = Replaced(kids, n, new)
    BY <1>2, <1>8
  <2>2. \E i \in DOMAIN kids : kids[i] = n /\ Replaced(kids, n, new) = [kids EXCEPT ![i] = new]
    BY ONLY kids \in Seq(Nat), <2>1, ReplacedAt
  <2> QED BY ONLY <2>1, <2>2
<1>10. ASSUME NEW k \in DOMAIN ns PROVE PairsAt(ns, k)
  BY DEF PairedTemplate
<1>11. PairsAt(ms, new)
  <2>1. PairsAt(ns, n) /\ Alike(ns, ms, ToSet(ns[n].children))
    BY <1>7, <1>10
  <2> QED BY <1>2, <2>1, PairsSame
<1>12. PairsAt(ms, q)
  <2>1. PairsAt(ns, q) /\ Alike(ns, ms, ToSet(kids)) /\ new \notin ToSet(kids)
    BY <1>7, <1>8, <1>10
  <2>2. ms[q].key = ns[q].key /\ ms[q].stop = ns[q].stop
    BY <1>6
  <2>3. ms[new].key = ns[kids[i]].key /\ ms[new].role = ns[kids[i]].role
    BY <1>2, <1>9
  <2>4. PairsAt(ns, q)
    BY <2>1
  <2>5. Alike(ns, ms, ToSet(kids))
    BY <2>1
  <2>6. new \in Nat /\ new \notin ToSet(kids)
    BY <1>5, <2>1
  <2>7. ms[q].children = [kids EXCEPT ![i] = new]
    BY <1>9
  <2> QED BY ONLY <1>8, <2>2, <2>3, <2>4, <2>5, <2>6, <2>7, kids \in Seq(Nat), i \in DOMAIN kids, PairsReplace, SMTT(120)
<1>13. ASSUME NEW k \in DOMAIN ns, k # q PROVE PairsAt(ms, k)
  <2>1. PairsAt(ns, k) /\ Alike(ns, ms, ToSet(ns[k].children)) /\ ms[k].children = ns[k].children
    BY <1>2, <1>7, <1>10, <1>13
  <2> QED BY <1>6, <2>1, PairsSame
<1>14. PairedTemplate(ms)
  <2>1. ASSUME NEW k \in DOMAIN ms PROVE PairsAt(ms, k)
    <3>1. k \in DOMAIN ns \/ k = new
      BY <1>5
    <3> QED BY <1>11, <1>12, <1>13, <3>1
  <2> QED BY <2>1 DEF PairedTemplate
<1>15. \A e \in ToSet(ns[q].children) : e # n => e \in ToSet(ms[q].children)
  <2>1. ASSUME NEW e \in ToSet(kids), e # n PROVE e \in ToSet(ms[q].children)
    <3>1. PICK j \in DOMAIN kids : kids[j] = e
      BY DEF ToSet
    <3>2. j # i
      BY <1>9, <2>1, <3>1
    <3>3. PICK ls : ls = [kids EXCEPT ![i] = new] /\ ls = ms[q].children
      BY <1>9
    <3>4. j \in DOMAIN ls /\ ls[j] = e
      BY <3>1, <3>2, <3>3
    <3> QED BY <3>3, <3>4 DEF ToSet
  <2> QED BY <1>8, <2>1
<1>16. new \in ToSet(ms[q].children)
  <2>1. PICK ls : ls = [kids EXCEPT ![i] = new] /\ ls = ms[q].children
    BY <1>9
  <2>2. i \in DOMAIN ls /\ ls[i] = new
    BY <2>1
  <2> QED BY <2>1, <2>2 DEF ToSet
<1>17. ASSUME NEW k \in DOMAIN ns, NEW e \in ToSet(ns[k].children)
       PROVE  \E x \in ToSet(ms[k].children) : ms[x].key = ns[e].key /\ ms[x].role = ns[e].role
  <2>1. ms[e].key = ns[e].key /\ ms[e].role = ns[e].role
    BY <1>6, <1>7
  <2>2. CASE k # q
    BY <1>2, <2>1, <2>2
  <2>3. CASE k = q /\ e # n
    BY <1>15, <2>1, <2>3
  <2>4. CASE k = q /\ e = n
    BY <1>2, <1>16, <2>4
  <2> QED BY <2>2, <2>3, <2>4
<1>18. AllPaired(ms)
  <2>1. SUFFICES ASSUME NEW k \in DOMAIN ms, Splitting(ms, k), NEW r \in BothRoles(ms[k].key), NEW p \in Pairs(ms[k].key, r)
                 PROVE  HasPair(ms, k, r, p)
    BY DEF AllPaired
  <2>2. CASE k \in DOMAIN ns
    <3>1. ms[k].key = ns[k].key /\ Splitting(ns, k)
      BY <1>3, <1>6, <2>1, <2>2, KeptShared
    <3>2. HasPair(ns, k, r, p)
      BY <2>1, <2>2, <3>1 DEF AllPaired
    <3>3. \A e \in ToSet(ns[k].children) : \E x \in ToSet(ms[k].children) : ms[x].key = ns[e].key /\ ms[x].role = ns[e].role
      BY <1>17, <2>2
    <3> QED BY <3>2, <3>3, HasPairKept
  <2>3. CASE k = new
    <3>1. ms[k].key = ns[n].key /\ Splitting(ns, n)
      BY <1>2, <2>1, <2>3 DEF Splitting
    <3>2. HasPair(ns, n, r, p)
      BY <2>1, <3>1 DEF AllPaired
    <3>3. \A e \in ToSet(ns[n].children) : \E x \in ToSet(ms[k].children) : ms[x].key = ns[e].key /\ ms[x].role = ns[e].role
      BY <1>2, <1>6, <1>7, <2>3
    <3> QED BY <3>2, <3>3, HasPairKept
  <2> QED BY <1>5, <2>2, <2>3
<1>19. ASSUME NEW y \in WalkItems(Len(ns)), ItemRetraces(ns, c, y), y.kind = "pair" /\ y.parent = q => y.node # n
       PROVE  ItemRetraces(ms, c, y)
  <2>1. y.parent # Nothing => y.parent \in DOMAIN ns
    BY WalkItemFields
  <2>2. y.kind = "pair" /\ y.parent # Nothing => y.node \in ToSet(ns[y.parent].children) /\ ns[y.parent].seen
    BY <1>19 DEF ItemRetraces
  <2>3. y.kind = "pair" /\ y.parent # Nothing => y.node \in ToSet(ms[y.parent].children)
    <3>1. CASE y.parent = q
      BY <1>15, <1>19, <2>2, <3>1
    <3>2. CASE y.parent # q
      BY <1>2, <2>1, <2>2, <3>2
    <3> QED BY <3>1, <3>2
  <2>4. y.kind = "pair" /\ y.parent # Nothing => ms[y.parent].seen
    BY <1>3, <2>1, <2>2 DEF KeepsSeen
  <2> QED BY <1>3, <1>19, <2>3, <2>4, ItemKept
<1>20. ms[1].key = RootPair
  BY <1>6
<1> QED BY <1>14, <1>18, <1>19, <1>20

\* A node is split at a revisit.
LEMMA RevisitSplitRetraces ==
  ASSUME TemplateTyped, read = 2, RevisitSplit, WalkPairs(nodes, work, column)
  PROVE  WalkPairs(nodes', work', column')
<1>1. PICK w : w = Head(work)
  OBVIOUS
<1>2. PICK new : new = Len(nodes) + 1
  OBVIOUS
<1>3. /\ phase = "walk" /\ work # <<>> /\ w.kind = "pair" /\ w.parent # Nothing /\ column' = column
  <2>1. Splits /\ Again /\ column' = column
    BY ZenonT(120) DEF RevisitSplit
  <2> QED BY ONLY <1>1, <2>1 DEF Again, Item, Splits
<1>4. PICK ns :
      /\ ns = Append([nodes EXCEPT ![w.node].enforce = IF @ = Nothing THEN Occupant ELSE @,
                                   ![w.parent].children = Replaced(@, w.node, new)],
                     [nodes[w.node] EXCEPT !.enforce = w.drv, !.seen = TRUE])
      /\ IF w.drv \in expanded[column] THEN WalkChildren(ns, new, w.node, w.drv)
         ELSE nodes' = ns /\ work' = Tail(work)
  BY <1>1, <1>2, Zenon DEF RevisitSplit, SkipWork
<1>5. /\ TwoTrees /\ Wellformed(nodes) /\ 1 \in DOMAIN nodes /\ work \in Seq(WalkItems(Len(nodes)))
      /\ w.node \in DOMAIN nodes /\ w.drv \in Drv /\ column \in 1..2 /\ w \in WalkItems(Len(nodes))
      /\ DOMAIN nodes = 1..Len(nodes) /\ Len(nodes) \in Nat
      /\ (\A k \in DOMAIN nodes : rows[k] \in Seq(Derivation) /\ Len(rows[k]) = Position) /\ Position \in Nat \ {0}
  BY <1>1, <1>3, WalkContext DEF TwoTrees
<1>6. PICK n \in DOMAIN nodes : n = w.node
  BY <1>5
<1>7. PICK d \in Drv : d = w.drv
  BY <1>5
<1>8. PICK q \in DOMAIN nodes : q = w.parent
  BY <1>3, <1>5, WalkItemFields
<1>9. PICK o \in Derivation : o = Occupant
  <2>1. Occupant = rows[n][Position]
    BY <1>1, <1>6 DEF Occupant
  <2>2. rows[n][Position] \in Derivation
    <3>1. PICK r \in Seq(Derivation) : r = rows[n] /\ Len(r) = Position
      BY <1>5
    <3> QED BY <1>5, <3>1
  <2> QED BY <2>1, <2>2
<1>10. ns = Clone(nodes, n, q, o, d)
  BY <1>2, <1>4, <1>6, <1>7, <1>8, <1>9 DEF Clone
<1>11. PICK Z : Z = WalkItems(Len(nodes)) /\ work \in Seq(Z)
  BY <1>5
<1>12. /\ Tail(work) \in Seq(Z) /\ ItemRetraces(nodes, column, w) /\ Pairwise(Tail(work), ApartSet(Z))
       /\ \A y \in ToSet(Tail(work)) : y \in Z /\ ItemRetraces(nodes, column, y) /\ Apart(w, y)
  BY <1>1, <1>3, <1>11, RestRetraces
<1>13. n \in ToSet(nodes[q].children) /\ (Twofold(nodes[n].key) => d = nodes[n].key[column])
  BY <1>3, <1>6, <1>7, <1>8, <1>12 DEF ItemRetraces
<1>14. PairedTemplate(nodes) /\ AllPaired(nodes) /\ nodes[1].key = RootPair
  BY DEF WalkPairs
<1>15. /\ PairedTemplate(ns) /\ AllPaired(ns) /\ ns[1].key = RootPair
       /\ \A y \in WalkItems(Len(nodes)) :
            ItemRetraces(nodes, column, y) /\ (y.kind = "pair" /\ y.parent = q => y.node # n) => ItemRetraces(ns, column, y)
  <2>1. Wellformed(nodes)
    BY <1>5
  <2>2. 1 \in DOMAIN nodes
    BY <1>5
  <2>3. PairedTemplate(nodes)
    BY <1>14
  <2>4. AllPaired(nodes)
    BY <1>14
  <2>5. nodes[1].key = RootPair
    BY <1>14
  <2>6. n \in ToSet(nodes[q].children)
    BY <1>13
  <2> QED BY ONLY <1>10, <2>1, <2>2, <2>3, <2>4, <2>5, <2>6, n \in DOMAIN nodes, q \in DOMAIN nodes, o \in Derivation, d \in Drv,
                  CloneRetraces
<1>16. /\ ns[new].key = nodes[n].key /\ ns[new].stop = nodes[n].stop /\ ns[new].children = nodes[n].children /\ ns[new].seen
  <2>1. Wellformed(nodes)
    BY <1>5
  <2> QED BY ONLY <1>2, <1>10, <2>1, n \in DOMAIN nodes, q \in DOMAIN nodes, CloneFields
<1>17. Wellformed(ns) /\ Keeps(nodes, ns) /\ Len(ns) = new
  <2>1. Wellformed(ns) /\ Keeps(nodes, ns) /\ Cloned(nodes, ns, n)
    BY ONLY <1>5, <1>10, n \in DOMAIN nodes, q \in DOMAIN nodes, o \in Derivation, d \in Drv, CloneNode
  <2> QED BY <1>2, <2>1 DEF Cloned
<1>18. new \in Nat /\ new \in DOMAIN ns /\ new \notin 0..Len(nodes) /\ Len(nodes) <= Len(ns)
  BY <1>2, <1>5, <1>17, WellformedIs
<1>19. PICK X : X = WalkItems(Len(ns))
  OBVIOUS
<1>20. Z \subseteq X
  <2>1. PICK l \in Nat : l = Len(nodes) /\ l <= new
    BY <1>5, <1>17, <1>18, Zenon
  <2>2. WalkItems(l) \subseteq WalkItems(new)
    BY ONLY <2>1, <1>18, ItemsGrow
  <2> QED BY ONLY <1>11, <1>17, <1>19, <2>1, <2>2, SMTT(30)
<1>21. Tail(work) \in Seq(X)
  BY <1>12, <1>20
<1>22. Pairwise(Tail(work), ApartSet(X))
  <2>1. ApartSet(Z) \subseteq ApartSet(X)
    BY <1>20 DEF ApartSet
  <2> QED BY <1>12, <2>1 DEF Pairwise
<1>23. ASSUME NEW y \in ToSet(Tail(work)) PROVE ItemRetraces(ns, column, y) /\ (y.kind = "pair" => y.parent # new)
  <2>1. y \in WalkItems(Len(nodes)) /\ ItemRetraces(nodes, column, y) /\ Apart(w, y)
    BY <1>11, <1>12
  <2>2. y.kind = "pair" /\ y.parent = q => y.node # n
    BY <1>3, <1>6, <1>8, <2>1 DEF Apart
  <2>3. y.parent \in 0..Len(nodes)
    BY <2>1 DEF WalkItems
  <2> QED BY <1>15, <1>18, <2>1, <2>2, <2>3
<1>24. IF d \in expanded[column] THEN WalkChildren(ns, new, n, d) ELSE nodes' = ns /\ work' = Tail(work)
  BY <1>4, <1>6, <1>7
<1>25. /\ Tail(work) \in Seq(WalkItems(Len(ns))) /\ Pairwise(Tail(work), ApartSet(WalkItems(Len(ns))))
       /\ \A y \in ToSet(Tail(work)) : ItemRetraces(ns, column, y) /\ (y.kind = "pair" => y.parent # new)
  BY <1>19, <1>21, <1>22, <1>23
<1>26. column \in {1, 2} /\ TwoTrees /\ Wellformed(nodes) /\ 1 \in DOMAIN nodes
  BY <1>5
<1>27. WalkPairs(nodes', work', column)
  BY ONLY WalkPairs(nodes, work, column), <1>13, <1>15, <1>16, <1>17, <1>18, <1>24, <1>25, <1>26, ChildrenOn,
          n \in DOMAIN nodes, d \in Drv
<1> QED BY <1>3, <1>27

\* What stays when nodes are added and get further children.
LEMMA GrownRetraces ==
  ASSUME NEW ns, Wellformed(ns), 1 \in DOMAIN ns, AllPaired(ns), ns[1].key = RootPair,
         NEW ms, Keeps(ns, ms), KeepsSeen(ns, ms),
         \A n \in DOMAIN ns : ToSet(ns[n].children) \subseteq ToSet(ms[n].children),
         \A n \in DOMAIN ms \ DOMAIN ns : Len(ms[n].key) = 1
  PROVE  /\ AllPaired(ms) /\ ms[1].key = RootPair
         /\ \A c : \A y \in WalkItems(Len(ns)) : ItemRetraces(ns, c, y) => ItemRetraces(ms, c, y)
<1>1. ASSUME NEW k \in DOMAIN ns PROVE ms[k].key = ns[k].key /\ ms[k].stop = ns[k].stop /\ ms[k].role = ns[k].role
  BY DEF Keeps
<1>2. ASSUME NEW k \in DOMAIN ns, NEW e \in ToSet(ns[k].children)
      PROVE  \E x \in ToSet(ms[k].children) : ms[x].key = ns[e].key /\ ms[x].role = ns[e].role
  <2>1. e \in DOMAIN ns
    BY DEF Wellformed
  <2> QED BY <1>1, <2>1
<1>3. AllPaired(ms)
  <2>1. SUFFICES ASSUME NEW k \in DOMAIN ms, Splitting(ms, k), NEW r \in BothRoles(ms[k].key), NEW p \in Pairs(ms[k].key, r)
                 PROVE  HasPair(ms, k, r, p)
    BY DEF AllPaired
  <2>2. k \in DOMAIN ns
    BY <2>1 DEF Splitting, Twofold
  <2>3. ms[k].key = ns[k].key /\ Splitting(ns, k)
    BY <1>1, <2>1, <2>2, KeptShared
  <2>4. HasPair(ns, k, r, p)
    BY <2>1, <2>2, <2>3 DEF AllPaired
  <2>5. \A e \in ToSet(ns[k].children) : \E x \in ToSet(ms[k].children) : ms[x].key = ns[e].key /\ ms[x].role = ns[e].role
    BY <1>2, <2>2
  <2> QED BY <2>4, <2>5, HasPairKept
<1>4. ASSUME NEW c, NEW y \in WalkItems(Len(ns)), ItemRetraces(ns, c, y) PROVE ItemRetraces(ms, c, y)
  <2>1. y.parent # Nothing => y.parent \in DOMAIN ns
    BY WalkItemFields
  <2>2. y.kind = "pair" /\ y.parent # Nothing => y.node \in ToSet(ns[y.parent].children) /\ ns[y.parent].seen
    BY <1>4 DEF ItemRetraces
  <2>3. y.kind = "pair" /\ y.parent # Nothing => y.node \in ToSet(ms[y.parent].children) /\ ms[y.parent].seen
    BY <2>1, <2>2 DEF KeepsSeen
  <2> QED BY <1>4, <2>3, ItemKept
<1> QED BY <1>1, <1>3, <1>4

\* A leaf that stands for one derivation.
LEMMA LeafRetraces ==
  ASSUME NEW ns, Wellformed(ns), 1 \in DOMAIN ns, PairedTemplate(ns), AllPaired(ns), ns[1].key = RootPair,
         NEW e \in NodeRecord, e.children = <<>>, Len(e.key) = 1
  PROVE  LET ms == Append(ns, e) IN
         /\ Wellformed(ms) /\ Len(ms) = Len(ns) + 1 /\ Keeps(ns, ms) /\ KeepsSeen(ns, ms) /\ ms[Len(ns) + 1] = e
         /\ PairedTemplate(ms) /\ AllPaired(ms) /\ ms[1].key = RootPair
         /\ \A c : \A y \in WalkItems(Len(ns)) : ItemRetraces(ns, c, y) => ItemRetraces(ms, c, y)
<1>1. PICK ms : ms = Append(ns, e)
  OBVIOUS
<1>2. /\ Wellformed(ms) /\ Len(ms) = Len(ns) + 1 /\ Keeps(ns, ms) /\ KeepsSeen(ns, ms)
      /\ ms[Len(ns) + 1] = e /\ \A k \in DOMAIN ns : ms[k] = ns[k]
  <2>1. ToSet(e.children) \subseteq 1..(Len(ns) + 1)
    BY DEF ToSet
  <2>2. e \in NodeRecord /\ Wellformed(ns)
    OBVIOUS
  <2>3. ms = Append(ns, e)
    BY <1>1
  <2>4. /\ Wellformed(ms) /\ Len(ms) = Len(ns) + 1 /\ Keeps(ns, ms) /\ KeepsSeen(ns, ms)
    BY <2>1, <2>2, <2>3, AppendNode
  <2>5. ms[Len(ns) + 1] = e
    BY <2>1, <2>2, <2>3, AppendNode
  <2>6. \A k \in DOMAIN ns : ms[k] = ns[k]
    BY <2>1, <2>2, <2>3, AppendNode
  <2> QED BY <2>4, <2>5, <2>6
<1>3. PairedTemplate(ms)
  BY <1>1, BuildAppend
<1>4. DOMAIN ns = 1..Len(ns) /\ Len(ns) \in Nat /\ DOMAIN ms = 1..(Len(ns) + 1)
  BY <1>2, WellformedIs
<1>5. \A n \in DOMAIN ms \ DOMAIN ns : Len(ms[n].key) = 1
  <2>1. \A n \in DOMAIN ms \ DOMAIN ns : n = Len(ns) + 1
    BY <1>4
  <2> QED BY <1>2, <2>1
<1>6. \A n \in DOMAIN ns : ToSet(ns[n].children) \subseteq ToSet(ms[n].children)
  BY <1>2
<1>7. /\ AllPaired(ms) /\ ms[1].key = RootPair
      /\ \A c : \A y \in WalkItems(Len(ns)) : ItemRetraces(ns, c, y) => ItemRetraces(ms, c, y)
  BY <1>2, <1>5, <1>6, GrownRetraces
<1> QED BY <1>1, <1>2, <1>3, <1>7

\* A child that stands for one derivation, of a role that has no pairs.
LEMMA ChildRetraces ==
  ASSUME NEW ns, Wellformed(ns), 1 \in DOMAIN ns, PairedTemplate(ns), AllPaired(ns), ns[1].key = RootPair,
         NEW parent \in 0..Len(ns), NEW n \in DOMAIN ns, Len(ns[n].key) = 1,
         parent # Nothing => ~Shared(ns, parent, ns[n].role)
  PROVE  LET ms == WithChild(ns, parent, n) IN
         /\ Wellformed(ms) /\ Len(ms) = Len(ns) /\ Keeps(ns, ms) /\ KeepsSeen(ns, ms)
         /\ PairedTemplate(ms) /\ AllPaired(ms) /\ ms[1].key = RootPair
         /\ \A c : \A y \in WalkItems(Len(ns)) : ItemRetraces(ns, c, y) => ItemRetraces(ms, c, y)
<1>1. PICK ms : ms = WithChild(ns, parent, n)
  OBVIOUS
<1>2. Wellformed(ms) /\ Len(ms) = Len(ns) /\ Keeps(ns, ms) /\ KeepsSeen(ns, ms)
  BY <1>1, WithChildNodes
<1>3. CASE ms = ns
  BY <1>1, <1>2, <1>3
<1>4. CASE ms # ns
  <2>1. PICK len \in Nat : len = Len(ns) /\ DOMAIN ns = 1..len /\ ns \in [1..len -> NodeRecord]
    BY WellformedIs
  <2>2. parent # Nothing /\ n \notin ToSet(ns[parent].children) /\ ms = [ns EXCEPT ![parent].children = Append(@, n)]
    BY <1>1, <1>4 DEF WithChild
  <2>3. PICK q \in 1..len : q = parent
    BY <2>1, <2>2 DEF Nothing
  <2>4. PICK kids \in Seq(Nat) : kids = ns[q].children
    BY <2>1, NodeFields
  <2>5. n \in 1..len /\ n \in Nat /\ n \notin ToSet(kids) /\ ms = [ns EXCEPT ![q].children = Append(kids, n)]
    BY <2>1, <2>2, <2>3, <2>4
  <2>6. /\ DOMAIN ms = 1..len
        /\ \A k \in 1..len : /\ ms[k].key = ns[k].key /\ ms[k].role = ns[k].role /\ ms[k].stop = ns[k].stop
                             /\ ms[k].children = IF k = q THEN Append(kids, n) ELSE ns[k].children
    BY <2>1, <2>5, ZenonT(60) DEF NodeRecord
  <2>7. \A k \in 1..len : Alike(ns, ms, ToSet(ns[k].children))
    <3>1. \A k \in 1..len : ToSet(ns[k].children) \subseteq 1..len
      BY <2>1 DEF Wellformed
    <3> QED BY <2>6, <3>1 DEF Alike
  <2>8. ToSet(Append(kids, n)) = ToSet(kids) \cup {n}
    BY <2>5, ToSetAppend, SMTT(30)
  <2>9. ASSUME NEW k \in 1..len, k # q PROVE PairsAt(ms, k)
    <3>1. PairsAt(ns, k)
      BY <2>1 DEF PairedTemplate
    <3>2. ms[k].key = ns[k].key /\ ms[k].stop = ns[k].stop /\ ms[k].children = ns[k].children
      BY <2>6, <2>9
    <3>3. Alike(ns, ms, ToSet(ns[k].children))
      BY <2>7
    <3> QED BY ONLY <3>1, <3>2, <3>3, PairsSame
  <2>10. PairsAt(ms, q)
    <3>1. PairsAt(ns, q)
      BY <2>1 DEF PairedTemplate
    <3>2. ms[q].key = ns[q].key /\ ms[q].stop = ns[q].stop /\ ms[q].children = Append(kids, n)
      BY <2>6
    <3>3. Alike(ns, ms, ToSet(kids))
      BY <2>4, <2>7
    <3>4. ~Twofold(ms[n].key)
      BY <2>5, <2>6 DEF Twofold
    <3>5. ~Shared(ms, q, ms[n].role)
      <4>1. ~Shared(ns, q, ns[n].role)
        BY <2>2, <2>3
      <4> QED BY <2>5, <2>6, <4>1 DEF Shared, Splitting
    <3>6. Twofold(ms[n].key) => Shared(ms, q, ms[n].role)
      BY <3>4
    <3>7. Shared(ms, q, ms[n].role) => ms[n].key \in Pairs(ms[q].key, ms[n].role)
      BY <3>5
    <3>8. Shared(ms, q, ms[n].role) => \A e \in ToSet(kids) : ms[e].role = ms[n].role => ms[e].key[1] < ms[n].key[1]
      BY <3>5
    <3>9. n \in Nat /\ n \notin ToSet(kids)
      BY <2>5
    <3> QED BY ONLY <2>4, <3>1, <3>2, <3>3, <3>6, <3>7, <3>8, <3>9, kids \in Seq(Nat), PairsAdd
  <2>11. PairedTemplate(ms)
    BY <2>6, <2>9, <2>10 DEF PairedTemplate
  <2>12. \A k \in DOMAIN ns : ToSet(ns[k].children) \subseteq ToSet(ms[k].children)
    <3>1. ASSUME NEW k \in 1..len PROVE ToSet(ns[k].children) \subseteq ToSet(ms[k].children)
      <4>1. CASE k = q
        <5>1. ms[k].children = Append(kids, n) /\ ns[k].children = kids
          BY <2>4, <2>6, <4>1
        <5> QED BY <2>8, <5>1
      <4>2. CASE k # q
        BY <2>6, <4>2
      <4> QED BY <4>1, <4>2
    <3> QED BY <2>1, <3>1
  <2>13. \A k \in DOMAIN ms \ DOMAIN ns : Len(ms[k].key) = 1
    BY <2>1, <2>6
  <2>14. /\ AllPaired(ms) /\ ms[1].key = RootPair
         /\ \A c : \A y \in WalkItems(Len(ns)) : ItemRetraces(ns, c, y) => ItemRetraces(ms, c, y)
    BY ONLY Wellformed(ns), 1 \in DOMAIN ns, AllPaired(ns), ns[1].key = RootPair, <1>2, <2>12, <2>13, GrownRetraces
  <2> QED BY <1>1, <1>2, <2>11, <2>14
<1> QED BY <1>3, <1>4

\* The rest of the work of a template that has grown, after new extensions below a new node.
LEMMA ExtensionsOn ==
  ASSUME NEW ns, Wellformed(ns), NEW ws \in Seq(WalkItems(Len(ns))), ws # <<>>, NEW c, WalkPairs(ns, ws, c),
         NEW ms, Len(ns) <= Len(ms), Len(ms) \in Nat, PairedTemplate(ms), AllPaired(ms), ms[1].key = RootPair,
         \A y \in WalkItems(Len(ns)) : ItemRetraces(ns, c, y) => ItemRetraces(ms, c, y),
         NEW p \in Seq(WalkItems(Len(ms))), \A x \in ToSet(p) : x.kind = "extend" /\ ItemRetraces(ms, c, x)
  PROVE  WalkPairs(ms, p \o Tail(ws), c)
<1>1. PICK Z : Z = WalkItems(Len(ns)) /\ ws \in Seq(Z)
  OBVIOUS
<1>2. /\ Tail(ws) \in Seq(Z) /\ Pairwise(Tail(ws), ApartSet(Z))
      /\ \A y \in ToSet(Tail(ws)) : y \in Z /\ ItemRetraces(ns, c, y)
  BY <1>1, RestRetraces
<1>3. PICK X : X = WalkItems(Len(ms)) /\ p \in Seq(X)
  OBVIOUS
<1>4. Z \subseteq X
  <2>1. Len(ns) \in Nat
    BY WellformedIs
  <2> QED BY <1>1, <1>3, <2>1, ItemsGrow
<1>5. Tail(ws) \in Seq(X)
  BY <1>2, <1>4
<1>6. Pairwise(Tail(ws), ApartSet(X))
  <2>1. ApartSet(Z) \subseteq ApartSet(X)
    BY <1>4 DEF ApartSet
  <2> QED BY <1>2, <2>1 DEF Pairwise
<1>7. \A y \in ToSet(Tail(ws)) : ItemRetraces(ms, c, y)
  BY <1>1, <1>2
<1>8. \A x \in ToSet(p) : ItemRetraces(ms, c, x) /\ x.kind # "pair" /\ x \in X
  BY <1>3, ToSetFinite
<1>9. Pairwise(p, ApartSet(X))
  <2>1. \A i \in DOMAIN p : p[i] \in ToSet(p)
    BY DEF ToSet
  <2>2. \A i, j \in DOMAIN p : <<p[i], p[j]>> \in ApartSet(X)
    BY <1>8, <2>1 DEF ApartSet, Apart
  <2> QED BY <2>2 DEF Pairwise
<1>10. \A x \in ToSet(p), y \in ToSet(Tail(ws)) : Apart(x, y)
  BY <1>8 DEF Apart
<1>11. \A x \in ToSet(p) : ItemRetraces(ms, c, x)
  BY <1>8
<1> QED BY ONLY PairedTemplate(ms), AllPaired(ms), ms[1].key = RootPair, <1>3, <1>5, <1>6, <1>7, <1>9, <1>10, <1>11, WalkOn

\* An extension at a node that is there.
LEMMA ExtendThereRetraces ==
  ASSUME TemplateTyped, read = 2, Extend, NEW w, w = Head(work), ~NewExtension(w), WalkPairs(nodes, work, column)
  PROVE  WalkPairs(nodes', work', column')
<1>1. phase = "walk" /\ work # <<>> /\ w.kind = "extend" /\ column' = column
  BY Zenon DEF Extend, Item
<1>2. PICK there : there = IF w.base = Nothing THEN {} ELSE {n \in w.base..Len(nodes) : nodes[n].key = <<w.drv>>}
  OBVIOUS
<1>3. there # {} /\ w.base # Nothing
  BY <1>2 DEF NewExtension
<1>4. PICK n : n = CHOOSE m \in there : TRUE
  OBVIOUS
<1>5. n \in there
  BY <1>3, <1>4
<1>6. nodes' = WithChild(nodes, w.parent, n)
  BY <1>2, <1>3, <1>4 DEF Extend
<1>7. /\ Wellformed(nodes) /\ DOMAIN nodes = 1..Len(nodes) /\ Len(nodes) \in Nat /\ 1 \in DOMAIN nodes
      /\ work \in Seq(WalkItems(Len(nodes))) /\ w.parent \in 0..Len(nodes) /\ w.base \in 0..Len(nodes)
  BY <1>1, WalkContext
<1>8. n \in DOMAIN nodes /\ nodes[n].key = <<w.drv>>
  BY <1>2, <1>3, <1>5, <1>7 DEF Nothing
<1>9. ItemRetraces(nodes, column, w)
  BY <1>1, <1>7, RestRetraces
<1>10. w.parent # Nothing => ~Shared(nodes, w.parent, nodes[n].role)
  <2>1. w.parent # Nothing => Len(nodes[w.parent].key) = 1
    BY <1>1, <1>3, <1>9 DEF ItemRetraces
  <2> QED BY <2>1 DEF Shared, Splitting, Twofold
<1>11. PICK ms : ms = nodes' /\ ms = WithChild(nodes, w.parent, n)
  BY <1>6
<1>12. PairedTemplate(nodes) /\ AllPaired(nodes) /\ nodes[1].key = RootPair
  BY DEF WalkPairs
<1>13. Len(nodes[n].key) = 1
  BY <1>8
<1>14. PICK q \in 0..Len(nodes) : q = w.parent
  BY <1>7
<1>15. /\ Wellformed(ms) /\ Len(ms) = Len(nodes)
       /\ PairedTemplate(ms) /\ AllPaired(ms) /\ ms[1].key = RootPair
       /\ \A c : \A y \in WalkItems(Len(nodes)) : ItemRetraces(nodes, c, y) => ItemRetraces(ms, c, y)
  <2>1. q # Nothing => ~Shared(nodes, q, nodes[n].role)
    BY <1>10, <1>14
  <2>2. ms = WithChild(nodes, q, n)
    BY <1>11, <1>14
  <2>3. Wellformed(nodes) /\ 1 \in DOMAIN nodes /\ n \in DOMAIN nodes
    BY <1>7, <1>8
  <2> QED BY ONLY <1>12, <1>13, <2>1, <2>2, <2>3, q \in 0..Len(nodes), ChildRetraces
<1>16. work' = Tail(work)
  BY TypedExtendThere
<1>17. WalkPairs(ms, <<>> \o Tail(work), column)
  <2>1. <<>> \in Seq(WalkItems(Len(ms))) /\ ToSet(<<>>) = {}
    BY DEF ToSet
  <2>2. Len(nodes) <= Len(ms) /\ Len(ms) \in Nat
    BY <1>7, <1>15
  <2>3. \A y \in WalkItems(Len(nodes)) : ItemRetraces(nodes, column, y) => ItemRetraces(ms, column, y)
    BY <1>15
  <2>4. \A x \in ToSet(<<>>) : x.kind = "extend" /\ ItemRetraces(ms, column, x)
    BY <2>1
  <2>5. Wellformed(nodes) /\ work \in Seq(WalkItems(Len(nodes))) /\ work # <<>>
    BY <1>1, <1>7
  <2>6. PairedTemplate(ms) /\ AllPaired(ms) /\ ms[1].key = RootPair
    BY <1>15
  <2> QED BY ONLY WalkPairs(nodes, work, column), <2>1, <2>2, <2>3, <2>4, <2>5, <2>6, ExtensionsOn
<1>18. <<>> \o Tail(work) = Tail(work)
  BY <1>1, <1>7
<1> QED BY <1>1, <1>11, <1>16, <1>17, <1>18

\* An extension by a new node.
LEMMA ExtendNewRetraces ==
  ASSUME TemplateTyped, read = 2, Extend, NEW w, w = Head(work), NewExtension(w), WalkPairs(nodes, work, column)
  PROVE  WalkPairs(nodes', work', column')
<1>1. phase = "walk" /\ work # <<>> /\ w.kind = "extend" /\ column' = column
  BY Zenon DEF Extend, Item
<1>2. PICK there : there = IF w.base = Nothing THEN {} ELSE {n \in w.base..Len(nodes) : nodes[n].key = <<w.drv>>}
  OBVIOUS
<1>3. there = {}
  BY <1>2 DEF NewExtension
<1>4. PICK new : new = Len(nodes) + 1
  OBVIOUS
<1>5. PICK stop : stop = IsStop({w.drv})
  OBVIOUS
<1>6. PICK e : e = TemplateNode(<<w.drv>>, DrvRole[w.drv], stop, TRUE)
  OBVIOUS
<1>7. PICK base : base = IF w.base = Nothing THEN new ELSE w.base
  OBVIOUS
<1>8. PICK kids : kids = Children(column, w.drv)
  OBVIOUS
<1>9. PICK p : p = [i \in DOMAIN kids |-> [kind |-> "extend", parent |-> new, node |-> Nothing, drv |-> kids[i], base |-> base]]
  BY Zenon
<1>10. /\ nodes' = WithChild(Append(nodes, e), w.parent, new)
       /\ work' = (IF stop THEN <<>> ELSE p) \o Tail(work)
  BY <1>2, <1>3, <1>4, <1>5, <1>6, <1>7, <1>8, <1>9, Zenon DEF Extend
<1>11. /\ TreesTyped /\ Wellformed(nodes) /\ DOMAIN nodes = 1..Len(nodes) /\ Len(nodes) \in Nat /\ 1 \in DOMAIN nodes
       /\ work \in Seq(WalkItems(Len(nodes))) /\ Tail(work) \in Seq(WalkItems(Len(nodes)))
       /\ w.parent \in 0..Len(nodes) /\ w.base \in 0..Len(nodes) /\ w.drv \in Drv
  BY <1>1, WalkContext
<1>12. PICK d \in Drv : d = w.drv
  BY <1>11
<1>13. /\ e \in NodeRecord /\ e.children = <<>> /\ Len(e.key) = 1 /\ e.role = DrvRole[d]
  <2>1. <<d>> \in Seq(Nat) /\ Len(<<d>>) = 1 /\ DrvRole[d] \in Nat /\ stop \in BOOLEAN
    BY <1>5, DrvFacts DEF IsStop
  <2>2. PICK key \in Seq(Nat) : key = <<d>> /\ Len(key) = 1
    BY <2>1
  <2>3. PICK role \in Nat : role = DrvRole[d]
    BY <2>1
  <2>4. e = TemplateNode(key, role, stop, TRUE)
    BY <1>6, <1>12, <2>2, <2>3
  <2>5. e \in NodeRecord /\ e.children = <<>> /\ e.key = key /\ e.role = role
    BY <2>1, <2>4 DEF TemplateNode, NodeRecord, Nothing
  <2> QED BY <2>2, <2>3, <2>5
<1>14. PairedTemplate(nodes) /\ AllPaired(nodes) /\ nodes[1].key = RootPair
  BY DEF WalkPairs
<1>15. PICK gs : gs = Append(nodes, e)
  OBVIOUS
<1>16. /\ Wellformed(gs) /\ Len(gs) = new /\ Keeps(nodes, gs) /\ gs[new] = e
       /\ PairedTemplate(gs) /\ AllPaired(gs) /\ gs[1].key = RootPair
       /\ \A c : \A y \in WalkItems(Len(nodes)) : ItemRetraces(nodes, c, y) => ItemRetraces(gs, c, y)
  <2>1. Wellformed(nodes) /\ 1 \in DOMAIN nodes
    BY <1>11
  <2>2. /\ Wellformed(gs) /\ Len(gs) = Len(nodes) + 1 /\ Keeps(nodes, gs) /\ gs[Len(nodes) + 1] = e
        /\ PairedTemplate(gs) /\ AllPaired(gs) /\ gs[1].key = RootPair
        /\ \A c : \A y \in WalkItems(Len(nodes)) : ItemRetraces(nodes, c, y) => ItemRetraces(gs, c, y)
    BY ONLY <1>13, <1>14, <1>15, <2>1, LeafRetraces
  <2> QED BY <1>4, <2>2
<1>17. new \in Nat /\ 0..Len(nodes) \subseteq 0..new /\ new \in DOMAIN gs /\ 1 \in DOMAIN gs /\ Len(nodes) <= new /\ new # Nothing
  <2>1. DOMAIN gs = 1..Len(gs)
    BY <1>16, WellformedIs
  <2> QED BY <1>4, <1>11, <1>16, <2>1 DEF Nothing
<1>18. PICK q \in 0..Len(gs) : q = w.parent
  BY <1>11, <1>16, <1>17
<1>19. q # Nothing => ~Shared(gs, q, gs[new].role)
  <2>1. ItemRetraces(nodes, column, w)
    BY <1>1, <1>11, RestRetraces
  <2>2. w.parent # Nothing => ~Shared(nodes, w.parent, DrvRole[w.drv])
    BY <1>1, <2>1 DEF ItemRetraces
  <2>3. w.parent # Nothing => w.parent \in DOMAIN nodes
    BY <1>11 DEF Nothing
  <2>4. w.parent # Nothing => ~Shared(gs, w.parent, DrvRole[w.drv])
    BY <1>16, <2>2, <2>3, KeptShared
  <2> QED BY <1>12, <1>13, <1>16, <1>18, <2>4
<1>20. PICK ms : ms = nodes' /\ ms = WithChild(gs, q, new)
  BY <1>10, <1>15, <1>18
<1>21. /\ Wellformed(ms) /\ Len(ms) = Len(gs) /\ Keeps(gs, ms)
       /\ PairedTemplate(ms) /\ AllPaired(ms) /\ ms[1].key = RootPair
       /\ \A c : \A y \in WalkItems(Len(gs)) : ItemRetraces(gs, c, y) => ItemRetraces(ms, c, y)
  <2>1. Len(gs[new].key) = 1
    BY <1>13, <1>16
  <2>2. Wellformed(gs) /\ PairedTemplate(gs) /\ AllPaired(gs) /\ gs[1].key = RootPair
    BY <1>16
  <2>3. 1 \in DOMAIN gs /\ new \in DOMAIN gs
    BY <1>17
  <2> QED BY ONLY <1>19, <1>20, <2>1, <2>2, <2>3, q \in 0..Len(gs), ChildRetraces
<1>22. \A y \in WalkItems(Len(nodes)) : ItemRetraces(nodes, column, y) => ItemRetraces(ms, column, y)
  <2>1. WalkItems(Len(nodes)) \subseteq WalkItems(Len(gs))
    BY <1>11, <1>16, <1>17, ItemsGrow
  <2> QED BY <1>16, <1>21, <2>1
<1>23. /\ p \in Seq(WalkItems(new)) /\ \A x \in ToSet(p) : x.kind = "extend" /\ x.parent = new /\ x.base # Nothing
  <2>1. base \in 0..new /\ new \in 0..new /\ base # Nothing
    BY <1>7, <1>11, <1>17 DEF Nothing
  <2>2. kids = Children(column, d)
    BY <1>8, <1>12
  <2>3. p \in Seq(WalkItems(new))
    BY <1>9, <1>11, <1>17, <2>1, <2>2, ExtendItems DEF ExtendWork
  <2>4. ASSUME NEW x \in ToSet(p) PROVE x.kind = "extend" /\ x.parent = new /\ x.base # Nothing
    <3>1. PICK i \in DOMAIN p : x = p[i]
      BY DEF ToSet
    <3>2. i \in DOMAIN kids
      BY <1>9, <3>1
    <3>3. x = [kind |-> "extend", parent |-> new, node |-> Nothing, drv |-> kids[i], base |-> base]
      BY <1>9, <3>1, <3>2
    <3> QED BY <2>1, <3>3
  <2> QED BY <2>3, <2>4
<1>24. PICK s : s = IF stop THEN <<>> ELSE p
  OBVIOUS
<1>25. s \in Seq(WalkItems(new)) /\ \A x \in ToSet(s) : x.kind = "extend" /\ x.parent = new /\ x.base # Nothing
  <2>1. CASE stop
    <3>1. s = <<>> /\ ToSet(s) = {}
      BY <1>24, <2>1 DEF ToSet
    <3>2. <<>> \in Seq(WalkItems(new))
      OBVIOUS
    <3> QED BY <3>1, <3>2
  <2>2. CASE ~stop
    BY <1>23, <1>24, <2>2
  <2> QED BY <2>1, <2>2
<1>26. ASSUME NEW x \in ToSet(s) PROVE x.kind = "extend" /\ ItemRetraces(ms, column, x)
  <2>1. x.kind = "extend" /\ x.parent = new
    BY <1>25
  <2>2. Len(ms[new].key) = 1
    <3>1. ms[new].key = gs[new].key
      BY <1>17, <1>21 DEF Keeps
    <3> QED BY <1>13, <1>16, <3>1
  <2>3. ~Shared(ms, new, DrvRole[x.drv])
    BY <2>2 DEF Shared, Splitting, Twofold
  <2>4. x.kind # "pair"
    BY <2>1
  <2> QED BY <2>1, <2>2, <2>3, <2>4 DEF ItemRetraces
<1>27. WalkPairs(ms, s \o Tail(work), column)
  <2>1. s \in Seq(WalkItems(Len(ms)))
    BY <1>16, <1>21, <1>25
  <2>2. Len(nodes) <= Len(ms) /\ Len(ms) \in Nat
    BY <1>16, <1>17, <1>21
  <2>3. Wellformed(nodes) /\ work \in Seq(WalkItems(Len(nodes))) /\ work # <<>>
    BY <1>1, <1>11
  <2>4. PairedTemplate(ms) /\ AllPaired(ms) /\ ms[1].key = RootPair
    BY <1>21
  <2>5. \A x \in ToSet(s) : x.kind = "extend" /\ ItemRetraces(ms, column, x)
    BY <1>26
  <2> QED BY ONLY WalkPairs(nodes, work, column), <1>22, <2>1, <2>2, <2>3, <2>4, <2>5, ExtensionsOn
<1> QED BY <1>1, <1>10, <1>20, <1>24, <1>27

\* The template is built: all pairs are there.
LEMMA TemplateBuiltRetraces ==
  ASSUME TemplateTyped, TemplateBuilt, BuildPairs(nodes, work)
  PROVE  WalkPairs(nodes', work', column')
<1>1. work = <<>> /\ nodes' = nodes /\ work' = <<>> /\ column' = column /\ nodes # <<>>
  BY DEF TemplateBuilt, TemplateTyped, PhaseTyped
<1>2. PairedTemplate(nodes) /\ nodes[1].key = RootPair
  BY <1>1 DEF BuildPairs
<1>3. AllPaired(nodes)
  <2>1. \A n \in DOMAIN nodes : Splitting(nodes, n) =>
          \A r \in BothRoles(nodes[n].key) : \A k \in Pairs(nodes[n].key, r) :
            HasPair(nodes, n, r, k) \/ \E w \in ToSet(work) : w.parent = n /\ PairOf(w) = k
    BY DEF BuildPairs
  <2>2. ToSet(work) = {}
    BY <1>1 DEF ToSet
  <2> QED BY <2>1, <2>2 DEF AllPaired
<1>4. WalkPairs(nodes, <<>>, column)
  <2>1. ToSet(<<>>) = {}
    BY DEF ToSet
  <2> QED BY <1>2, <1>3, <2>1 DEF WalkPairs
<1> QED BY <1>1, <1>4

\* The nodes of a new walk: none of them was seen.
LEMMA StartSame ==
  ASSUME NEW ns, Wellformed(ns), NEW ms, ms = [n \in DOMAIN ns |-> [ns[n] EXCEPT !.seen = FALSE]]
  PROVE  SameNodes(ns, ms)
<1>1. ASSUME NEW n \in DOMAIN ns
      PROVE  /\ ms[n] \in NodeRecord /\ ms[n].children = ns[n].children
             /\ ms[n].key = ns[n].key /\ ms[n].role = ns[n].role /\ ms[n].stop = ns[n].stop
  <2>1. ns[n] \in NodeRecord /\ ms[n] = [ns[n] EXCEPT !.seen = FALSE]
    BY NodeFields
  <2> QED BY <2>1 DEF NodeRecord
<1>2. DOMAIN ms = DOMAIN ns /\ ms = [n \in DOMAIN ms |-> ms[n]]
  OBVIOUS
<1>3. Wellformed(ms) /\ Len(ms) = Len(ns) /\ Keeps(ns, ms)
  BY <1>1, <1>2, MapNodes
<1> QED BY <1>1, <1>2, <1>3 DEF SameNodes

\* A walk starts at the root.
LEMMA StartWalkRetraces ==
  ASSUME TemplateTyped, read = 2, StartWalk, WalkPairs(nodes, work, column)
  PROVE  WalkPairs(nodes', work', column')
<1>1. /\ phase = "walk" /\ toWalk # <<>> /\ column' = Head(toWalk)
      /\ nodes' = [n \in DOMAIN nodes |-> [nodes[n] EXCEPT !.seen = FALSE]]
      /\ work' = <<[kind |-> "pair", parent |-> Nothing, node |-> 1, drv |-> roots[column'], base |-> Nothing]>>
  BY DEF StartWalk
<1>2. Wellformed(nodes) /\ 1 \in DOMAIN nodes /\ toWalk \in Seq(1..2)
  BY <1>1, WalkContext DEF ReadTyped
<1>3. column' \in {1, 2}
  BY <1>1, <1>2
<1>4. PICK ms : ms = nodes' /\ SameNodes(nodes, ms)
  BY <1>1, <1>2, StartSame
<1>5. PairedTemplate(nodes) /\ AllPaired(nodes) /\ nodes[1].key = RootPair
  BY DEF WalkPairs
<1>6. PairedTemplate(ms) /\ AllPaired(ms) /\ ms[1].key = RootPair
  BY <1>2, <1>4, <1>5, SamePaired
<1>7. PICK c \in {1, 2} : c = column'
  BY <1>3
<1>8. PICK w : w = [kind |-> "pair", parent |-> Nothing, node |-> 1, drv |-> roots[c], base |-> Nothing]
  OBVIOUS
<1>9. ItemRetraces(ms, c, w)
  <2>1. ms[1].key[c] = roots[c]
    BY <1>6 DEF RootPair
  <2>2. w.kind = "pair" /\ w.kind # "extend" /\ w.parent = Nothing /\ w.node = 1 /\ w.drv = roots[c]
    BY <1>8
  <2> QED BY <2>1, <2>2 DEF ItemRetraces
<1>10. work' = <<w>>
  BY <1>1, <1>7, <1>8
<1>11. WalkPairs(ms, <<w>>, c)
  <2>1. ToSet(<<w>>) = {w}
    BY DEF ToSet
  <2>2. \A i, j \in DOMAIN <<w>> : ~(i < j)
    OBVIOUS
  <2> QED BY <1>6, <1>9, <2>1, <2>2 DEF WalkPairs
<1> QED BY <1>4, <1>7, <1>10, <1>11

\* The rows retrace the template.
Retraced(ns, rs) ==
  \A n \in DOMAIN rs : \A i \in DOMAIN rs[n] : i <= 2 /\ Twofold(ns[n].key) => rs[n][i] \in {Nothing, ns[n].key[i]}

\* So does the property say, before and after a step.
LEMMA CalibrationIs == (CalibrationRetraces <=> Retraced(nodes, rows)) /\ (CalibrationRetraces' <=> Retraced(nodes', rows'))
<1>1. CalibrationRetraces <=> Retraced(nodes, rows)
  BY DEF CalibrationRetraces, Retraced
<1>2. CalibrationRetraces' <=> Retraced(nodes', rows')
  BY DEF CalibrationRetraces, Retraced
<1> QED BY <1>1, <1>2

\* A place in the current column.
LEMMA PlaceRetraced ==
  ASSUME NEW ns, NEW rs, NEW n \in DOMAIN rs, Retraced(ns, rs), rs[n] \in Seq(Derivation), NEW k, NEW d,
         k <= 2 /\ Twofold(ns[n].key) => d = ns[n].key[k]
  PROVE  LET r == [rs[n] EXCEPT ![k] = d] IN
         \A i \in DOMAIN r : i <= 2 /\ Twofold(ns[n].key) => r[i] \in {Nothing, ns[n].key[i]}
<1>1. PICK r : r = [rs[n] EXCEPT ![k] = d]
  OBVIOUS
<1>2. DOMAIN r = DOMAIN rs[n] /\ \A i \in DOMAIN r : r[i] = IF i = k THEN d ELSE rs[n][i]
  BY <1>1
<1>3. ASSUME NEW i \in DOMAIN r, i <= 2, Twofold(ns[n].key) PROVE r[i] \in {Nothing, ns[n].key[i]}
  <2>1. CASE i = k
    BY <1>2, <1>3, <2>1
  <2>2. CASE i # k
    <3>1. rs[n][i] \in {Nothing, ns[n].key[i]}
      BY <1>2, <1>3 DEF Retraced
    <3> QED BY <1>2, <2>2, <3>1
  <2> QED BY <2>1, <2>2
<1> QED BY <1>1, <1>3

\* Rows that stay retrace a template that grows.
LEMMA KeptRetraced ==
  ASSUME NEW ns, NEW ms, Keeps(ns, ms), NEW rs, DOMAIN rs = DOMAIN ns, Retraced(ns, rs)
  PROVE  Retraced(ms, rs)
<1>1. \A n \in DOMAIN rs : ms[n].key = ns[n].key
  BY DEF Keeps
<1> QED BY <1>1 DEF Retraced

\* One row more.
LEMMA LongerRetraced ==
  ASSUME NEW ms, NEW X, NEW rs \in Seq(X), Retraced(ms, rs), NEW r \in X,
         \A i \in DOMAIN r : i <= 2 /\ Twofold(ms[Len(rs) + 1].key) => r[i] \in {Nothing, ms[Len(rs) + 1].key[i]}
  PROVE  Retraced(ms, Append(rs, r))
<1>1. PICK len \in Nat : len = Len(rs) /\ DOMAIN rs = 1..len
  OBVIOUS
<1>2. PICK qs : qs = Append(rs, r)
  OBVIOUS
<1>3. DOMAIN qs = 1..(len + 1) /\ qs[len + 1] = r /\ \A n \in 1..len : qs[n] = rs[n]
  BY <1>1, <1>2
<1>4. ASSUME NEW n \in 1..(len + 1), NEW i \in DOMAIN qs[n], i <= 2, Twofold(ms[n].key)
      PROVE  qs[n][i] \in {Nothing, ms[n].key[i]}
  <2>1. CASE n = len + 1
    BY <1>1, <1>3, <1>4, <2>1
  <2>2. CASE n # len + 1
    <3>1. n \in 1..len /\ n \in DOMAIN rs /\ qs[n] = rs[n]
      BY <1>1, <1>3, <2>2
    <3> QED BY <1>4, <3>1 DEF Retraced
  <2> QED BY <2>1, <2>2
<1> QED BY <1>2, <1>3, <1>4 DEF Retraced

\* What the walk puts at a node that stands for two derivations.
LEMMA CurrentDerivation ==
  ASSUME TemplateTyped, InOrder, phase = "walk", work # <<>>, read = 2 => WalkPairs(nodes, work, column),
         NEW w, w = Head(work), w.kind = "pair", Position <= 2, Twofold(nodes[w.node].key)
  PROVE  w.drv = nodes[w.node].key[Position]
<1>1. read \in Nat /\ w.node \in DOMAIN nodes /\ work \in Seq(WalkItems(Len(nodes))) /\ Position \in Nat
  <2>1. read \in Nat
    BY DEF TemplateTyped, ReadTyped, TreesTyped
  <2> QED BY <2>1, WalkContext
<1>2. CASE read = 2
  <2>1. ItemRetraces(nodes, column, w)
    BY <1>1, <1>2, RestRetraces
  <2>2. column = Position
    BY DEF InOrder
  <2> QED BY <2>1, <2>2 DEF ItemRetraces
<1>3. CASE read >= 3
  BY <1>1, <1>3 DEF InOrder
<1>4. CASE read < 2
  BY <1>1, <1>4 DEF InOrder, Twofold
<1> QED BY <1>1, <1>2, <1>3, <1>4

\* A new walk has put nothing anywhere yet.
LEMMA StartWalkRows ==
  ASSUME TemplateTyped, StartWalk, Retraced(nodes, rows)
  PROVE  Retraced(nodes', rows')
<1>1. phase = "walk" /\ rows' = [n \in DOMAIN rows |-> Append(rows[n], Nothing)]
  BY DEF StartWalk
<1>2. DOMAIN rows = DOMAIN nodes /\ \A n \in DOMAIN nodes : rows[n] \in Seq(Derivation)
  BY <1>1, WalkContext
<1>3. PICK ms : ms = nodes' /\ Keeps(nodes, ms)
  BY TypedStartWalk DEF Grows
<1>4. Retraced(ms, rows)
  BY <1>2, <1>3, KeptRetraced
<1>5. PICK rs : rs = rows'
  OBVIOUS
<1>6. ASSUME NEW n \in DOMAIN rows, NEW i \in DOMAIN Append(rows[n], Nothing), i <= 2, Twofold(ms[n].key)
      PROVE  Append(rows[n], Nothing)[i] \in {Nothing, ms[n].key[i]}
  <2>1. PICK r \in Seq(Derivation) : r = rows[n]
    BY <1>2
  <2>2. CASE i = Len(r) + 1
    BY <2>1, <2>2
  <2>3. CASE i # Len(r) + 1
    <3>1. i \in DOMAIN r /\ Append(r, Nothing)[i] = r[i]
      BY <1>6, <2>1, <2>3
    <3>2. r[i] \in {Nothing, ms[n].key[i]}
      BY <1>4, <1>6, <2>1, <3>1 DEF Retraced
    <3> QED BY <2>1, <3>1, <3>2
  <2> QED BY <2>2, <2>3
<1>7. Retraced(ms, rs)
  BY <1>1, <1>5, <1>6 DEF Retraced
<1> QED BY <1>3, <1>5, <1>7

\* A visit puts the derivation of the item into the column.
LEMMA VisitNodeRows ==
  ASSUME TemplateTyped, InOrder, read = 2 => WalkPairs(nodes, work, column), VisitNode, Retraced(nodes, rows)
  PROVE  Retraced(nodes', rows')
<1>1. PICK w : w = Head(work)
  OBVIOUS
<1>2. phase = "walk" /\ work # <<>> /\ w.kind = "pair" /\ rows' = [rows EXCEPT ![w.node][Position] = w.drv]
  BY <1>1 DEF VisitNode, Fresh, Item
<1>3. /\ w.node \in DOMAIN rows /\ DOMAIN rows = DOMAIN nodes /\ rows \in Seq(Seq(Derivation))
      /\ \A n \in DOMAIN rows : rows[n] \in Seq(Derivation)
  BY <1>1, <1>2, WalkContext
<1>4. PICK ms : ms = nodes' /\ Keeps(nodes, ms)
  BY <1>1, TypedVisitNode DEF Grows
<1>5. PICK n \in DOMAIN rows : n = w.node
  BY <1>3
<1>6. PICK k : k = Position
  OBVIOUS
<1>7. PICK d : d = w.drv
  OBVIOUS
<1>8. k <= 2 /\ Twofold(nodes[n].key) => d = nodes[n].key[k]
  BY <1>1, <1>7, <1>2, <1>5, <1>6, CurrentDerivation
<1>9. PICK r : r = [rows[n] EXCEPT ![k] = d]
  OBVIOUS
<1>10. \A i \in DOMAIN r : i <= 2 /\ Twofold(nodes[n].key) => r[i] \in {Nothing, nodes[n].key[i]}
  <2>1. rows[n] \in Seq(Derivation)
    BY <1>3
  <2> QED BY <1>8, <1>9, <2>1, PlaceRetraced, ZenonT(120)
<1>11. PICK rs : rs = rows' /\ rs = [rows EXCEPT ![n] = r]
  BY <1>2, <1>5, <1>6, <1>9, <1>7
<1>12. DOMAIN rs = DOMAIN rows /\ \A m \in DOMAIN rows : rs[m] = IF m = n THEN r ELSE rows[m]
  BY <1>3, <1>11
<1>13. Retraced(nodes, rs)
  BY <1>10, <1>12 DEF Retraced
<1>14. Retraced(ms, rs)
  BY <1>3, <1>4, <1>12, <1>13, KeptRetraced
<1> QED BY <1>4, <1>11, <1>14

\* A clone stands for what its original stands for.
LEMMA RevisitSplitRows ==
  ASSUME TemplateTyped, InOrder, read = 2 => WalkPairs(nodes, work, column), RevisitSplit, Retraced(nodes, rows)
  PROVE  Retraced(nodes', rows') /\ nodes'[Len(nodes) + 1].key = nodes[Head(work).node].key
<1>1. PICK w : w = Head(work)
  OBVIOUS
<1>2. PICK new : new = Len(nodes) + 1
  BY Zenon
<1>3. /\ phase = "walk" /\ work # <<>> /\ w.kind = "pair" /\ w.parent # Nothing
      /\ rows' = Append(rows, [rows[w.node] EXCEPT ![Position] = w.drv])
  <2>1. Splits /\ Again /\ rows' = Append(rows, [rows[w.node] EXCEPT ![Position] = w.drv])
    BY <1>1, ZenonT(120) DEF RevisitSplit
  <2> QED BY ONLY <1>1, <2>1 DEF Again, Item, Splits
<1>4. PICK ns :
      /\ ns = Append([nodes EXCEPT ![w.node].enforce = IF @ = Nothing THEN Occupant ELSE @,
                                   ![w.parent].children = Replaced(@, w.node, new)],
                     [nodes[w.node] EXCEPT !.enforce = w.drv, !.seen = TRUE])
      /\ IF w.drv \in expanded[column] THEN WalkChildren(ns, new, w.node, w.drv)
         ELSE nodes' = ns
  BY <1>1, <1>2, Zenon DEF RevisitSplit, SkipWork
<1>5. /\ TreesTyped /\ Wellformed(nodes) /\ w.node \in DOMAIN nodes /\ w.drv \in Drv /\ w \in WalkItems(Len(nodes))
      /\ DOMAIN nodes = 1..Len(nodes) /\ Len(nodes) \in Nat /\ DOMAIN rows = DOMAIN nodes
      /\ rows \in Seq(Seq(Derivation)) /\ Len(rows) = Len(nodes)
      /\ (\A k \in DOMAIN nodes : rows[k] \in Seq(Derivation) /\ Len(rows[k]) = Position) /\ Position \in Nat \ {0}
  BY <1>1, <1>3, WalkContext
<1>6. PICK n \in DOMAIN nodes : n = w.node
  BY <1>5
<1>7. PICK d \in Drv : d = w.drv
  BY <1>5
<1>8. PICK q \in DOMAIN nodes : q = w.parent
  BY <1>3, <1>5, WalkItemFields
<1>9. PICK k \in Nat \ {0} : k = Position
  BY <1>5
<1>10. rows[n] \in Seq(Derivation) /\ Len(rows[n]) = k
  BY <1>5, <1>9
<1>11. PICK o \in Derivation : o = Occupant
  <2>1. Occupant = rows[n][k]
    BY <1>1, <1>6, <1>9 DEF Occupant
  <2>2. rows[n][k] \in Derivation
    BY <1>10
  <2> QED BY <2>1, <2>2
<1>12. ns = Clone(nodes, n, q, o, d)
  BY <1>2, <1>4, <1>6, <1>7, <1>8, <1>11 DEF Clone
<1>13. Wellformed(nodes)
  BY <1>5
<1>14. ns[new].key = nodes[n].key
  BY ONLY <1>2, <1>12, <1>13, n \in DOMAIN nodes, q \in DOMAIN nodes, CloneFields
<1>15. Wellformed(ns) /\ Keeps(nodes, ns) /\ Len(ns) = new
  <2>1. Wellformed(ns) /\ Keeps(nodes, ns) /\ Cloned(nodes, ns, n)
    BY ONLY <1>12, <1>13, n \in DOMAIN nodes, q \in DOMAIN nodes, o \in Derivation, d \in Drv, CloneNode
  <2> QED BY <1>2, <2>1 DEF Cloned
<1>16. new \in DOMAIN ns /\ new \in 0..Len(ns)
  BY <1>2, <1>5, <1>15, WellformedIs
<1>17. PICK ms : ms = nodes' /\ Keeps(ns, ms)
  <2>1. CASE d \in expanded[column]
    <3>1. WalkChildren(ns, new, n, d)
      BY <1>4, <1>6, <1>7, <2>1
    <3> QED BY <1>5, <1>15, <1>16, <3>1, WalkChildrenFacts
  <2>2. CASE d \notin expanded[column]
    <3>1. nodes' = ns
      BY <1>4, <1>7, <2>2
    <3> QED BY <1>15, <3>1, KeepsSelf
  <2> QED BY <2>1, <2>2
<1>18. Keeps(nodes, ms)
  BY <1>1, <1>17, TypedRevisitSplit DEF Grows
<1>19. Retraced(ms, rows)
  BY <1>5, <1>18, KeptRetraced
<1>20. ms[new].key = nodes[n].key
  BY <1>14, <1>16, <1>17 DEF Keeps
<1>21. PICK r : r = [rows[n] EXCEPT ![k] = d]
  OBVIOUS
<1>22. r \in Seq(Derivation)
  <2>1. d \in Derivation /\ k \in DOMAIN rows[n]
    BY <1>10 DEF Derivation
  <2> QED BY <1>10, <1>21, <2>1
<1>23. \A i \in DOMAIN r : i <= 2 /\ Twofold(nodes[n].key) => r[i] \in {Nothing, nodes[n].key[i]}
  <2>1. k <= 2 /\ Twofold(nodes[n].key) => d = nodes[n].key[k]
    BY <1>1, <1>3, <1>6, <1>7, <1>9, CurrentDerivation
  <2> QED BY <1>5, <1>10, <1>21, <2>1, PlaceRetraced, ZenonT(120)
<1>24. Retraced(ms, Append(rows, r))
  <2>1. \A i \in DOMAIN r : i <= 2 /\ Twofold(ms[Len(rows) + 1].key) => r[i] \in {Nothing, ms[Len(rows) + 1].key[i]}
    BY <1>2, <1>5, <1>20, <1>23
  <2>2. PICK X : X = Seq(Derivation) /\ rows \in Seq(X) /\ r \in X
    BY <1>5, <1>22
  <2> QED BY <1>19, <2>1, <2>2, LongerRetraced
<1>25. rows' = Append(rows, r)
  BY <1>3, <1>6, <1>7, <1>9, <1>21
<1> QED BY <1>1, <1>2, <1>6, <1>17, <1>20, <1>24, <1>25

\* An extension stands for one derivation.
LEMMA ExtendRows ==
  ASSUME TemplateTyped, Extend, Retraced(nodes, rows)
  PROVE  Retraced(nodes', rows')
<1>1. PICK w : w = Head(work)
  OBVIOUS
<1>2. phase = "walk" /\ work # <<>>
  BY Zenon DEF Extend, Item
<1>3. DOMAIN rows = DOMAIN nodes /\ Len(rows) = Len(nodes) /\ rows \in Seq(Seq(Derivation)) /\ DOMAIN nodes = 1..Len(nodes)
      /\ Len(nodes) \in Nat
  BY <1>2, WalkContext
<1>4. CASE ~NewExtension(w)
  <2>1. rows' = rows /\ Keeps(nodes, nodes')
    BY <1>1, <1>4, TypedExtendThere DEF Grows
  <2> QED BY <1>3, <2>1, KeptRetraced
<1>5. CASE NewExtension(w)
  <2>1. PICK new : new = Len(nodes) + 1
    OBVIOUS
  <2>2. PICK ms : /\ ms = nodes' /\ Keeps(nodes, ms) /\ DOMAIN ms = DOMAIN nodes \cup {new} /\ new \notin DOMAIN nodes
                  /\ Len(ms) = new /\ ms[new].key = <<w.drv>> /\ \A n \in DOMAIN nodes : rows'[n] = rows[n]
    BY <1>1, <1>5, <2>1, TypedExtendNew, ZenonT(60) DEF Grows
  <2>3. PICK rs : rs = rows' /\ DOMAIN rs = DOMAIN ms
    <3>1. NodesTyped' /\ PhaseTyped' /\ phase' = "walk"
      <4>1. TemplateTyped'
        BY <1>1, <1>5, <2>1, TypedExtendNew, Zenon
      <4>2. phase' = phase
        BY Zenon DEF Extend
      <4> QED BY <1>2, <4>1, <4>2 DEF TemplateTyped
    <3>2. Len(rows') = Len(nodes') /\ rows' \in Seq(Seq(Derivation)) /\ nodes' \in Seq(NodeRecord)
      BY <3>1 DEF NodesTyped, PhaseTyped, Wellformed
    <3> QED BY <2>2, <3>2
  <2>4. ASSUME NEW n \in DOMAIN rs, NEW i \in DOMAIN rs[n], i <= 2, Twofold(ms[n].key) PROVE rs[n][i] \in {Nothing, ms[n].key[i]}
    <3>1. n # new
      BY <2>2, <2>4 DEF Twofold
    <3>2. n \in DOMAIN nodes /\ rs[n] = rows[n] /\ ms[n].key = nodes[n].key
      BY <2>2, <2>3, <3>1 DEF Keeps
    <3> QED BY <1>3, <2>4, <3>2 DEF Retraced
  <2>5. Retraced(ms, rs)
    BY <2>4 DEF Retraced
  <2> QED BY <2>2, <2>3, <2>5
<1> QED BY <1>4, <1>5

\* A step of a walk stays in order.
LEMMA WalkInOrder ==
  ASSUME InOrder, phase = "walk", work # <<>>, phase' = phase, toWalk' = toWalk, column' = column,
         read' = read, roots' = roots, Position' = Position,
         read < 2 => \A n \in DOMAIN nodes' : Len(nodes'[n].key) = 1, nodes # <<>>
  PROVE  InOrder'
<1>1. /\ Position + Len(toWalk) = read /\ \A i \in DOMAIN toWalk : toWalk[i] = Position + i
      /\ column = Position /\ (read >= 3 => Position >= 3 /\ Position >= 2)
  BY DEF InOrder
<1>2. read >= 1 /\ (read = 1 => Len(roots) = 1)
  BY DEF InOrder
<1>3. phase' # "read" /\ phase' # "build"
  OBVIOUS
<1>4. Position' + Len(toWalk') = read' /\ \A i \in DOMAIN toWalk' : toWalk'[i] = Position' + i
  BY <1>1
<1>5. column' = Position' /\ (read' >= 3 => Position' >= 2 /\ Position' >= 3)
  BY <1>1
<1>6. (read' < 2 => \A n \in DOMAIN nodes' : Len(nodes'[n].key) = 1) /\ read' >= 1 /\ (read' = 1 => Len(roots') = 1)
  BY <1>2
<1> QED BY ONLY <1>3, <1>4, <1>5, <1>6 DEF InOrder

\* Nodes that stay what they are.
LEMMA KeysKept ==
  ASSUME NEW ns, NEW ms, Keeps(ns, ms), DOMAIN ms = DOMAIN ns, \A n \in DOMAIN ns : Len(ns[n].key) = 1
  PROVE  \A n \in DOMAIN ms : Len(ms[n].key) = 1
BY DEF Keeps

\* Reading a variant: the first two are put aside, the others walked at once.
LEMMA ReadInOrder ==
  ASSUME TemplateTyped, InOrder, ReadVariant
  PROVE  InOrder' /\ (read' = 2 /\ phase' = "build" => BuildPairs(nodes', work')) /\ ~(read' = 2 /\ phase' = "walk")
<1>1. /\ phase = "read" /\ read < Len(roots) /\ read' = read + 1
      /\ roots' = roots /\ nodes' = nodes /\ rows' = rows /\ column' = column
      /\ IF nodes # <<>>
         THEN phase' = "walk" /\ toWalk' = <<read + 1>> /\ pending' = pending /\ work' = work
         ELSE /\ pending' = Append(pending, read + 1)
              /\ IF pending = <<>> THEN phase' = phase /\ work' = work
                 ELSE /\ phase' = "build"
                      /\ work' = <<[parent |-> Nothing, left |-> roots[pending[1]], right |-> roots[read + 1]]>>
  BY DEF ReadVariant, treeVars
<1>2. read \in Nat /\ Len(roots) \in Nat /\ work = <<>> /\ roots \in Seq(Drv)
  BY <1>1 DEF TemplateTyped, TreesTyped, ReadTyped, PhaseTyped
<1>3. CASE nodes # <<>>
  <2>1. /\ Position = read /\ read >= 1 /\ (read = 1 => Len(roots) = 1)
    BY <1>1, <1>3 DEF InOrder
  <2>2. read >= 2 /\ read' >= 3
    BY <1>1, <1>2, <2>1
  <2>3. phase' = "walk" /\ toWalk' = <<read'>> /\ work' = <<>> /\ Position' = Position
    BY <1>1, <1>2, <1>3 DEF Position
  <2>4. Position' + Len(toWalk') = read' /\ \A i \in DOMAIN toWalk' : toWalk'[i] = Position' + i
    BY <1>1, <1>2, <2>1, <2>3
  <2>5. Position' >= 2
    BY <2>1, <2>2, <2>3
  <2>6. ~(read' < 2) /\ read' # 1 /\ read' >= 1
    BY <1>1, <1>2, <2>2
  <2>7. InOrder'
    BY ONLY <2>3, <2>4, <2>5, <2>6 DEF InOrder
  <2> QED BY <1>1, <1>2, <2>2, <2>3, <2>7
<1>4. CASE nodes = <<>>
  <2>1. read <= 1 /\ pending = [i \in 1..read |-> i]
    BY <1>1, <1>4 DEF InOrder
  <2>2. nodes' = <<>> /\ \A n \in DOMAIN nodes' : Len(nodes'[n].key) = 1
    BY <1>1, <1>4
  <2>3. pending' = [i \in 1..read' |-> i]
    <3>1. CASE read = 0
      <4>1. pending = <<>>
        BY <2>1, <3>1
      <4>2. pending' = <<1>>
        BY <1>1, <1>4, <3>1, <4>1
      <4> QED BY <1>1, <3>1, <4>2
    <3>2. CASE read = 1
      <4>1. pending = <<1>>
        BY <2>1, <3>2
      <4>2. pending' = <<1, 2>>
        BY <1>1, <1>4, <3>2, <4>1
      <4> QED BY <1>1, <3>2, <4>2
    <3> QED BY <1>2, <2>1, <3>1, <3>2
  <2>4. CASE read = 0
    <3>1. pending = <<>>
      BY <2>1, <2>4
    <3>2. phase' = "read" /\ read' = 1
      BY <1>1, <1>4, <2>4, <3>1
    <3>3. InOrder'
      BY ONLY <2>2, <2>3, <3>2 DEF InOrder
    <3> QED BY <3>2, <3>3
  <2>5. CASE read = 1
    <3>1. pending = <<1>> /\ pending # <<>>
      BY <2>1, <2>5
    <3>2. phase' = "build" /\ read' = 2 /\ work' = <<[parent |-> Nothing, left |-> roots[1], right |-> roots[2]]>>
      BY <1>1, <1>4, <2>5, <3>1
    <3>3. InOrder'
      BY ONLY <2>2, <2>3, <3>2 DEF InOrder
    <3>4. PICK w : w = [parent |-> Nothing, left |-> roots[1], right |-> roots[2]]
      OBVIOUS
    <3>5. BuildPairs(<<>>, <<w>>)
      <4>1. ToSet(<<w>>) = {w} /\ w.parent = Nothing
        BY <3>4 DEF ToSet
      <4>2. ItemPaired(<<>>, w)
        BY <4>1 DEF ItemPaired, SharedItem
      <4>3. PairedTemplate(<<>>)
        BY DEF PairedTemplate
      <4>4. \A i, j \in DOMAIN <<w>> : ~(i < j)
        OBVIOUS
      <4> QED BY <3>4, <4>1, <4>2, <4>3, <4>4 DEF BuildPairs
    <3> QED BY <2>2, <3>2, <3>3, <3>4, <3>5
  <2> QED BY <1>2, <2>1, <2>4, <2>5
<1> QED BY <1>3, <1>4

\* The end of the section: a variant that stayed alone gets a template of its own.
LEMMA CloseInOrder ==
  ASSUME TemplateTyped, InOrder, CloseMatrix
  PROVE  InOrder' /\ (phase' = "build" => read' # 2) /\ phase' # "walk"
<1>1. /\ phase = "read" /\ read = Len(roots) /\ read' = read /\ roots' = roots /\ nodes' = nodes
      /\ pending' = pending /\ rows' = rows /\ phase' = IF pending = <<>> THEN "closed" ELSE "build"
  BY DEF CloseMatrix, treeVars, readVars
<1>2. read \in Nat /\ (nodes = <<>> \/ pending = <<>>)
  BY <1>1 DEF TemplateTyped, TreesTyped, ReadTyped, PhaseTyped
<1>3. read < 2 => \A n \in DOMAIN nodes : Len(nodes[n].key) = 1
  BY DEF InOrder
<1>4. CASE pending = <<>>
  <2>1. phase' = "closed"
    BY <1>1, <1>4
  <2>2. nodes' # <<>> => read' >= 1 /\ (read' = 1 => Len(roots') = 1)
    BY <1>1 DEF InOrder
  <2>3. read' < 2 => \A n \in DOMAIN nodes' : Len(nodes'[n].key) = 1
    BY <1>1, <1>3
  <2>4. InOrder'
    BY ONLY <2>1, <2>2, <2>3 DEF InOrder
  <2> QED BY <2>1, <2>4
<1>5. CASE pending # <<>>
  <2>1. phase' = "build" /\ nodes = <<>>
    BY <1>1, <1>2, <1>5
  <2>2. read <= 1 /\ pending = [i \in 1..read |-> i]
    BY <1>1, <2>1 DEF InOrder
  <2>3. read = 1
    <3>1. read # 0
      BY <1>5, <2>2
    <3> QED BY <1>2, <2>2, <3>1
  <2>4. read' = 1 /\ pending' = [i \in 1..read' |-> i] /\ Len(roots') = 1
    BY <1>1, <2>2, <2>3
  <2>5. \A n \in DOMAIN nodes' : Len(nodes'[n].key) = 1
    BY <1>1, <2>1
  <2>6. InOrder'
    BY ONLY <2>1, <2>4, <2>5 DEF InOrder
  <2> QED BY <2>1, <2>4, <2>6
<1> QED BY <1>4, <1>5

\* A visit of the builder: a template of one variant stands for roles.
LEMMA BuildInOrder ==
  ASSUME TemplateTyped, InOrder, BuildVisit
  PROVE  InOrder'
<1>1. PICK w : w = Head(work)
  OBVIOUS
<1>2. PICK there : there = {n \in DOMAIN nodes : nodes[n].key = NodeKey(w)}
  OBVIOUS
<1>3. PICK n : n = IF there = {} THEN Len(nodes) + 1 ELSE CHOOSE m \in there : TRUE
  OBVIOUS
<1>4. PICK role, stop, optional : \A key : TemplateNode(key, role, stop, optional) =
                      TemplateNode(key, DrvRole[IF w.left = Nothing THEN w.right ELSE w.left], IsStop({w.left, w.right}), Nothing \in {w.left, w.right})
  OBVIOUS
<1>5. PICK grown : grown = IF there # {} THEN nodes
                  ELSE Append(nodes, TemplateNode(NodeKey(w), role, stop, optional))
  OBVIOUS
<1>6. /\ phase = "build" /\ phase' = "build" /\ read' = read /\ roots' = roots /\ pending' = pending
      /\ nodes' = WithChild(grown, w.parent, n)
  BY <1>1, <1>2, <1>3, <1>4, <1>5 DEF BuildVisit, treeVars, readVars
<1>7. read \in {1, 2} /\ pending = [i \in 1..read |-> i] /\ (read = 1 => Len(roots) = 1)
  BY <1>6 DEF InOrder
<1>8. ASSUME read < 2 PROVE \A m \in DOMAIN nodes' : Len(nodes'[m].key) = 1
  <2>1. Alone
    <3>1. pending = <<1>>
      BY <1>7, <1>8
    <3> QED BY <3>1 DEF Alone
  <2>2. Len(NodeKey(w)) = 1
    BY <2>1 DEF NodeKey
  <2>3. Wellformed(nodes) /\ \A m \in DOMAIN nodes : Len(nodes[m].key) = 1
    BY <1>8 DEF TemplateTyped, NodesTyped, InOrder
  <2>4. PICK e : e = TemplateNode(NodeKey(w), role, stop, optional)
    OBVIOUS
  <2>5. Len(e.key) = 1
    BY <2>2, <2>4 DEF TemplateNode
  <2>6. \A m \in DOMAIN grown : Len(grown[m].key) = 1
    <3>1. CASE grown = nodes
      BY <2>3, <3>1
    <3>2. CASE grown = Append(nodes, e)
      <4>1. PICK len \in Nat : DOMAIN nodes = 1..len /\ len = Len(nodes)
        BY <2>3 DEF Wellformed
      <4>2. DOMAIN grown = 1..(len + 1) /\ grown[len + 1] = e /\ \A m \in 1..len : grown[m] = nodes[m]
        BY <2>3, <3>2, <4>1 DEF Wellformed
      <4>3. \A m \in 1..(len + 1) : m = len + 1 \/ m \in 1..len
        BY <4>1
      <4> QED BY <2>3, <2>5, <4>1, <4>2, <4>3
    <3> QED BY <1>5, <2>4, <3>1, <3>2
  <2>7. PICK ms : ms = WithChild(grown, w.parent, n)
    OBVIOUS
  <2>8. DOMAIN ms = DOMAIN grown /\ \A m \in DOMAIN grown : ms[m].key = grown[m].key
    BY <2>7 DEF WithChild
  <2> QED BY <1>6, <2>6, <2>7, <2>8
<1>9. read' \in {1, 2} /\ pending' = [i \in 1..read' |-> i] /\ (read' = 1 => Len(roots') = 1) /\ phase' = "build"
  BY <1>6, <1>7
<1>10. read' < 2 => \A m \in DOMAIN nodes' : Len(nodes'[m].key) = 1
  BY <1>6, <1>8
<1> QED BY ONLY <1>9, <1>10 DEF InOrder

\* The root is all there is when the template is begun.
LEMMA RootAlone ==
  ASSUME roots' = roots, nodes' = <<>>, BuildPairs(nodes', work')
  PROVE  BuildPairs(nodes, work)'
<1>1. PICK w : w = [parent |-> Nothing, left |-> roots[1], right |-> roots[2]]
  OBVIOUS
<1>2. work' = <<w>> /\ ToSet(work') = {w} /\ w.parent = Nothing
  <2>1. work' = <<w>>
    BY <1>1 DEF BuildPairs
  <2>2. ToSet(<<w>>) = {w}
    BY DEF ToSet
  <2> QED BY <1>1, <2>1, <2>2
<1>3. ItemPaired(nodes, w)'
  BY <1>2 DEF ItemPaired, SharedItem
<1>4. PairedTemplate(nodes)' /\ \A n \in DOMAIN nodes' : (Splitting(nodes, n)' => FALSE) /\ nodes'[n].role = KeyRole(nodes'[n].key)
  BY DEF PairedTemplate
<1>5. \A i, j \in DOMAIN work' : ~(i < j)
  BY <1>2
<1>6. IF nodes' = <<>> THEN work' = <<[parent |-> Nothing, left |-> roots'[1], right |-> roots'[2]]>>
      ELSE nodes'[1].key = RootPair' /\ \A y \in ToSet(work') : y.parent # Nothing
  BY <1>1, <1>2
<1> QED BY <1>2, <1>3, <1>4, <1>5, <1>6 DEF BuildPairs

\* The walks of the first variants begin in order.
LEMMA BuiltInOrder ==
  ASSUME TemplateTyped, InOrder, TemplateBuilt
  PROVE  InOrder' /\ phase' = "walk" /\ Retraced(nodes', rows')
<1>1. /\ phase = "build" /\ work' = <<>> /\ phase' = "walk" /\ toWalk' = pending
      /\ rows' = [n \in DOMAIN nodes |-> <<>>] /\ nodes' = nodes /\ read' = read /\ roots' = roots
  BY DEF TemplateBuilt, treeVars
<1>2. Wellformed(nodes) /\ nodes # <<>> /\ 1 \in DOMAIN nodes
  <2>1. Wellformed(nodes) /\ nodes # <<>>
    BY <1>1 DEF TemplateTyped, NodesTyped, PhaseTyped, TemplateBuilt
  <2> QED BY <2>1 DEF Wellformed
<1>3. read \in {1, 2} /\ pending = [i \in 1..read |-> i] /\ (read = 1 => Len(roots) = 1)
  BY <1>1 DEF InOrder
<1>4. Position' = 0
  BY <1>1, <1>2 DEF Position
<1>5. Position' + Len(toWalk') = read' /\ \A i \in DOMAIN toWalk' : toWalk'[i] = Position' + i
  <2>1. Len(pending) = read /\ \A i \in DOMAIN pending : pending[i] = 0 + i
    BY <1>3
  <2> QED BY <1>1, <1>3, <1>4, <2>1
<1>6. ~(read' >= 3) /\ read' >= 1 /\ (read' = 1 => Len(roots') = 1)
  BY <1>1, <1>3
<1>7. read' < 2 => \A n \in DOMAIN nodes' : Len(nodes'[n].key) = 1
  BY <1>1 DEF InOrder
<1>8. InOrder'
  BY ONLY <1>1, <1>5, <1>6, <1>7 DEF InOrder
<1>9. Retraced(nodes', rows')
  BY <1>1 DEF Retraced
<1> QED BY <1>1, <1>8, <1>9

\* A walk begins in order.
LEMMA StartInOrder ==
  ASSUME TemplateTyped, InOrder, StartWalk
  PROVE  InOrder'
<1>1. /\ phase = "walk" /\ toWalk # <<>> /\ column' = Head(toWalk) /\ toWalk' = Tail(toWalk) /\ phase' = "walk"
      /\ rows' = [n \in DOMAIN rows |-> Append(rows[n], Nothing)] /\ read' = read /\ roots' = roots
  BY DEF StartWalk, treeVars, readVars
<1>2. /\ toWalk \in Seq(1..read) /\ Position \in Nat /\ 1 \in DOMAIN rows /\ rows[1] \in Seq(Derivation)
      /\ Len(rows[1]) = Position /\ Wellformed(nodes) /\ nodes # <<>> /\ read \in Nat
  <2>1. read \in Nat
    BY DEF TemplateTyped, TreesTyped, ReadTyped
  <2> QED BY <1>1, <2>1, WalkContext DEF ReadTyped
<1>3. /\ Position + Len(toWalk) = read /\ (\A i \in DOMAIN toWalk : toWalk[i] = Position + i)
      /\ (read >= 3 => Position >= 2)
  BY <1>1 DEF InOrder
<1>4. Position' = Position + 1
  <2>1. rows'[1] = Append(rows[1], Nothing)
    BY <1>1, <1>2
  <2> QED BY <1>2, <2>1 DEF Position
<1>5. column' = Position' /\ (read' >= 3 => Position' >= 2 /\ Position' >= 3)
  BY <1>1, <1>2, <1>3, <1>4
<1>6. Position' + Len(toWalk') = read' /\ \A i \in DOMAIN toWalk' : toWalk'[i] = Position' + i
  <2>1. PICK len \in Nat : len = Len(toWalk) /\ len # 0 /\ DOMAIN toWalk = 1..len
    BY <1>1, <1>2
  <2>2. Len(toWalk') = len - 1 /\ DOMAIN toWalk' = 1..(len - 1) /\ \A i \in 1..(len - 1) : toWalk'[i] = toWalk[i + 1]
    BY <1>1, <1>2, <2>1
  <2>3. \A i \in 1..(len - 1) : toWalk'[i] = Position' + i
    <3>1. SUFFICES ASSUME NEW i \in 1..(len - 1) PROVE toWalk'[i] = Position' + i
      OBVIOUS
    <3>2. i + 1 \in 1..len
      BY <2>1
    <3>3. toWalk[i + 1] = Position + (i + 1)
      BY <1>3, <2>1, <3>2
    <3> QED BY <1>2, <1>4, <2>1, <2>2, <3>3
  <2>4. Position' + (len - 1) = read' /\ Position + len = read
    <3>1. Position + len = read
      BY ONLY <1>3, <2>1
    <3> QED BY <1>1, <1>2, <1>4, <2>1, <3>1
  <2>5. Position' + Len(toWalk') = read'
    BY ONLY <2>2, <2>4
  <2> QED BY ONLY <2>2, <2>3, <2>5
<1>7. read' < 2 => \A n \in DOMAIN nodes' : Len(nodes'[n].key) = 1
  <2>1. Keeps(nodes, nodes') /\ DOMAIN nodes' = DOMAIN nodes
    BY TypedStartWalk DEF Grows
  <2>2. read < 2 => \A n \in DOMAIN nodes : Len(nodes[n].key) = 1
    BY DEF InOrder
  <2> QED BY <1>1, <2>1, <2>2, KeysKept
<1>8. read' >= 1 /\ (read' = 1 => Len(roots') = 1)
  BY <1>1, <1>2 DEF InOrder
<1> QED BY ONLY <1>1, <1>5, <1>6, <1>7, <1>8 DEF InOrder

\* What the steps of a walk leave alone.
LEMMA WalkLeaves ==
  ASSUME VisitStop \/ VisitNode \/ RevisitSame \/ RevisitSplit \/ Extend
  PROVE  /\ phase = "walk" /\ work # <<>> /\ phase' = phase /\ toWalk' = toWalk /\ column' = column /\ read' = read
         /\ refs' = refs /\ roots' = roots /\ expanded' = expanded
BY Zenon DEF VisitStop, VisitNode, RevisitSame, RevisitSplit, Extend, Fresh, Again, Item, treeVars, readVars

\* A step of a walk that makes no node.
LEMMA NoNodeInOrder ==
  ASSUME TemplateTyped, InOrder, VisitStop \/ VisitNode \/ RevisitSame \/ RevisitSplit \/ Extend,
         Keeps(nodes, nodes'), DOMAIN nodes' = DOMAIN nodes, Position' = Position
  PROVE  InOrder'
<1>1. /\ phase = "walk" /\ work # <<>> /\ phase' = phase /\ toWalk' = toWalk /\ column' = column /\ read' = read
      /\ roots' = roots
  BY WalkLeaves
<1>2. nodes # <<>>
  BY <1>1, WalkContext
<1>3. read < 2 => \A n \in DOMAIN nodes' : Len(nodes'[n].key) = 1
  <2>1. read < 2 => \A n \in DOMAIN nodes : Len(nodes[n].key) = 1
    BY DEF InOrder
  <2> QED BY <2>1, KeysKept
<1> QED BY <1>1, <1>2, <1>3, WalkInOrder

\* A step of a walk that makes a node.
LEMMA NewNodeInOrder ==
  ASSUME TemplateTyped, InOrder, VisitStop \/ VisitNode \/ RevisitSame \/ RevisitSplit \/ Extend,
         Keeps(nodes, nodes'), NEW new, DOMAIN nodes' = DOMAIN nodes \cup {new}, Position' = Position,
         read < 2 => Len(nodes'[new].key) = 1
  PROVE  InOrder'
<1>1. /\ phase = "walk" /\ work # <<>> /\ phase' = phase /\ toWalk' = toWalk /\ column' = column /\ read' = read
      /\ roots' = roots
  BY WalkLeaves
<1>2. nodes # <<>>
  BY <1>1, WalkContext
<1>3. read < 2 => \A n \in DOMAIN nodes' : Len(nodes'[n].key) = 1
  <2>1. SUFFICES ASSUME read < 2, NEW n \in DOMAIN nodes' PROVE Len(nodes'[n].key) = 1
    OBVIOUS
  <2>2. CASE n = new
    BY <2>1, <2>2
  <2>3. CASE n # new
    <3>1. n \in DOMAIN nodes /\ nodes'[n].key = nodes[n].key
      BY <2>3 DEF Keeps
    <3>2. Len(nodes[n].key) = 1
      BY <2>1, <3>1 DEF InOrder
    <3> QED BY <3>1, <3>2
  <2> QED BY <2>2, <2>3
<1> QED BY <1>1, <1>2, <1>3, WalkInOrder

\* The rows retrace the template after a step that leaves them alone.
LEMMA SameRowsRetraced ==
  ASSUME TemplateTyped, Keeps(nodes, nodes'), phase # "build", rows' = rows, Retraced(nodes, rows)
  PROVE  Retraced(nodes', rows')
<1>1. DOMAIN rows = DOMAIN nodes
  BY DEF TemplateTyped, NodesTyped, PhaseTyped, Wellformed
<1> QED BY <1>1, KeptRetraced

\* Every step keeps the rows as the template has them.
LEMMA RetracedStep ==
  ASSUME TemplateTyped, InOrder, read = 2 /\ phase = "walk" => WalkPairs(nodes, work, column), Retraced(nodes, rows),
         [TemplateNext]_templateVars
  PROVE  Retraced(nodes', rows')
<1>1. Keeps(nodes, nodes')
  BY TypedStep DEF Grows
<1>2. CASE ReadVariant
  <2>1. phase # "build" /\ rows' = rows
    BY <1>2 DEF ReadVariant
  <2> QED BY <1>1, <2>1, SameRowsRetraced
<1>3. CASE CloseMatrix
  <2>1. phase # "build" /\ rows' = rows
    BY <1>3 DEF CloseMatrix
  <2> QED BY <1>1, <2>1, SameRowsRetraced
<1>4. CASE BuildVisit
  <2>1. phase = "build" /\ rows' = rows
    BY <1>4 DEF BuildVisit
  <2>2. rows = <<>>
    BY <2>1 DEF TemplateTyped, PhaseTyped
  <2> QED BY ONLY <2>1, <2>2, SMTT(30) DEF Retraced
<1>5. CASE TemplateBuilt
  BY <1>5, BuiltInOrder
<1>6. CASE StartWalk
  BY <1>6, StartWalkRows
<1>7. CASE VisitStop
  <2>1. phase # "build" /\ rows' = rows
    BY <1>7 DEF VisitStop, Fresh, Item
  <2> QED BY <1>1, <2>1, SameRowsRetraced
<1>8. CASE VisitNode
  <2>1. phase = "walk"
    BY <1>8, WalkLeaves
  <2> QED BY <1>8, <2>1, VisitNodeRows
<1>9. CASE RevisitSame
  <2>1. phase # "build" /\ rows' = rows
    BY <1>9 DEF RevisitSame, Again, Item
  <2> QED BY <1>1, <2>1, SameRowsRetraced
<1>10. CASE RevisitSplit
  <2>1. phase = "walk"
    BY <1>10, WalkLeaves
  <2> QED BY <1>10, <2>1, RevisitSplitRows
<1>11. CASE Extend
  BY <1>11, ExtendRows
<1>12. CASE WalksDone
  <2>1. phase # "build" /\ rows' = rows
    BY <1>12 DEF WalksDone
  <2> QED BY <1>1, <2>1, SameRowsRetraced
<1>13. CASE UNCHANGED templateVars
  <2>1. nodes' = nodes /\ rows' = rows
    BY <1>13 DEF templateVars
  <2> QED BY <2>1
<1> QED BY <1>2, <1>3, <1>4, <1>5, <1>6, <1>7, <1>8, <1>9, <1>10, <1>11, <1>12, <1>13 DEF TemplateNext

\* The walks end in order.
LEMMA DoneInOrder ==
  ASSUME TemplateTyped, InOrder, WalksDone
  PROVE  InOrder' /\ phase' = "read"
<1>1. phase = "walk" /\ toWalk = <<>> /\ phase' = "read" /\ rows' = rows /\ read' = read /\ roots' = roots
  BY DEF WalksDone, treeVars, readVars
<1>2. nodes # <<>> /\ Wellformed(nodes) /\ Position \in Nat /\ read \in Nat
  <2>1. read \in Nat
    BY DEF TemplateTyped, TreesTyped, ReadTyped
  <2> QED BY <1>1, <2>1, WalkContext
<1>3. DOMAIN nodes' = DOMAIN nodes /\ nodes' # <<>>
  <2>1. DOMAIN nodes' = DOMAIN nodes
    BY DEF WalksDone
  <2>2. 1 \in DOMAIN nodes
    BY <1>1, WalkContext
  <2> QED BY <2>1, <2>2
<1>4. Position' = read'
  <2>1. Position + Len(toWalk) = read
    BY <1>1 DEF InOrder
  <2>2. Len(toWalk) = 0
    BY <1>1
  <2>3. Position' = Position
    BY <1>1 DEF Position
  <2> QED BY <1>1, <1>2, <2>1, <2>2, <2>3
<1>5. read' < 2 => \A n \in DOMAIN nodes' : Len(nodes'[n].key) = 1
  <2>1. Keeps(nodes, nodes')
    BY TypedWalksDone DEF Grows
  <2>2. read < 2 => \A n \in DOMAIN nodes : Len(nodes[n].key) = 1
    BY DEF InOrder
  <2> QED BY <1>1, <1>3, <2>1, <2>2, KeysKept
<1>6. read' >= 1 /\ (read' = 1 => Len(roots') = 1)
  BY <1>1, <1>2 DEF InOrder
<1>7. InOrder'
  BY ONLY <1>1, <1>3, <1>4, <1>5, <1>6 DEF InOrder
<1> QED BY <1>1, <1>7

\* A step of a walk stays in order.
LEMMA WalkStepInOrder ==
  ASSUME TemplateTyped, InOrder, read = 2 => WalkPairs(nodes, work, column), Retraced(nodes, rows),
         VisitStop \/ VisitNode \/ RevisitSame \/ RevisitSplit \/ Extend
  PROVE  InOrder'
<1>1. PICK w : w = Head(work)
  OBVIOUS
<1>2. PICK new : new = Len(nodes) + 1
  OBVIOUS
<1>3. phase = "walk" /\ work # <<>> /\ Keeps(nodes, nodes')
  <2>1. TemplateNext
    BY DEF TemplateNext
  <2> QED BY <2>1, WalkLeaves, TypedStep DEF Grows
<1>4. CASE VisitStop
  <2>1. DOMAIN nodes' = DOMAIN nodes /\ Position' = Position
    BY <1>4, TypedVisitStop DEF VisitStop, Position
  <2> QED BY <1>3, <1>4, <2>1, NoNodeInOrder
<1>5. CASE VisitNode
  <2>1. DOMAIN nodes' = DOMAIN nodes /\ Position' = Position
    BY <1>1, <1>5, TypedVisitNode
  <2> QED BY <1>3, <1>5, <2>1, NoNodeInOrder
<1>6. CASE RevisitSame
  <2>1. DOMAIN nodes' = DOMAIN nodes /\ Position' = Position
    BY <1>6 DEF RevisitSame, Position
  <2> QED BY <1>3, <1>6, <2>1, NoNodeInOrder
<1>7. CASE RevisitSplit
  <2>1. DOMAIN nodes' = DOMAIN nodes \cup {new} /\ Position' = Position
    BY <1>1, <1>2, <1>7, TypedRevisitSplit
  <2>2. read < 2 => Len(nodes'[new].key) = 1
    <3>1. nodes'[new].key = nodes[w.node].key
      BY <1>1, <1>2, <1>7, RevisitSplitRows
    <3>2. w.node \in DOMAIN nodes
      BY <1>1, <1>3, <1>7, WalkContext, Zenon DEF RevisitSplit, Again, Item
    <3>3. read < 2 => \A n \in DOMAIN nodes : Len(nodes[n].key) = 1
      BY DEF InOrder
    <3> QED BY <3>1, <3>2, <3>3
  <2> QED BY <1>3, <1>7, <2>1, <2>2, NewNodeInOrder
<1>8. CASE Extend /\ ~NewExtension(w)
  <2>1. DOMAIN nodes' = DOMAIN nodes /\ rows' = rows
    BY <1>1, <1>8, TypedExtendThere
  <2>2. Position' = Position
    BY <2>1 DEF Position
  <2> QED BY <1>3, <1>8, <2>1, <2>2, NoNodeInOrder
<1>9. CASE Extend /\ NewExtension(w)
  <2>1. DOMAIN nodes' = DOMAIN nodes \cup {new} /\ Position' = Position /\ nodes'[new].key = <<w.drv>>
    BY <1>1, <1>2, <1>9, TypedExtendNew
  <2>2. Len(nodes'[new].key) = 1
    BY <2>1
  <2> QED BY <1>3, <1>9, <2>1, <2>2, NewNodeInOrder
<1> QED BY <1>4, <1>5, <1>6, <1>7, <1>8, <1>9

\* Nothing is paired at first.
LEMMA RetraceInit == TemplateInit => RetraceInv
<1> SUFFICES ASSUME TemplateInit PROVE RetraceInv
  OBVIOUS
<1>1. /\ read = 0 /\ pending = <<>> /\ nodes = <<>> /\ rows = <<>> /\ phase = "read"
  BY DEF TemplateInit
<1>2. InOrder
  <2>1. pending = [i \in 1..read |-> i]
    BY <1>1
  <2> QED BY <1>1, <2>1 DEF InOrder
<1>3. CalibrationRetraces
  BY <1>1 DEF CalibrationRetraces
<1> QED BY <1>1, <1>2, <1>3 DEF RetraceInv

\* The walks of the first two variants retrace their pairs, whatever step is taken.
LEMMA RetraceStep ==
  ASSUME TemplateTyped, RetraceInv, [TemplateNext]_templateVars PROVE RetraceInv'
<1>1. /\ InOrder /\ Retraced(nodes, rows)
      /\ read = 2 /\ phase = "build" => BuildPairs(nodes, work)
      /\ read = 2 /\ phase = "walk" => WalkPairs(nodes, work, column)
  BY CalibrationIs DEF RetraceInv
<1>2. CalibrationRetraces'
  <2>1. Retraced(nodes', rows')
    BY <1>1, RetracedStep
  <2> QED BY <2>1, CalibrationIs
<1>3. SUFFICES /\ InOrder'
               /\ read' = 2 /\ phase' = "build" => BuildPairs(nodes, work)'
               /\ read' = 2 /\ phase' = "walk" => WalkPairs(nodes, work, column)'
  BY <1>2, <1>3 DEF RetraceInv
<1>4. CASE ReadVariant
  <2>1. InOrder' /\ (read' = 2 /\ phase' = "build" => BuildPairs(nodes', work')) /\ ~(read' = 2 /\ phase' = "walk")
    BY <1>1, <1>4, ReadInOrder
  <2>2. ASSUME read' = 2, phase' = "build" PROVE BuildPairs(nodes, work)'
    <3>1. nodes' = <<>> /\ roots' = roots
      BY <1>4, <2>2 DEF ReadVariant, treeVars
    <3> QED BY <2>1, <2>2, <3>1, RootAlone
  <2> QED BY <2>1, <2>2
<1>5. CASE CloseMatrix
  BY <1>1, <1>5, CloseInOrder
<1>6. CASE BuildVisit
  <2>1. InOrder'
    BY <1>1, <1>6, BuildInOrder, SMTT(30)
  <2>2. /\ phase = "build" /\ phase' = "build" /\ read' = read /\ refs' = refs /\ roots' = roots /\ expanded' = expanded
    BY <1>6 DEF BuildVisit, treeVars, readVars
  <2>3. ASSUME read' = 2 PROVE BuildPairs(nodes, work)'
    <3>1. BuildPairs(nodes', work')
      BY <1>1, <1>6, <2>2, <2>3, VisitBuilt
    <3> QED BY <2>2, <3>1, TreesKept
  <2> QED BY <2>1, <2>2, <2>3, SMTT(30)
<1>7. CASE TemplateBuilt
  <2>1. InOrder' /\ phase' = "walk"
    BY <1>1, <1>7, BuiltInOrder
  <2>2. /\ phase = "build" /\ read' = read /\ refs' = refs /\ roots' = roots /\ expanded' = expanded
    BY <1>7 DEF TemplateBuilt, treeVars
  <2>3. ASSUME read' = 2 PROVE WalkPairs(nodes, work, column)'
    <3>1. WalkPairs(nodes', work', column')
      BY <1>1, <1>7, <2>2, <2>3, TemplateBuiltRetraces
    <3> QED BY <2>2, <3>1, TreesKept
  <2> QED BY <2>1, <2>3
<1>8. CASE StartWalk
  <2>1. InOrder'
    BY <1>1, <1>8, StartInOrder
  <2>2. /\ phase = "walk" /\ phase' = "walk" /\ read' = read /\ refs' = refs /\ roots' = roots /\ expanded' = expanded
    BY <1>8 DEF StartWalk, treeVars, readVars
  <2>3. ASSUME read' = 2 PROVE WalkPairs(nodes, work, column)'
    <3>1. WalkPairs(nodes', work', column')
      BY <1>1, <1>8, <2>2, <2>3, StartWalkRetraces
    <3> QED BY <2>2, <3>1, TreesKept
  <2> QED BY <2>1, <2>2, <2>3
<1>9. CASE VisitStop \/ VisitNode \/ RevisitSame \/ RevisitSplit \/ Extend
  <2>1. /\ phase = "walk" /\ phase' = phase /\ read' = read /\ refs' = refs /\ roots' = roots /\ expanded' = expanded
    BY <1>9, WalkLeaves
  <2>2. InOrder'
    BY <1>1, <1>9, <2>1, WalkStepInOrder
  <2>3. ASSUME read' = 2 PROVE WalkPairs(nodes, work, column)'
    <3>1. read = 2 /\ WalkPairs(nodes, work, column)
      BY <1>1, <2>1, <2>3
    <3>2. WalkPairs(nodes', work', column')
      <4>1. CASE VisitStop
        BY <3>1, <4>1, VisitStopRetraces
      <4>2. CASE VisitNode
        BY <3>1, <4>2, VisitNodeRetraces
      <4>3. CASE RevisitSame
        BY <3>1, <4>3, RevisitSameRetraces
      <4>4. CASE RevisitSplit
        BY <3>1, <4>4, RevisitSplitRetraces
      <4>5. CASE Extend
        BY <3>1, <4>5, ExtendThereRetraces, ExtendNewRetraces
      <4> QED BY <1>9, <4>1, <4>2, <4>3, <4>4, <4>5
    <3> QED BY <2>1, <3>2, TreesKept
  <2> QED BY <2>1, <2>2, <2>3
<1>10. CASE WalksDone
  BY <1>1, <1>10, DoneInOrder
<1>11. CASE UNCHANGED templateVars
  <2>1. /\ refs' = refs /\ roots' = roots /\ expanded' = expanded /\ read' = read /\ pending' = pending /\ toWalk' = toWalk
        /\ column' = column /\ work' = work /\ nodes' = nodes /\ rows' = rows /\ phase' = phase
    BY <1>11 DEF templateVars, treeVars, readVars
  <2>2. InOrder'
    <3>1. Position' = Position
      BY <2>1 DEF Position
    <3> QED BY <1>1, <2>1, <3>1 DEF InOrder
  <2>3. (BuildPairs(nodes, work)' <=> BuildPairs(nodes', work')) /\ (WalkPairs(nodes, work, column)' <=> WalkPairs(nodes', work', column'))
    BY <2>1, TreesKept
  <2> QED BY <1>1, <2>1, <2>2, <2>3
<1> QED BY <1>4, <1>5, <1>6, <1>7, <1>8, <1>9, <1>10, <1>11 DEF TemplateNext

(* The pairs the template was built from are found again by the walks: in  *)
(* every state of every section, whatever the dependency graphs and the    *)
(* inconsistencies recorded.                                               *)
THEOREM PairsAreRetraced == TemplateSpec => []CalibrationRetraces
<1>1. TemplateInit => TemplateTyped /\ RetraceInv
  BY TypedInit, RetraceInit
<1>2. TemplateTyped /\ RetraceInv /\ [TemplateNext]_templateVars => TemplateTyped' /\ RetraceInv'
  BY TypedStep, RetraceStep
<1>3. TemplateSpec => [](TemplateTyped /\ RetraceInv)
  BY <1>1, <1>2, PTL DEF TemplateSpec
<1>4. RetraceInv => CalibrationRetraces
  BY DEF RetraceInv
<1> QED BY <1>3, <1>4, PTL
================================================================================
