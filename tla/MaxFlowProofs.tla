---------------------------- MODULE MaxFlowProofs ----------------------------
(***************************************************************************)
(* Every maximum-flow solver, on every network: no unit of flow is lost,   *)
(* labels stay lower bounds on a distance, no search that resumes at a     *)
(* current arc misses one it could use, and a flow handed to the           *)
(* certificate is already a maximum one. The certificate is worth what it  *)
(* claims: no feasible flow's value is above any cut's bound.              *)
(*                                                                         *)
(* The solvers fall into four families, each with an inductive invariant of*)
(* its own: searches that build a tree, Dinic's levels, distance labels and*)
(* preflows. Their steps share the lemmas on paths, labels and current arcs*)
(* that come first.                                                        *)
(***************************************************************************)
EXTENDS MaxFlow, Sums, SequenceTheorems

\* The divergences of the nodes of a network under a flow.
Divergences(g, fl) == [v \in g.nodes |-> Divergence(g, fl, v)]

Leaving(g, S) == {e \in Edges(g) : g.from[e] \in S /\ g.to[e] \notin S}

Entering(g, S) == {e \in Edges(g) : g.from[e] \notin S /\ g.to[e] \in S}

\* What the nodes of a set send out beyond what they take in is what crosses
\* the set's boundary.
LEMMA CrossingFlow ==
    ASSUME NEW g, IsNetwork(g), NEW fl, WithinBounds(g, fl), NEW S \in SUBSET g.nodes
    PROVE  /\ \A v \in S : Divergences(g, fl)[v] \in Int
           /\ Total(fl, Leaving(g, S)) \in Int /\ Total(fl, Entering(g, S)) \in Int
           /\ Total(Divergences(g, fl), S)
                  = Total(fl, Leaving(g, S)) - Total(fl, Entering(g, S))
<1> DEFINE E == Edges(g)
           From(v) == {e \in E : g.from[e] = v}
           Into(v) == {e \in E : g.to[e] = v}
           out == [v \in g.nodes |-> Total(fl, From(v))]
           in == [v \in g.nodes |-> Total(fl, Into(v))]
           FromS == {e \in E : g.from[e] \in S}
           IntoS == {e \in E : g.to[e] \in S}
           Inside == {e \in E : g.from[e] \in S /\ g.to[e] \in S}
<1>1. /\ IsFiniteSet(E) /\ IsFiniteSet(g.nodes) /\ IsFiniteSet(S)
      /\ \A T \in SUBSET E : IsFiniteSet(T)
      /\ \A e \in E : fl[e] \in Int
  BY NetworkTypes, FS_Subset
<1>2. \A T \in SUBSET E : Total(fl, T) \in Int
  <2> TAKE T \in SUBSET E
  <2>1. IsFiniteSet(T) /\ \A e \in T : fl[e] \in Int
    BY <1>1
  <2> QED
    BY <2>1, TotalType
<1>3. \A v \in S : out[v] \in Int /\ in[v] \in Int
  <2> TAKE v \in S
  <2>1. From(v) \in SUBSET E /\ Into(v) \in SUBSET E
    OBVIOUS
  <2>2. Total(fl, From(v)) \in Int /\ Total(fl, Into(v)) \in Int
    BY <2>1, <1>2
  <2> QED
    BY <2>2
<1>4. \A v \in S : Divergences(g, fl)[v] = out[v] - in[v]
  <2> TAKE v \in S
  <2>1. Divergences(g, fl)[v] = Divergence(g, fl, v)
    BY DEF Divergences
  <2>2. Divergence(g, fl, v) = SumOver(fl, From(v)) - SumOver(fl, Into(v))
    BY DEF Divergence
  <2>3. SumOver(fl, From(v)) = Total(fl, From(v)) /\ SumOver(fl, Into(v)) = Total(fl, Into(v))
    BY SumIsTotal
  <2> QED
    BY <2>1, <2>2, <2>3
<1>5. Total(out, S) = Total(fl, FromS)
  <2>1. \A v \in S : out[v] = Total(fl, OfClass(E, g.from, v))
    BY DEF OfClass
  <2>2. FromS = OfClasses(E, g.from, S)
    BY DEF OfClasses
  <2> HIDE DEF out, E, FromS
  <2>3. Total(out, S) = Total(fl, OfClasses(E, g.from, S))
    BY <2>1, <1>1, TotalByClass
  <2> QED
    BY <2>2, <2>3
<1>6. Total(in, S) = Total(fl, IntoS)
  <2>1. \A v \in S : in[v] = Total(fl, OfClass(E, g.to, v))
    BY DEF OfClass
  <2>2. IntoS = OfClasses(E, g.to, S)
    BY DEF OfClasses
  <2> HIDE DEF in, E, IntoS
  <2>3. Total(in, S) = Total(fl, OfClasses(E, g.to, S))
    BY <2>1, <1>1, TotalByClass
  <2> QED
    BY <2>2, <2>3
<1>7. Total(fl, FromS) = Total(fl, Leaving(g, S)) + Total(fl, Inside)
  <2>1. FromS = Leaving(g, S) \cup Inside /\ Leaving(g, S) \cap Inside = {}
    BY DEF Leaving
  <2>2. /\ IsFiniteSet(Leaving(g, S)) /\ IsFiniteSet(Inside)
        /\ \A e \in Leaving(g, S) \cup Inside : fl[e] \in Int
    BY <1>1 DEF Leaving
  <2> HIDE DEF Inside, FromS
  <2>3. Total(fl, Leaving(g, S) \cup Inside) = Total(fl, Leaving(g, S)) + Total(fl, Inside)
    BY <2>1, <2>2, TotalUnion
  <2> QED
    BY <2>1, <2>3
<1>8. Total(fl, IntoS) = Total(fl, Entering(g, S)) + Total(fl, Inside)
  <2>1. IntoS = Entering(g, S) \cup Inside /\ Entering(g, S) \cap Inside = {}
    BY DEF Entering
  <2>2. /\ IsFiniteSet(Entering(g, S)) /\ IsFiniteSet(Inside)
        /\ \A e \in Entering(g, S) \cup Inside : fl[e] \in Int
    BY <1>1 DEF Entering
  <2> HIDE DEF Inside, IntoS
  <2>3. Total(fl, Entering(g, S) \cup Inside) = Total(fl, Entering(g, S)) + Total(fl, Inside)
    BY <2>1, <2>2, TotalUnion
  <2> QED
    BY <2>1, <2>3
<1>9. Total(out, S) = Total(Divergences(g, fl), S) + Total(in, S)
  <2>1. \A v \in S : Divergences(g, fl)[v] \in Int /\ in[v] \in Int
                     /\ out[v] = Divergences(g, fl)[v] + in[v]
    <3> TAKE v \in S
    <3> HIDE DEF out, in
    <3> QED
      BY <1>3, <1>4
  <2> HIDE DEF out, in
  <2> QED
    BY <1>1, <2>1, TotalPlus
<1>10. /\ Total(fl, Leaving(g, S)) \in Int /\ Total(fl, Entering(g, S)) \in Int
       /\ Total(fl, Inside) \in Int
  <2>1. Leaving(g, S) \in SUBSET E /\ Entering(g, S) \in SUBSET E /\ Inside \in SUBSET E
    BY DEF Leaving, Entering
  <2> QED
    BY <2>1, <1>2
<1>11. \A v \in S : Divergences(g, fl)[v] \in Int
  <2> TAKE v \in S
  <2> HIDE DEF out, in
  <2> QED
    BY <1>3, <1>4
<1>12. Total(Divergences(g, fl), S) \in Int
  BY <1>1, <1>11, TotalType
<1> HIDE DEF out, in, FromS, IntoS, Inside, E
<1> QED
  <2> DEFINE t == Total(Divergences(g, fl), S)
             l == Total(fl, Leaving(g, S))
             i == Total(fl, Entering(g, S))
             m == Total(fl, Inside)
  <2>1. l + m = t + (i + m) /\ t \in Int /\ l \in Int /\ i \in Int /\ m \in Int
    BY <1>5, <1>6, <1>7, <1>8, <1>9, <1>10, <1>12
  <2> HIDE DEF t, l, i, m
  <2>2. t = l - i
    BY <2>1
  <2> QED
    BY <2>2, <1>10, <1>11 DEF t, l, i

\* Where every inner node balances, what crosses a cut is the flow's value.
LEMMA ValueCrossesCut ==
    ASSUME NEW g, IsNetwork(g), NEW fl, WithinBounds(g, fl),
           \A v \in Inner(g) : Divergence(g, fl, v) = 0,
           NEW S \in SUBSET g.nodes, g.source \in S, g.sink \notin S
    PROVE  /\ Divergence(g, fl, g.source) \in Int
           /\ Divergence(g, fl, g.source)
                  = Total(fl, Leaving(g, S)) - Total(fl, Entering(g, S))
<1> DEFINE d == Divergences(g, fl)
           rest == S \ {g.source}
<1>1. IsFiniteSet(S)
  BY NetworkTypes, FS_Subset
<1>2. \A v \in S : d[v] \in Int /\ d[v] = Divergence(g, fl, v)
  <2>1. \A v \in S : d[v] \in Int
    BY CrossingFlow
  <2> QED
    BY <2>1 DEF Divergences
<1>3. \A v \in rest : d[v] = 0
  <2>1. rest \subseteq Inner(g)
    BY DEF Inner, Terminals
  <2> QED
    BY <1>2, <2>1
<1>4. IsFiniteSet(rest)
  BY <1>1, FS_Subset
<1> HIDE DEF d
<1>5. Total(d, S) = d[g.source] + Total(d, rest)
  BY <1>1, <1>2, TotalRemove
<1>6. Total(d, rest) = 0
  BY <1>3, <1>4, TotalZero
<1>7. Total(d, S) = Total(fl, Leaving(g, S)) - Total(fl, Entering(g, S))
  BY CrossingFlow DEF d
<1> QED
  BY <1>2, <1>5, <1>6, <1>7

\* Weak duality: no feasible flow's value is above the bound of any cut.
THEOREM NoFlowAboveACut ==
    ASSUME NEW g, IsNetwork(g), NEW fl, WithinBounds(g, fl),
           \A v \in Inner(g) : Divergence(g, fl, v) = 0,
           NEW S \in SUBSET g.nodes, g.source \in S, g.sink \notin S
    PROVE  /\ Divergence(g, fl, g.source) \in Int
           /\ CutBound(g, S) \in Int
           /\ Divergence(g, fl, g.source) <= CutBound(g, S)
<1> DEFINE L == Leaving(g, S)
           I == Entering(g, S)
<1>1. L \in SUBSET Edges(g) /\ I \in SUBSET Edges(g)
  BY DEF Leaving, Entering
<1>2. /\ IsFiniteSet(L) /\ IsFiniteSet(I)
      /\ \A e \in L : fl[e] \in Int /\ g.capacity[e] \in Int /\ fl[e] <= g.capacity[e]
      /\ \A e \in I : fl[e] \in Int /\ g.lower[e] \in Int /\ g.lower[e] <= fl[e]
  <2> HIDE DEF L, I
  <2> QED
    BY <1>1, NetworkTypes
<1>3. CutBound(g, S) = Total(g.capacity, L) - Total(g.lower, I)
  <2>1. CutBound(g, S) = SumOver(g.capacity, L) - SumOver(g.lower, I)
    BY DEF CutBound, Leaving, Entering
  <2> QED
    BY <2>1, SumIsTotal
<1>4. /\ Divergence(g, fl, g.source) \in Int
      /\ Divergence(g, fl, g.source) = Total(fl, L) - Total(fl, I)
  BY ValueCrossesCut
<1> HIDE DEF L, I
<1>5. Total(fl, L) <= Total(g.capacity, L)
  BY <1>2, TotalLeq
<1>6. Total(g.lower, I) <= Total(fl, I)
  BY <1>2, TotalLeq
<1>7. /\ Total(fl, L) \in Int /\ Total(fl, I) \in Int
      /\ Total(g.capacity, L) \in Int /\ Total(g.lower, I) \in Int
  BY <1>2, TotalType
<1> QED
  BY <1>3, <1>4, <1>5, <1>6, <1>7

LEMMA ReachableIsCut ==
    ASSUME NEW g, IsNetwork(g), NEW fl, g.sink \notin Reachable(g, fl, g.source)
    PROVE  /\ Reachable(g, fl, g.source) \in SUBSET g.nodes
           /\ g.source \in Reachable(g, fl, g.source)
BY DEF Reachable, IsNetwork

\* So a flow that reaches one cut's bound has the least bound of all.
LEMMA AttainedIsLeast ==
    ASSUME NEW g, IsNetwork(g), NEW fl, WithinBounds(g, fl),
           \A v \in Inner(g) : Divergence(g, fl, v) = 0,
           NEW C \in SUBSET g.nodes, g.source \in C, g.sink \notin C,
           CutBound(g, C) = Divergence(g, fl, g.source)
    PROVE  Divergence(g, fl, g.source)
               = Finite!Min({CutBound(g, S) : S \in {T \in SUBSET g.nodes :
                                g.source \in T /\ g.sink \notin T}})
<1> DEFINE value == Divergence(g, fl, g.source)
           cuts == {T \in SUBSET g.nodes : g.source \in T /\ g.sink \notin T}
           bounds == {CutBound(g, S) : S \in cuts}
<1>2. C \in cuts
  OBVIOUS
<1>3. \A S \in cuts : value \in Int /\ CutBound(g, S) \in Int /\ value <= CutBound(g, S)
  BY NoFlowAboveACut
<1>4. value \in bounds /\ \A b \in bounds : b \in Int /\ value \in Int /\ value <= b
  <2> HIDE DEF cuts, value
  <2>1. value \in bounds
    BY <1>2 DEF value
  <2> QED
    BY <2>1, <1>3
<1> HIDE DEF bounds, value
<1>5. /\ Finite!Min(bounds) \in bounds
      /\ \A b \in bounds : Finite!Min(bounds) <= b
  BY <1>4 DEF Finite!Min
<1>6. value = Finite!Min(bounds)
  BY <1>4, <1>5
<1> QED
  BY <1>6 DEF bounds, value

\* A flow the certificate accepts has the value of the least of all cuts.
LEMMA CertificateSuffices ==
    ASSUME NEW g, IsNetwork(g), NEW fl, CheckMaxFlow(g, fl)
    PROVE  Divergence(g, fl, g.source)
               = Finite!Min({CutBound(g, S) : S \in {T \in SUBSET g.nodes :
                                g.source \in T /\ g.sink \notin T}})
<1> DEFINE C == Reachable(g, fl, g.source)
<1>1. /\ WithinBounds(g, fl) /\ g.sink \notin C
      /\ CutBound(g, C) = Divergence(g, fl, g.source)
      /\ \A v \in Inner(g) : Divergence(g, fl, v) = 0
  BY DEF CheckMaxFlow
<1>2. C \in SUBSET g.nodes /\ g.source \in C
  BY <1>1, ReachableIsCut
<1> HIDE DEF C
<1> QED
  BY <1>1, <1>2, AttainedIsLeast

\* Only a certificate ends a solver with success.
Certified == /\ net \in Networks
             /\ phase = "done" => CheckMaxFlow(net, flow)

LEMMA OnlyCertifyIsDone ==
    ASSUME Next
    PROVE  /\ UNCHANGED <<net, alg>> /\ phase # "done"
           /\ phase' = "done" => CheckMaxFlow(net, flow) /\ UNCHANGED flow
<1>1. CASE Certify
  BY <1>1 DEF Certify, Stop, Quiet
<1>2. CASE AugmentingPathsStep
  <2>1. CASE BeginSearch
    BY <2>1 DEF BeginSearch, Quiet
  <2>2. CASE ExploreBreadth
    BY <2>2 DEF ExploreBreadth, Quiet
  <2>3. CASE ExploreDepth
    BY <2>3 DEF ExploreDepth, Quiet
  <2>4. CASE SettleWidest
    BY <2>4 DEF SettleWidest, Quiet
  <2>5. CASE EndSearch
    BY <2>5 DEF EndSearch, Quiet
  <2>6. CASE AugmentSearched
    BY <2>6 DEF AugmentSearched, Quiet
  <2>7. CASE AdvanceLevel
    BY <2>7 DEF AdvanceLevel, Quiet
  <2>8. CASE RetreatLevel
    BY <2>8 DEF RetreatLevel, Quiet
  <2>9. CASE AugmentLevel
    BY <2>9 DEF AugmentLevel, Quiet
  <2>10. CASE InitializeLabels
    BY <2>10 DEF InitializeLabels, Quiet
  <2>11. CASE AdvanceLabel
    BY <2>11 DEF AdvanceLabel, Quiet
  <2>12. CASE AugmentLabel
    BY <2>12 DEF AugmentLabel, Quiet
  <2>13. CASE RelabelAndRetreat
    BY <2>13 DEF RelabelAndRetreat, Quiet, Stop
  <2> QED
    BY <1>2, <2>1, <2>2, <2>3, <2>4, <2>5, <2>6, <2>7, <2>8, <2>9, <2>10, <2>11, <2>12, <2>13
    DEF AugmentingPathsStep
<1>3. CASE PushRelabelStep
  <2>1. CASE InitializePreflow
    BY <2>1 DEF InitializePreflow, Quiet
  <2>2. CASE Select
    BY <2>2 DEF Select, Quiet
  <2>3. CASE Push
    BY <2>3 DEF Push, Pushed, Quiet
  <2>4. CASE Relabel
    BY <2>4 DEF Relabel, Rise, Stop, Quiet
  <2>5. CASE EndDischarge
    BY <2>5 DEF EndDischarge, Quiet
  <2>6. CASE GlobalRelabel
    BY <2>6 DEF GlobalRelabel, Quiet
  <2>7. CASE ProcessScaledActive
    BY <2>7 DEF ProcessScaledActive, Rise, Stop, Pushed, Quiet
  <2>8. CASE NextScale
    BY <2>8 DEF NextScale, Quiet
  <2>9. CASE AdvancePath
    BY <2>9 DEF AdvancePath, Quiet
  <2>10. CASE RetreatPath
    BY <2>10 DEF RetreatPath, Stop, Quiet
  <2>11. CASE AugmentPath
    BY <2>11 DEF AugmentPath, Quiet
  <2>12. CASE Finish
    BY <2>12 DEF Finish, Stop, Quiet
  <2> QED
    BY <1>3, <2>1, <2>2, <2>3, <2>4, <2>5, <2>6, <2>7, <2>8, <2>9, <2>10, <2>11, <2>12
    DEF PushRelabelStep
<1> QED
  BY <1>1, <1>2, <1>3 DEF Next

\* Whatever a solver does on its way and on whatever network, when it reports
\* success (certificate.rs's check after every solver) its flow's value is the
\* least of all cuts.
THEOREM CertifiedIsMaximum == Spec => [](phase = "done" => Value = LeastCut)
<1>1. Init => Certified
  BY DEF Init, Certified
<1>2. Certified /\ [Next]_vars => Certified'
  <2> SUFFICES ASSUME Certified, [Next]_vars PROVE Certified'
    OBVIOUS
  <2>1. CASE Next
    <3>1. UNCHANGED net /\ (phase' = "done" => CheckMaxFlow(net, flow) /\ UNCHANGED flow)
      BY <2>1, OnlyCertifyIsDone
    <3>2. CASE phase' = "done"
      <4>1. CheckMaxFlow(net, flow) /\ net' = net /\ flow' = flow
        BY <3>1, <3>2
      <4>2. CheckMaxFlow(net', flow')
        BY <4>1
      <4> QED
        BY <4>1, <4>2 DEF Certified
    <3> QED
      BY <3>1, <3>2 DEF Certified
  <2>2. CASE UNCHANGED vars
    BY <2>2 DEF vars, Certified
  <2> QED
    BY <2>1, <2>2
<1>3. Certified => (phase = "done" => Value = LeastCut)
  <2> SUFFICES ASSUME Certified, phase = "done" PROVE Value = LeastCut
    OBVIOUS
  <2>1. IsNetwork(net) /\ CheckMaxFlow(net, flow)
    BY NetworksAssumption DEF Certified
  <2> QED
    BY <2>1, CertificateSuffices DEF Value, LeastCut
<1> QED
  BY <1>1, <1>2, <1>3, PTL DEF Spec

LEMMA ResidualIsInt ==
    ASSUME NEW g, IsNetwork(g), NEW fl, WithinBounds(g, fl), NEW a \in Arcs(g)
    PROVE  /\ Residual(g, fl, a) \in Nat
           /\ ArcFrom(g, a) \in g.nodes /\ ArcTo(g, a) \in g.nodes
<1>1. a[1] \in Edges(g) /\ a[2] \in {"forward", "reverse"}
  BY DEF Arcs
<1>2. /\ g.from[a[1]] \in g.nodes /\ g.to[a[1]] \in g.nodes
      /\ g.lower[a[1]] \in Int /\ g.capacity[a[1]] \in Int /\ fl[a[1]] \in Int
      /\ g.lower[a[1]] <= fl[a[1]] /\ fl[a[1]] <= g.capacity[a[1]]
  BY <1>1, NetworkTypes
<1> QED
  BY <1>1, <1>2 DEF Residual, ArcFrom, ArcTo

\* The arcs listed at a node are those that leave it.
LEMMA ListedArc ==
    ASSUME NEW g, IsNetwork(g), NEW v \in g.nodes, NEW i \in 1..Len(g.outgoing[v])
    PROVE  g.outgoing[v][i] \in Arcs(g) /\ ArcFrom(g, g.outgoing[v][i]) = v
<1> DEFINE s == g.outgoing[v]
<1>1. s \in Seq(Arcs(g)) /\ {s[j] : j \in DOMAIN s} = {a \in Arcs(g) : ArcFrom(g, a) = v}
  BY DEF IsNetwork
<1>2. i \in DOMAIN s
  BY <1>1, LenProperties
<1>3. s[i] \in {s[j] : j \in DOMAIN s}
  BY <1>2
<1> QED
  BY <1>1, <1>3

\* Every arc is listed at the node it leaves.
LEMMA ArcIsListed ==
    ASSUME NEW g, IsNetwork(g), NEW a \in Arcs(g)
    PROVE  /\ ArcFrom(g, a) \in g.nodes
           /\ Len(g.outgoing[ArcFrom(g, a)]) \in Nat
           /\ \E i \in 1 .. Len(g.outgoing[ArcFrom(g, a)]) : g.outgoing[ArcFrom(g, a)][i] = a
<1> DEFINE v == ArcFrom(g, a)
           s == g.outgoing[v]
<1>1. v \in g.nodes
  BY DEF Arcs, ArcFrom, IsNetwork
<1>2. s \in Seq(Arcs(g)) /\ {s[i] : i \in DOMAIN s} = {b \in Arcs(g) : ArcFrom(g, b) = v}
  BY <1>1 DEF IsNetwork
<1>3. Len(s) \in Nat /\ DOMAIN s = 1 .. Len(s)
  BY <1>2, LenProperties
<1>4. a \in {s[i] : i \in DOMAIN s}
  BY <1>2
<1>5. \E i \in 1 .. Len(s) : s[i] = a
  BY <1>3, <1>4
<1> QED
  BY <1>1, <1>3, <1>5

\* Where a sequence is searched for the first of some places.
Earliest(I) == IF I # {} THEN Seqs!Min(I) ELSE 0

LEMMA EarliestIs ==
    ASSUME NEW n \in Nat, NEW I \in SUBSET (1 .. n)
    PROVE  /\ Earliest(I) = 0 <=> I = {}
           /\ I # {} => Earliest(I) \in I /\ \A i \in I : Earliest(I) <= i
<1>1. IsFiniteSet(I) /\ I \subseteq Int
  <2>1. IsFiniteSet(1 .. n)
    BY FS_Interval
  <2>2. I \subseteq Int
    OBVIOUS
  <2> QED
    BY <2>1, <2>2, FS_Subset
<1>2. I # {} => Finite!Min(I) \in I /\ \A i \in I : Finite!Min(I) <= i
  BY <1>1, MinIsLeast
<1>3. Earliest(I) = IF I # {} THEN Finite!Min(I) ELSE 0
  BY DEF Earliest, Seqs!Min, Finite!Min
<1>4. 0 \notin I
  OBVIOUS
<1>5. CASE I = {}
  BY <1>3, <1>5
<1>6. CASE I # {}
  <2>1. Earliest(I) = Finite!Min(I)
    BY <1>3, <1>6
  <2> QED
    BY <1>2, <1>4, <1>6, <2>1
<1> QED
  BY <1>5, <1>6

\* What an augmentation of such a path leaves: bounds kept, and every node
\* between the terminals as before.
Feasible(g, fl) == WithinBounds(g, fl) /\ \A v \in Inner(g) : Divergence(g, fl, v) = 0

\* A closed set of nodes with the source and without the sink is a least cut.
LEMMA ClosedIsLeast ==
    ASSUME NEW g, IsNetwork(g), NEW fl, Feasible(g, fl), NEW C \in SUBSET g.nodes,
           g.source \in C, g.sink \notin C, Closed(g, fl, C)
    PROVE  Divergence(g, fl, g.source)
               = Finite!Min({CutBound(g, S) : S \in {T \in SUBSET g.nodes :
                                g.source \in T /\ g.sink \notin T}})
<1> DEFINE L == Leaving(g, C)
           I == Entering(g, C)
<1>0. WithinBounds(g, fl) /\ \A v \in Inner(g) : Divergence(g, fl, v) = 0
  BY DEF Feasible
<1>5. \A e \in Edges(g) : /\ g.from[e] \in g.nodes /\ g.to[e] \in g.nodes
                          /\ g.lower[e] \in Int /\ g.capacity[e] \in Int /\ fl[e] \in Int
                          /\ g.lower[e] <= fl[e] /\ fl[e] <= g.capacity[e]
  BY <1>0, NetworkTypes
<1>7. \A e \in L : fl[e] = g.capacity[e]
  <2> TAKE e \in L
  <2>1. e \in Edges(g) /\ g.from[e] \in C /\ g.to[e] \notin C
    BY DEF Leaving
  <2>2. <<e, "forward">> \in Arcs(g)
    BY <2>1 DEF Arcs
  <2>4. ~(Residual(g, fl, <<e, "forward">>) > 0)
    BY <2>1, <2>2 DEF Closed, ArcFrom, ArcTo
  <2>5. Residual(g, fl, <<e, "forward">>) = g.capacity[e] - fl[e]
    BY DEF Residual
  <2> QED
    BY <2>1, <2>4, <2>5, <1>5
<1>8. \A e \in I : fl[e] = g.lower[e]
  <2> TAKE e \in I
  <2>1. e \in Edges(g) /\ g.from[e] \notin C /\ g.to[e] \in C
    BY DEF Entering
  <2>2. <<e, "reverse">> \in Arcs(g)
    BY <2>1 DEF Arcs
  <2>4. ~(Residual(g, fl, <<e, "reverse">>) > 0)
    BY <2>1, <2>2 DEF Closed, ArcFrom, ArcTo
  <2>5. Residual(g, fl, <<e, "reverse">>) = fl[e] - g.lower[e]
    BY DEF Residual
  <2> QED
    BY <2>1, <2>4, <2>5, <1>5
<1>9. L \in SUBSET Edges(g) /\ I \in SUBSET Edges(g)
  BY DEF Leaving, Entering
<1>10. IsFiniteSet(L) /\ IsFiniteSet(I)
  <2>1. IsFiniteSet(Edges(g))
    BY DEF IsNetwork
  <2> HIDE DEF L, I
  <2> QED
    BY <1>9, <2>1, FS_Subset
<1>11. Total(fl, L) = Total(g.capacity, L)
  <2>1. \A e \in L : fl[e] \in Int /\ fl[e] = g.capacity[e]
    BY <1>5, <1>7, <1>9
  <2> QED
    BY <1>10, <2>1, TotalSame
<1>12. Total(fl, I) = Total(g.lower, I)
  <2>1. \A e \in I : fl[e] \in Int /\ fl[e] = g.lower[e]
    BY <1>5, <1>8, <1>9
  <2> QED
    BY <1>10, <2>1, TotalSame
<1>13. CutBound(g, C) = Total(g.capacity, L) - Total(g.lower, I)
  <2>1. CutBound(g, C) = SumOver(g.capacity, L) - SumOver(g.lower, I)
    BY DEF CutBound, Leaving, Entering
  <2> QED
    BY <2>1, SumIsTotal
<1>14. Divergence(g, fl, g.source) = Total(fl, L) - Total(fl, I)
  BY <1>0, ValueCrossesCut
<1>15. CutBound(g, C) = Divergence(g, fl, g.source)
  BY <1>11, <1>12, <1>13, <1>14
<1> QED
  BY <1>0, <1>15, AttainedIsLeast

LEMMA InitIsFeasible ==
    ASSUME Init
    PROVE  net \in Networks /\ IsNetwork(net) /\ Feasible(net, flow)
<1>1. net \in Networks /\ IsNetwork(net)
  BY NetworksAssumption DEF Init
<1>2. flow \in InitialFlows(net)
  BY DEF Init
<1>3. CASE \A e \in Edges(net) : net.lower[e] = 0
  <2>1. flow = [e \in Edges(net) |-> 0]
    BY <1>2, <1>3 DEF InitialFlows
  <2>2. WithinBounds(net, flow)
    <3> SUFFICES ASSUME NEW e \in Edges(net)
                 PROVE  flow[e] \in net.lower[e]..net.capacity[e]
      BY DEF WithinBounds
    <3>1. net.lower[e] = 0 /\ net.capacity[e] \in Nat
      BY <1>1, <1>3 DEF IsNetwork
    <3> QED
      BY <2>1, <3>1
  <2>3. ASSUME NEW v PROVE Divergence(net, flow, v) = 0
    <3> DEFINE From == {e \in Edges(net) : net.from[e] = v}
               Into == {e \in Edges(net) : net.to[e] = v}
    <3>1. IsFiniteSet(From) /\ IsFiniteSet(Into)
      BY <1>1, FS_Subset DEF IsNetwork
    <3>2. (\A e \in From : flow[e] = 0) /\ (\A e \in Into : flow[e] = 0)
      BY <2>1
    <3>3. Divergence(net, flow, v) = Total(flow, From) - Total(flow, Into)
      BY DivergenceIsTotals
    <3> HIDE DEF From, Into
    <3>4. Total(flow, From) = 0 /\ Total(flow, Into) = 0
      BY <3>1, <3>2, TotalZero
    <3> QED
      BY <3>3, <3>4
  <2> QED
    BY <1>1, <2>2, <2>3 DEF Feasible
<1>4. CASE ~ \A e \in Edges(net) : net.lower[e] = 0
  BY <1>1, <1>2, <1>4 DEF InitialFlows, Feasible
<1> QED
  BY <1>3, <1>4

(***************************************************************************)
(* Heights. A node without a live arc down by more than one, from the      *)
(* source at the number of nodes to the sink at zero.                      *)
(***************************************************************************)
ValidHeights(g, fl, label) ==
    /\ label \in [g.nodes -> 0..(2 * Cardinality(g.nodes))]
    /\ label[g.source] = Cardinality(g.nodes) /\ label[g.sink] = 0
    /\ \A a \in Arcs(g) : Residual(g, fl, a) > 0 =>
           label[ArcFrom(g, a)] <= label[ArcTo(g, a)] + 1

\* What the heights share with distance labels.
Descends(g, fl, label) ==
    /\ \A v \in g.nodes : label[v] \in Int
    /\ \A a \in Arcs(g) : Residual(g, fl, a) > 0 =>
           label[ArcFrom(g, a)] <= label[ArcTo(g, a)] + 1

LEMMA NodesCount ==
    ASSUME NEW g, IsNetwork(g)
    PROVE  /\ Cardinality(g.nodes) \in Nat /\ Cardinality(g.nodes) >= 2
           /\ IsFiniteSet(Inner(g)) /\ Cardinality(Inner(g)) = Cardinality(g.nodes) - 2
           /\ IsFiniteSet(g.nodes \ {g.source})
           /\ Cardinality(g.nodes \ {g.source}) = Cardinality(g.nodes) - 1
<1>1. IsFiniteSet(g.nodes) /\ g.source \in g.nodes /\ g.sink \in g.nodes /\ g.source # g.sink
  BY DEF IsNetwork
<1>2. /\ IsFiniteSet(g.nodes \ {g.source})
      /\ Cardinality(g.nodes \ {g.source}) = Cardinality(g.nodes) - 1
  BY <1>1, FS_RemoveElement
<1>3. /\ IsFiniteSet((g.nodes \ {g.source}) \ {g.sink})
      /\ Cardinality((g.nodes \ {g.source}) \ {g.sink}) = Cardinality(g.nodes \ {g.source}) - 1
  BY <1>1, <1>2, FS_RemoveElement
<1>4. Inner(g) = (g.nodes \ {g.source}) \ {g.sink}
  BY DEF Inner, Terminals
<1>5. /\ Cardinality(g.nodes) \in Nat
      /\ Cardinality((g.nodes \ {g.source}) \ {g.sink}) \in Nat
  BY <1>1, <1>3, FS_CardinalityType
<1> QED
  BY <1>2, <1>3, <1>4, <1>5

\* Fewer nodes lie between the terminals than heights: one height is free.
LEMMA FreeHeight ==
    ASSUME NEW g, IsNetwork(g), NEW fl, NEW label, ValidHeights(g, fl, label)
    PROVE  \E d \in 1..(Cardinality(g.nodes) - 1) : \A v \in g.nodes : label[v] # d
<1> DEFINE n == Cardinality(g.nodes)
           D == 1..(n - 1)
           at == [d \in D |-> CHOOSE v \in g.nodes : label[v] = d]
<1> SUFFICES ASSUME \A d \in D : \E v \in g.nodes : label[v] = d PROVE FALSE
  OBVIOUS
<1>1. n \in Nat /\ n >= 2 /\ IsFiniteSet(Inner(g)) /\ Cardinality(Inner(g)) = n - 2
  BY NodesCount
<1>2. \A d \in D : at[d] \in g.nodes /\ label[at[d]] = d
  OBVIOUS
<1>3. label[g.source] = n /\ label[g.sink] = 0
  BY DEF ValidHeights
<1> HIDE DEF n
<1>4. IsFiniteSet(D) /\ Cardinality(D) = n - 1
  BY <1>1, FS_Interval
<1>5. at \in [D -> Inner(g)]
  <2>1. \A d \in D : at[d] \in Inner(g)
    <3> TAKE d \in D
    <3>1. d # n /\ d # 0
      BY <1>1
    <3> HIDE DEF at
    <3> QED
      BY <3>1, <1>2, <1>3 DEF Inner, Terminals
  <2> QED
    BY <2>1
<1>6. Cardinality(Inner(g)) < Cardinality(D)
  BY <1>1, <1>4
<1> HIDE DEF at, D
<1>7. \E x, y \in D : x # y /\ at[x] = at[y]
  BY <1>1, <1>4, <1>5, <1>6, FS_PigeonHole
<1> QED
  BY <1>2, <1>7

\* The nodes above a free height are a cut whose bound the flow reaches.
LEMMA HeightsCertify ==
    ASSUME NEW g, IsNetwork(g), NEW fl, WithinBounds(g, fl),
           \A v \in Inner(g) : Divergence(g, fl, v) = 0,
           NEW label, ValidHeights(g, fl, label)
    PROVE  Divergence(g, fl, g.source)
               = Finite!Min({CutBound(g, S) : S \in {T \in SUBSET g.nodes :
                                g.source \in T /\ g.sink \notin T}})
<1> DEFINE n == Cardinality(g.nodes)
<1>1. PICK d \in 1..(n - 1) : \A v \in g.nodes : label[v] # d
  BY FreeHeight
<1>2. n \in Nat /\ n >= 2
  BY NodesCount
<1> DEFINE C == {v \in g.nodes : label[v] > d}
           L == Leaving(g, C)
           I == Entering(g, C)
<1>3. \A v \in g.nodes : label[v] \in Int
  BY DEF ValidHeights
<1>4. C \in SUBSET g.nodes /\ g.source \in C /\ g.sink \notin C
  <2>1. g.source \in g.nodes /\ label[g.source] = n /\ label[g.sink] = 0
    BY DEF ValidHeights, IsNetwork
  <2> HIDE DEF n
  <2> QED
    BY <1>2, <2>1
<1>5. \A e \in Edges(g) : /\ g.from[e] \in g.nodes /\ g.to[e] \in g.nodes
                          /\ g.lower[e] \in Int /\ g.capacity[e] \in Int /\ fl[e] \in Int
                          /\ g.lower[e] <= fl[e] /\ fl[e] <= g.capacity[e]
  BY NetworkTypes
<1>6. \A x, y \in g.nodes : x \in C /\ y \notin C => ~(label[x] <= label[y] + 1)
  BY <1>1, <1>3
<1>7. \A e \in L : fl[e] = g.capacity[e]
  <2> TAKE e \in L
  <2>1. e \in Edges(g) /\ g.from[e] \in C /\ g.to[e] \notin C
    BY DEF Leaving
  <2>2. <<e, "forward">> \in Arcs(g)
    BY <2>1 DEF Arcs
  <2>3. ~(label[g.from[e]] <= label[g.to[e]] + 1)
    BY <2>1, <1>5, <1>6
  <2>4. ~(Residual(g, fl, <<e, "forward">>) > 0)
    BY <2>2, <2>3 DEF ValidHeights, ArcFrom, ArcTo
  <2>5. Residual(g, fl, <<e, "forward">>) = g.capacity[e] - fl[e]
    BY DEF Residual
  <2> QED
    BY <2>1, <2>4, <2>5, <1>5
<1>8. \A e \in I : fl[e] = g.lower[e]
  <2> TAKE e \in I
  <2>1. e \in Edges(g) /\ g.from[e] \notin C /\ g.to[e] \in C
    BY DEF Entering
  <2>2. <<e, "reverse">> \in Arcs(g)
    BY <2>1 DEF Arcs
  <2>3. ~(label[g.to[e]] <= label[g.from[e]] + 1)
    BY <2>1, <1>5, <1>6
  <2>4. ~(Residual(g, fl, <<e, "reverse">>) > 0)
    BY <2>2, <2>3 DEF ValidHeights, ArcFrom, ArcTo
  <2>5. Residual(g, fl, <<e, "reverse">>) = fl[e] - g.lower[e]
    BY DEF Residual
  <2> QED
    BY <2>1, <2>4, <2>5, <1>5
<1> HIDE DEF C
<1>9. L \in SUBSET Edges(g) /\ I \in SUBSET Edges(g)
  BY DEF Leaving, Entering
<1>10. IsFiniteSet(L) /\ IsFiniteSet(I)
  BY <1>9, NetworkTypes
<1>11. Total(fl, L) = Total(g.capacity, L)
  <2>1. \A e \in L : fl[e] \in Int /\ fl[e] = g.capacity[e]
    BY <1>5, <1>7, <1>9
  <2> QED
    BY <1>10, <2>1, TotalSame
<1>12. Total(fl, I) = Total(g.lower, I)
  <2>1. \A e \in I : fl[e] \in Int /\ fl[e] = g.lower[e]
    BY <1>5, <1>8, <1>9
  <2> QED
    BY <1>10, <2>1, TotalSame
<1>13. CutBound(g, C) = Total(g.capacity, L) - Total(g.lower, I)
  <2>1. CutBound(g, C) = SumOver(g.capacity, L) - SumOver(g.lower, I)
    BY DEF CutBound, Leaving, Entering
  <2> QED
    BY <2>1, SumIsTotal
<1>14. Divergence(g, fl, g.source) = Total(fl, L) - Total(fl, I)
  BY <1>4, ValueCrossesCut
<1>15. CutBound(g, C) = Divergence(g, fl, g.source)
  BY <1>11, <1>12, <1>13, <1>14
<1> QED
  BY <1>4, <1>15, AttainedIsLeast

(***************************************************************************)
(* The inductive invariant. counts is what the gap rule reads, so it has to*)
(* be exact for a gap to be one.                                           *)
(***************************************************************************)
Counted(g, label, counts) ==
    /\ DOMAIN counts = 0..(2 * Cardinality(g.nodes))
    /\ \A i \in 0..(2 * Cardinality(g.nodes)) :
           counts[i] = Cardinality({v \in g.nodes : label[v] = i})

KernelFields == {"label", "cursor", "pred", "queue", "path", "excess", "counts", "node", "mark",
                 "delta", "scans"}

(***************************************************************************)
(* A relabelling.                                                          *)
(***************************************************************************)
LEMMA DisjointCardinality ==
    ASSUME NEW S, IsFiniteSet(S), NEW T, IsFiniteSet(T), S \cap T = {}
    PROVE  IsFiniteSet(S \cup T) /\ Cardinality(S \cup T) = Cardinality(S) + Cardinality(T)
<1>1. /\ IsFiniteSet(S \cup T)
      /\ Cardinality(S \cup T) = Cardinality(S) + Cardinality(T) - Cardinality(S \cap T)
  BY FS_Union
<1>2. Cardinality(S \cap T) = 0
  BY FS_EmptySet
<1>3. Cardinality(S) \in Nat /\ Cardinality(T) \in Nat
  BY FS_CardinalityType
<1> QED
  BY <1>1, <1>2, <1>3

\* The counts follow the nodes that move.
RaisedLabel(g, label, v, h, up) ==
    [u \in g.nodes |-> IF u \in up THEN Cardinality(g.nodes) + 1 ELSE IF u = v THEN h ELSE label[u]]

RaisedCount(g, label, counts, v, h, up) ==
    [i \in DOMAIN counts |-> counts[i]
                  - Cardinality({u \in up \cup {v} : label[u] = i})
                  + (IF i = Cardinality(g.nodes) + 1 THEN Cardinality(up) ELSE 0)
                  + (IF i = h /\ v \notin up THEN 1 ELSE 0)]

LEMMA RaisedCounts ==
    ASSUME NEW g, IsNetwork(g), NEW label, NEW counts, Counted(g, label, counts),
           NEW v \in g.nodes, NEW h, NEW up \in SUBSET g.nodes
    PROVE  Counted(g, RaisedLabel(g, label, v, h, up), RaisedCount(g, label, counts, v, h, up))
<1> DEFINE n == Cardinality(g.nodes)
           new == RaisedLabel(g, label, v, h, up)
           recount == RaisedCount(g, label, counts, v, h, up)
<1>4. /\ new = [u \in g.nodes |-> IF u \in up THEN n + 1 ELSE IF u = v THEN h ELSE label[u]]
      /\ recount = [i \in DOMAIN counts |-> counts[i]
                  - Cardinality({u \in up \cup {v} : label[u] = i})
                  + (IF i = n + 1 THEN Cardinality(up) ELSE 0)
                  + (IF i = h /\ v \notin up THEN 1 ELSE 0)]
  BY DEF RaisedLabel, RaisedCount
<1> HIDE DEF new, recount
<1>1. DOMAIN counts = 0..(2 * n) /\ IsFiniteSet(g.nodes)
  BY DEF Counted, IsNetwork
<1>2. DOMAIN recount = 0..(2 * n)
  BY <1>1, <1>4
<1>3. ASSUME NEW i \in 0..(2 * n)
      PROVE  recount[i] = Cardinality({u \in g.nodes : new[u] = i})
  <2> DEFINE A == {u \in g.nodes : label[u] = i}
             M == {u \in up \cup {v} : label[u] = i}
             P == IF i = n + 1 THEN up ELSE {}
             Q == IF i = h /\ v \notin up THEN {v} ELSE {}
             B == {u \in g.nodes : new[u] = i}
  <2>1. /\ IsFiniteSet(A) /\ IsFiniteSet(M) /\ IsFiniteSet(P) /\ IsFiniteSet(Q)
        /\ IsFiniteSet(A \ M) /\ IsFiniteSet(up)
    <3>1. /\ A \in SUBSET g.nodes /\ M \in SUBSET g.nodes /\ P \in SUBSET g.nodes
          /\ Q \in SUBSET g.nodes /\ A \ M \in SUBSET g.nodes
      OBVIOUS
    <3> HIDE DEF A, M, P, Q
    <3> QED
      BY <3>1, <1>1, FS_Subset
  <2>2. A = (A \ M) \cup M /\ (A \ M) \cap M = {}
    OBVIOUS
  <2>3. B = ((A \ M) \cup P) \cup Q
    <3>1. ASSUME NEW u \in g.nodes
          PROVE  u \in B <=> u \in ((A \ M) \cup P) \cup Q
      <4>1. CASE u \in up
        BY <4>1, <1>4
      <4>2. CASE u \notin up /\ u = v
        BY <4>2, <1>4
      <4>3. CASE u \notin up /\ u # v
        BY <4>3, <1>4
      <4> QED
        BY <4>1, <4>2, <4>3
    <3>2. B \subseteq g.nodes /\ ((A \ M) \cup P) \cup Q \subseteq g.nodes
      OBVIOUS
    <3> HIDE DEF A, M, P, Q, B
    <3> QED
      BY <3>1, <3>2
  <2>4. (A \ M) \cap P = {} /\ ((A \ M) \cup P) \cap Q = {}
    OBVIOUS
  <2>5. /\ Cardinality(P) = IF i = n + 1 THEN Cardinality(up) ELSE 0
        /\ Cardinality(Q) = IF i = h /\ v \notin up THEN 1 ELSE 0
    <3>1. Cardinality({}) = 0 /\ Cardinality({v}) = 1
      BY FS_EmptySet, FS_Singleton
    <3> QED
      BY <3>1
  <2>6. counts[i] = Cardinality(A)
    BY DEF Counted
  <2>7. recount[i] = counts[i] - Cardinality(M)
                  + (IF i = n + 1 THEN Cardinality(up) ELSE 0)
                  + (IF i = h /\ v \notin up THEN 1 ELSE 0)
    BY <1>1, <1>4
  <2> HIDE DEF A, M, P, Q, B
  <2>8. Cardinality(A) = Cardinality(A \ M) + Cardinality(M)
    BY <2>1, <2>2, DisjointCardinality
  <2>9. /\ IsFiniteSet((A \ M) \cup P)
        /\ Cardinality((A \ M) \cup P) = Cardinality(A \ M) + Cardinality(P)
    BY <2>1, <2>4, DisjointCardinality
  <2>10. Cardinality(B) = Cardinality((A \ M) \cup P) + Cardinality(Q)
    BY <2>1, <2>3, <2>4, <2>9, DisjointCardinality
  <2>11. Cardinality(A \ M) \in Nat /\ Cardinality(M) \in Nat /\ Cardinality(P) \in Nat
         /\ Cardinality(Q) \in Nat
    BY <2>1, FS_CardinalityType
  <2>12. recount[i] = Cardinality(A) - Cardinality(M) + Cardinality(P) + Cardinality(Q)
    BY <2>5, <2>6, <2>7
  <2>13. recount[i] = Cardinality(B)
    BY <2>8, <2>9, <2>10, <2>11, <2>12
  <2> QED
    BY <2>13 DEF B
<1> QED
  BY <1>2, <1>3 DEF Counted, new, recount

\* The arcs a node's search has passed lead nowhere: none of them is live and
\* leads down by one.
Passed(g, fl, label, cursor) ==
    \A v \in g.nodes :
        /\ cursor[v] \in 0..Len(g.outgoing[v])
        /\ \A i \in 1..cursor[v] :
               LET a == g.outgoing[v][i]
               IN ~(Residual(g, fl, a) > 0 /\ label[v] = label[ArcTo(g, a)] + 1)

\* Where heights rise, every risen node searches anew; an arc to a risen node
\* led down by at most one before, and by less now.
LEMMA RisePasses ==
    ASSUME NEW g, IsNetwork(g), NEW fl, WithinBounds(g, fl), NEW old, Descends(g, fl, old),
           NEW cursor, Passed(g, fl, old, cursor), NEW S, NEW new,
           \A u \in g.nodes : new[u] \in Int /\ old[u] <= new[u],
           \A u \in g.nodes \ S : new[u] = old[u]
    PROVE  Passed(g, fl, new, [u \in g.nodes |-> IF u \in S THEN 0 ELSE cursor[u]])
<1> DEFINE next == [u \in g.nodes |-> IF u \in S THEN 0 ELSE cursor[u]]
<1> SUFFICES ASSUME NEW v \in g.nodes
             PROVE  /\ next[v] \in 0..Len(g.outgoing[v])
                    /\ \A i \in 1..next[v] :
                           ~(/\ Residual(g, fl, g.outgoing[v][i]) > 0
                             /\ new[v] = new[ArcTo(g, g.outgoing[v][i])] + 1)
  BY DEF Passed
<1>1. Len(g.outgoing[v]) \in Nat
  <2>1. g.outgoing[v] \in Seq(Arcs(g))
    BY DEF IsNetwork
  <2> QED
    BY <2>1, LenProperties
<1>2. CASE v \in S
  BY <1>1, <1>2
<1>3. CASE v \notin S
  <2>1. next[v] = cursor[v] /\ cursor[v] \in 0..Len(g.outgoing[v]) /\ new[v] = old[v]
    BY <1>3 DEF Passed
  <2>2. ASSUME NEW i \in 1..next[v], Residual(g, fl, g.outgoing[v][i]) > 0,
               new[v] = new[ArcTo(g, g.outgoing[v][i])] + 1
        PROVE  FALSE
    <3> DEFINE a == g.outgoing[v][i]
    <3>1. i \in 1..Len(g.outgoing[v]) /\ i \in 1..cursor[v]
      BY <1>1, <2>1
    <3>2. a \in Arcs(g) /\ ArcFrom(g, a) = v
      BY <3>1, ListedArc
    <3>3. ~(Residual(g, fl, a) > 0 /\ old[v] = old[ArcTo(g, a)] + 1)
      BY <3>1 DEF Passed
    <3>4. Residual(g, fl, a) > 0 /\ new[v] = new[ArcTo(g, a)] + 1
      BY <2>2
    <3> HIDE DEF a
    <3>5. ArcTo(g, a) \in g.nodes
      BY <3>2, ResidualIsInt
    <3>6. /\ old[v] <= old[ArcTo(g, a)] + 1 /\ old[v] \in Int /\ old[ArcTo(g, a)] \in Int
      BY <3>2, <3>4, <3>5 DEF Descends
    <3> QED
      BY <2>1, <3>3, <3>4, <3>5, <3>6
  <2> QED
    BY <2>1, <2>2
<1> QED
  BY <1>2, <1>3

\* The retreat also passes the arc by which the path came to the risen node.
LEMMA RetreatPasses ==
    ASSUME NEW g, IsNetwork(g), NEW fl, NEW label, NEW cursor \in [g.nodes -> Nat],
           Passed(g, fl, label, cursor),
           NEW w \in g.nodes, cursor[w] + 1 \in 1 .. Len(g.outgoing[w]),
           label[w] # label[ArcTo(g, g.outgoing[w][cursor[w] + 1])] + 1,
           NEW cursor2, cursor2 = [cursor EXCEPT ![w] = @ + 1]
    PROVE  Passed(g, fl, label, cursor2)
<1>1. \A v \in g.nodes : cursor2[v] = IF v = w THEN cursor[w] + 1 ELSE cursor[v]
  OBVIOUS
<1> SUFFICES ASSUME NEW v \in g.nodes
             PROVE  /\ cursor2[v] \in 0 .. Len(g.outgoing[v])
                    /\ \A i \in 1 .. cursor2[v] :
                           ~(/\ Residual(g, fl, g.outgoing[v][i]) > 0
                             /\ label[v] = label[ArcTo(g, g.outgoing[v][i])] + 1)
  BY DEF Passed
<1>2. Len(g.outgoing[v]) \in Nat /\ cursor[v] \in 0 .. Len(g.outgoing[v])
  <2>1. g.outgoing[v] \in Seq(Arcs(g))
    BY DEF IsNetwork
  <2> QED
    BY <2>1, LenProperties DEF Passed
<1>3. cursor2[v] \in 0 .. Len(g.outgoing[v])
  BY <1>1, <1>2
<1>4. ASSUME NEW i \in 1 .. cursor2[v]
      PROVE  ~(/\ Residual(g, fl, g.outgoing[v][i]) > 0
               /\ label[v] = label[ArcTo(g, g.outgoing[v][i])] + 1)
  <2>1. CASE i <= cursor[v]
    <3>1. i \in 1 .. cursor[v]
      BY <1>2, <2>1
    <3> QED
      BY <3>1 DEF Passed
  <2>2. CASE ~(i <= cursor[v])
    <3>1. v = w /\ i = cursor[w] + 1
      BY <1>1, <1>2, <1>3, <2>2
    <3> QED
      BY <3>1
  <2> QED
    BY <2>1, <2>2
<1> QED
  BY <1>3, <1>4

(***************************************************************************)
(* Distances to the sink. The greatest labels that fall by at most one     *)
(* along every arc of a node that is not blocked are what the reverse      *)
(* search finds, the number of nodes standing for a node it does not reach.*)
(***************************************************************************)
Falling(g, fl, blocked, n, f) ==
    /\ f \in [g.nodes -> 0 .. n] /\ f[g.sink] = 0
    /\ \A a \in Arcs(g) : Residual(g, fl, a) > 0 /\ ArcFrom(g, a) \notin blocked =>
           f[ArcFrom(g, a)] <= f[ArcTo(g, a)] + 1

Furthest(g, fl, blocked, n, d) ==
    /\ Falling(g, fl, blocked, n, d)
    /\ \A f : Falling(g, fl, blocked, n, f) => \A v \in g.nodes : f[v] <= d[v]

LEMMA FurthestExists ==
    ASSUME NEW g, IsNetwork(g), NEW fl, WithinBounds(g, fl), NEW blocked, NEW n \in Nat
    PROVE  \E d : Furthest(g, fl, blocked, n, d)
<1> DEFINE F == {f \in [g.nodes -> 0 .. n] : Falling(g, fl, blocked, n, f)}
           At(v) == {f[v] : f \in F}
           d == [v \in g.nodes |-> Finite!Max(At(v))]
           zero == [v \in g.nodes |-> 0]
<1>1. \A f : Falling(g, fl, blocked, n, f) <=> f \in F
  BY DEF Falling
<1>2. zero \in F
  <2>1. \A a \in Arcs(g) : ArcFrom(g, a) \in g.nodes /\ ArcTo(g, a) \in g.nodes
    BY ResidualIsInt
  <2>2. zero \in [g.nodes -> 0 .. n] /\ g.sink \in g.nodes
    BY DEF IsNetwork
  <2> QED
    BY <2>1, <2>2 DEF Falling
<1>3. \A f \in F : f \in [g.nodes -> 0 .. n]
  OBVIOUS
<1> HIDE DEF F, zero
<1>4. ASSUME NEW v \in g.nodes PROVE d[v] \in At(v) /\ (\A y \in At(v) : d[v] >= y)
  <2>1. At(v) \in SUBSET (0 .. n)
    BY <1>3
  <2>2. At(v) # {}
    BY <1>2
  <2>3. d[v] = Finite!Max(At(v))
    OBVIOUS
  <2> HIDE DEF At, d
  <2>4. IsFiniteSet(0 .. n)
    BY FS_Interval
  <2>5. IsFiniteSet(At(v)) /\ At(v) \subseteq Int
    BY <2>1, <2>4, FS_Subset
  <2> QED
    BY <2>2, <2>3, <2>5, MaxIsGreatest
<1>5. \A v \in g.nodes : d[v] \in 0 .. n /\ (\A f \in F : f[v] <= d[v]) /\ (\E f \in F : f[v] = d[v])
  <2> TAKE v \in g.nodes
  <2>1. \A y \in At(v) : y \in 0 .. n /\ \E f \in F : f[v] = y
    BY <1>3
  <2>2. \A f \in F : f[v] \in At(v)
    OBVIOUS
  <2> HIDE DEF At, d
  <2>3. d[v] \in 0 .. n
    BY <1>4, <2>1
  <2>4. \A f \in F : f[v] <= d[v]
    <3> TAKE f \in F
    <3>1. f[v] \in 0 .. n /\ d[v] >= f[v]
      BY <1>4, <2>1, <2>2
    <3> QED
      BY <2>3, <3>1
  <2> QED
    BY <1>4, <2>1, <2>3, <2>4
<1>6. DOMAIN d = g.nodes /\ d = [v \in g.nodes |-> d[v]]
  OBVIOUS
<1> HIDE DEF d, At
<1>7. d \in [g.nodes -> 0 .. n]
  BY <1>5, <1>6
<1>8. d[g.sink] = 0
  <2>1. g.sink \in g.nodes
    BY DEF IsNetwork
  <2>2. \A f \in F : f[g.sink] = 0
    BY <1>1 DEF Falling
  <2> QED
    BY <1>5, <2>1, <2>2
<1>9. ASSUME NEW a \in Arcs(g), Residual(g, fl, a) > 0, ArcFrom(g, a) \notin blocked
      PROVE  d[ArcFrom(g, a)] <= d[ArcTo(g, a)] + 1
  <2>1. ArcFrom(g, a) \in g.nodes /\ ArcTo(g, a) \in g.nodes
    BY ResidualIsInt
  <2>2. PICK f \in F : f[ArcFrom(g, a)] = d[ArcFrom(g, a)]
    BY <1>5, <2>1
  <2>3. f[ArcFrom(g, a)] <= f[ArcTo(g, a)] + 1
    BY <1>1, <1>9 DEF Falling
  <2>4. f[ArcTo(g, a)] <= d[ArcTo(g, a)] /\ f[ArcTo(g, a)] \in 0 .. n /\ d[ArcTo(g, a)] \in 0 .. n
        /\ d[ArcFrom(g, a)] \in 0 .. n
    BY <1>3, <1>5, <2>1
  <2> QED
    BY <2>2, <2>3, <2>4
<1>10. Falling(g, fl, blocked, n, d)
  BY <1>7, <1>8, <1>9 DEF Falling
<1> QED
  BY <1>1, <1>5, <1>10 DEF Furthest

\* A node below the bound has an arc to one below it.
LEMMA FurthestFalls ==
    ASSUME NEW g, IsNetwork(g), NEW fl, WithinBounds(g, fl), NEW blocked, NEW n \in Nat, NEW d,
           Furthest(g, fl, blocked, n, d), NEW v \in g.nodes \ {g.sink}, d[v] < n
    PROVE  /\ v \notin blocked
           /\ \E a \in Arcs(g) : /\ ArcFrom(g, a) = v /\ Residual(g, fl, a) > 0
                                 /\ d[v] = d[ArcTo(g, a)] + 1
<1> SUFFICES ASSUME \A a \in Arcs(g) : /\ ArcFrom(g, a) = v /\ Residual(g, fl, a) > 0
                                       => v \in blocked \/ d[v] # d[ArcTo(g, a)] + 1
             PROVE  FALSE
  <2>1. ASSUME v \in blocked PROVE FALSE
    BY <2>1
  <2> QED
    BY <2>1
<1> DEFINE f == [d EXCEPT ![v] = d[v] + 1]
<1>1. d \in [g.nodes -> 0 .. n] /\ d[g.sink] = 0 /\ g.sink \in g.nodes
  BY DEF Furthest, Falling, IsNetwork
<1>2. f \in [g.nodes -> 0 .. n] /\ f[v] = d[v] + 1 /\ \A u \in g.nodes : u # v => f[u] = d[u]
  BY <1>1
<1>3. f[g.sink] = 0
  BY <1>1, <1>2
<1> HIDE DEF f
<1>4. \A u \in g.nodes : d[u] \in Int /\ f[u] \in Int /\ d[u] <= f[u]
  BY <1>1, <1>2
<1>5. ASSUME NEW a \in Arcs(g), Residual(g, fl, a) > 0, ArcFrom(g, a) \notin blocked
      PROVE  f[ArcFrom(g, a)] <= f[ArcTo(g, a)] + 1
  <2>1. ArcFrom(g, a) \in g.nodes /\ ArcTo(g, a) \in g.nodes
    BY ResidualIsInt
  <2>2. d[ArcFrom(g, a)] <= d[ArcTo(g, a)] + 1
    BY <1>5 DEF Furthest, Falling
  <2>3. CASE ArcFrom(g, a) = v
    <3>1. d[v] # d[ArcTo(g, a)] + 1
      BY <1>5, <2>3
    <3>2. d[v] + 1 <= d[ArcTo(g, a)] + 1 /\ d[ArcTo(g, a)] <= f[ArcTo(g, a)]
      BY <1>4, <2>1, <2>2, <2>3, <3>1
    <3> QED
      BY <1>2, <1>4, <2>1, <2>3, <3>2
  <2>4. CASE ArcFrom(g, a) # v
    <3>1. f[ArcFrom(g, a)] = d[ArcFrom(g, a)] /\ d[ArcTo(g, a)] <= f[ArcTo(g, a)]
      BY <1>2, <1>4, <2>1, <2>4
    <3> QED
      BY <1>4, <2>1, <2>2, <3>1
  <2> QED
    BY <2>3, <2>4
<1>6. Falling(g, fl, blocked, n, f)
  BY <1>2, <1>3, <1>5 DEF Falling
<1>7. f[v] <= d[v]
  BY <1>6 DEF Furthest
<1> QED
  BY <1>2, <1>4, <1>7

\* A node as far as there are others to pass leaves none that is farther.
LEMMA NoneBeyond ==
    ASSUME NEW g, IsNetwork(g), NEW fl, WithinBounds(g, fl), NEW blocked, NEW n, n = Cardinality(g.nodes),
           NEW d, Furthest(g, fl, blocked, n, d), NEW u \in g.nodes, d[u] = n - 1,
           NEW v \in g.nodes, d[v] = n
    PROVE  FALSE
<1>1. n \in Nat /\ n >= 2 /\ IsFiniteSet(g.nodes)
  BY NodesCount DEF IsNetwork
<1>2. d \in [g.nodes -> 0 .. n] /\ d[g.sink] = 0
  BY DEF Furthest, Falling
<1> DEFINE good == {i \in 0 .. (n - 1) : \E w \in g.nodes : d[w] = (n - 1) - i}
<1>3. 0 \in good
  BY <1>1
<1>4. \A i \in 0 .. (n - 1) : i > 0 /\ i - 1 \in good => i \in good
  <2> SUFFICES ASSUME NEW i \in 0 .. (n - 1), i > 0, i - 1 \in good
               PROVE  \E w \in g.nodes : d[w] = (n - 1) - i
    OBVIOUS
  <2>1. PICK w \in g.nodes : d[w] = (n - 1) - (i - 1)
    OBVIOUS
  <2>2. d[w] = n - i /\ d[w] > 0 /\ d[w] < n
    BY <1>1, <2>1
  <2>3. w \in g.nodes \ {g.sink} /\ d[w] < n
    BY <1>2, <2>2
  <2> HIDE DEF good
  <2>35. /\ w \notin blocked
         /\ \E a \in Arcs(g) : /\ ArcFrom(g, a) = w /\ Residual(g, fl, a) > 0
                               /\ d[w] = d[ArcTo(g, a)] + 1
    <3>1. n \in Nat
      BY <1>1
    <3> QED
      BY <2>3, <3>1, FurthestFalls
  <2>4. PICK a \in Arcs(g) : ArcFrom(g, a) = w /\ Residual(g, fl, a) > 0 /\ d[w] = d[ArcTo(g, a)] + 1
    BY <2>35
  <2>5. ArcTo(g, a) \in g.nodes
    BY ResidualIsInt
  <2>6. d[ArcTo(g, a)] = (n - 1) - i
    BY <1>1, <1>2, <2>2, <2>4, <2>5
  <2> QED
    BY <2>5, <2>6
<1>5. 0 .. (n - 1) \subseteq good
  <2> HIDE DEF good
  <2>1. n - 1 \in Nat
    BY <1>1
  <2> QED
    BY <1>3, <1>4, <2>1, UpToInduction
<1>6. \A j \in 0 .. n : \E w \in g.nodes : d[w] = j
  <2> TAKE j \in 0 .. n
  <2>1. CASE j = n
    BY <2>1
  <2>2. CASE j # n
    <3>1. (n - 1) - j \in good /\ (n - 1) - ((n - 1) - j) = j
      BY <1>1, <1>5, <2>2
    <3> QED
      BY <3>1
  <2> QED
    BY <2>1, <2>2
<1> DEFINE at == [j \in 0 .. n |-> CHOOSE w \in g.nodes : d[w] = j]
<1>7. \A j \in 0 .. n : at[j] \in g.nodes /\ d[at[j]] = j
  BY <1>6
<1>8. at \in [0 .. n -> g.nodes]
  BY <1>7
<1>9. IsFiniteSet(0 .. n) /\ Cardinality(0 .. n) = n + 1
  BY <1>1, FS_Interval
<1> HIDE DEF at
<1>10. \E x, y \in 0 .. n : x # y /\ at[x] = at[y]
  <2> DEFINE S == 0 .. n
  <2>1. IsFiniteSet(S) /\ IsFiniteSet(g.nodes) /\ at \in [S -> g.nodes] /\ Cardinality(g.nodes) < Cardinality(S)
    BY <1>1, <1>8, <1>9
  <2> HIDE DEF S
  <2>2. \E x, y \in S : x # y /\ at[x] = at[y]
    BY <2>1, FS_PigeonHole
  <2> QED
    BY <2>2 DEF S
<1> QED
  BY <1>7, <1>10

\* The distances the reverse search finds.
SinkDistances(far, blocked) ==
    /\ far[net.sink] = 0
    /\ \A v \in net.nodes \ {net.sink} :
           far[v] = IF v \in blocked \/ Closer(far, v) = {} THEN NoLabel
                    ELSE Finite!Min(Closer(far, v)) + 1

LEMMA SinkDistanceIs ==
    ASSUME IsNetwork(net), WithinBounds(net, flow), NEW blocked
    PROVE  /\ SinkDistance(blocked) \in [net.nodes -> NoLabel .. (N - 1)]
           /\ SinkDistances(SinkDistance(blocked), blocked)
<1> DEFINE n == Cardinality(net.nodes)
<1>1. n \in Nat /\ n >= 2 /\ n = N
  BY NodesCount DEF N
<1> HIDE DEF n
<1>2. PICK d : Furthest(net, flow, blocked, n, d)
  BY <1>1, FurthestExists
<1>3. /\ d \in [net.nodes -> 0 .. n] /\ d[net.sink] = 0 /\ net.sink \in net.nodes
      /\ \A a \in Arcs(net) : Residual(net, flow, a) > 0 /\ ArcFrom(net, a) \notin blocked =>
             d[ArcFrom(net, a)] <= d[ArcTo(net, a)] + 1
  BY <1>2 DEF Furthest, Falling, IsNetwork
<1> DEFINE far == [v \in net.nodes |-> IF d[v] = n THEN NoLabel ELSE d[v]]
<1>4. far \in [net.nodes -> NoLabel .. (N - 1)]
  BY <1>1, <1>3 DEF NoLabel
<1>5. \A v \in net.nodes : far[v] = IF d[v] = n THEN NoLabel ELSE d[v]
  OBVIOUS
<1> HIDE DEF far
<1>6. far[net.sink] = 0
  BY <1>1, <1>3, <1>5
<1>7. \A a \in Arcs(net) : ArcFrom(net, a) \in net.nodes /\ ArcTo(net, a) \in net.nodes
  BY ResidualIsInt
<1>8. ASSUME NEW v \in net.nodes \ {net.sink}
      PROVE  far[v] = IF v \in blocked \/ Closer(far, v) = {} THEN NoLabel
                      ELSE Finite!Min(Closer(far, v)) + 1
  <2> DEFINE S == Closer(far, v)
  <2>1. \A y : y \in S <=> \E a \in Arcs(net) : /\ ArcFrom(net, a) = v /\ Residual(net, flow, a) > 0
                                                /\ y = far[ArcTo(net, a)] /\ y # NoLabel
    BY DEF Closer, LiveArcs, Live, To
  <2>2. \A y \in S : y \in 0 .. n
    <3> TAKE y \in S
    <3>1. PICK a \in Arcs(net) : y = far[ArcTo(net, a)] /\ y # NoLabel
      BY <2>1
    <3>2. ArcTo(net, a) \in net.nodes
      BY <1>7
    <3> QED
      BY <1>3, <1>5, <3>1, <3>2
  <2>3. IsFiniteSet(S) /\ S \subseteq Int
    <3> HIDE DEF S
    <3>1. IsFiniteSet(0 .. n)
      BY <1>1, FS_Interval
    <3>2. S \subseteq 0 .. n
      BY <2>2
    <3>3. IsFiniteSet(S)
      BY <3>1, <3>2, FS_Subset
    <3> QED
      BY <2>2, <3>3
  <2> HIDE DEF S
  <2>4. CASE d[v] < n
    <3>1. v \notin blocked
      BY <1>1, <1>2, <2>4, FurthestFalls
    <3>2. PICK a \in Arcs(net) : ArcFrom(net, a) = v /\ Residual(net, flow, a) > 0 /\ d[v] = d[ArcTo(net, a)] + 1
      BY <1>1, <1>2, <2>4, FurthestFalls
    <3>3. ArcTo(net, a) \in net.nodes /\ d[ArcTo(net, a)] \in 0 .. n /\ d[v] \in 0 .. n
      BY <1>3, <1>7
    <3>4. far[ArcTo(net, a)] = d[v] - 1 /\ far[ArcTo(net, a)] # NoLabel /\ far[v] = d[v]
      BY <1>1, <1>5, <2>4, <3>2, <3>3 DEF NoLabel
    <3>5. d[v] - 1 \in S
      BY <2>1, <3>2, <3>4
    <3>6. \A y \in S : d[v] - 1 <= y
      <4> TAKE y \in S
      <4>1. PICK b \in Arcs(net) : /\ ArcFrom(net, b) = v /\ Residual(net, flow, b) > 0
                                   /\ y = far[ArcTo(net, b)] /\ y # NoLabel
        BY <2>1
      <4>2. ArcTo(net, b) \in net.nodes /\ d[ArcTo(net, b)] \in 0 .. n
        BY <1>3, <1>7
      <4>3. d[v] <= d[ArcTo(net, b)] + 1 /\ y = d[ArcTo(net, b)]
        BY <1>3, <1>5, <3>1, <4>1, <4>2
      <4> QED
        BY <3>3, <4>2, <4>3
    <3>7. Finite!Min(S) \in S /\ \A y \in S : Finite!Min(S) <= y
      BY <2>3, <3>5, MinIsLeast
    <3>8. Finite!Min(S) = d[v] - 1
      <4>1. Finite!Min(S) \in Int /\ d[v] - 1 <= Finite!Min(S) /\ Finite!Min(S) <= d[v] - 1
        BY <2>3, <3>5, <3>6, <3>7
      <4> QED
        BY <3>3, <4>1
    <3>9. far[v] = Finite!Min(S) + 1
      BY <3>3, <3>4, <3>8
    <3> QED
      BY <3>1, <3>5, <3>9 DEF S
  <2>5. CASE d[v] = n
    <3>1. far[v] = NoLabel
      BY <1>5, <2>5
    <3>2. ASSUME v \notin blocked, S # {} PROVE FALSE
      <4>1. PICK a \in Arcs(net) : /\ ArcFrom(net, a) = v /\ Residual(net, flow, a) > 0
                                   /\ far[ArcTo(net, a)] # NoLabel
        BY <2>1, <3>2
      <4>2. ArcTo(net, a) \in net.nodes /\ d[ArcTo(net, a)] \in 0 .. n
        BY <1>3, <1>7
      <4>3. d[ArcTo(net, a)] # n /\ d[v] <= d[ArcTo(net, a)] + 1
        BY <1>3, <1>5, <3>2, <4>1, <4>2
      <4>4. d[ArcTo(net, a)] = n - 1
        BY <1>1, <2>5, <4>2, <4>3
      <4> QED
        BY <1>2, <2>5, <4>2, <4>4, NoneBeyond DEF n
    <3> QED
      BY <3>1, <3>2 DEF S
  <2>6. d[v] \in 0 .. n
    BY <1>3
  <2> QED
    BY <1>1, <2>4, <2>5, <2>6
<1>9. SinkDistances(far, blocked)
  BY <1>6, <1>8 DEF SinkDistances
<1> DEFINE D == [net.nodes -> NoLabel .. (N - 1)]
<1>10. SinkDistance(blocked) = CHOOSE f \in D : SinkDistances(f, blocked)
  BY DEF SinkDistance, SinkDistances
<1> HIDE DEF D
<1>11. SinkDistance(blocked) \in D /\ SinkDistances(SinkDistance(blocked), blocked)
  <2>1. \E f \in D : SinkDistances(f, blocked)
    BY <1>4, <1>9 DEF D
  <2> QED
    BY <1>10, <2>1
<1> QED
  BY <1>11 DEF D

\* Read as labels, they fall by at most one along every arc of an open node.
LEMMA SinkDistanceFalls ==
    ASSUME IsNetwork(net), WithinBounds(net, flow), NEW blocked, NEW far, far = SinkDistance(blocked)
    PROVE  /\ far \in [net.nodes -> NoLabel .. (N - 1)] /\ far[net.sink] = 0
           /\ \A a \in Arcs(net) :
                  Residual(net, flow, a) > 0 /\ ArcFrom(net, a) \notin blocked /\ far[ArcTo(net, a)] # NoLabel =>
                      /\ far[ArcFrom(net, a)] # NoLabel
                      /\ far[ArcFrom(net, a)] <= far[ArcTo(net, a)] + 1
<1>1. far \in [net.nodes -> NoLabel .. (N - 1)] /\ SinkDistances(far, blocked)
  BY SinkDistanceIs
<1>2. N \in Nat /\ N >= 2
  BY NodesCount DEF N
<1>3. far[net.sink] = 0
  BY <1>1 DEF SinkDistances
<1>4. ASSUME NEW a \in Arcs(net), Residual(net, flow, a) > 0, ArcFrom(net, a) \notin blocked,
             far[ArcTo(net, a)] # NoLabel
      PROVE  /\ far[ArcFrom(net, a)] # NoLabel
             /\ far[ArcFrom(net, a)] <= far[ArcTo(net, a)] + 1
  <2> DEFINE v == ArcFrom(net, a)
             S == Closer(far, v)
  <2>1. v \in net.nodes /\ ArcTo(net, a) \in net.nodes
    BY ResidualIsInt
  <2>2. far[ArcTo(net, a)] \in 0 .. (N - 1)
    BY <1>1, <1>2, <1>4, <2>1 DEF NoLabel
  <2>3. CASE v = net.sink
    BY <1>3, <2>2, <2>3 DEF NoLabel
  <2>4. CASE v # net.sink
    <3>1. far[ArcTo(net, a)] \in S
      BY <1>4 DEF Closer, LiveArcs, Live, To
    <3>2. \A y \in S : y \in 0 .. (N - 1)
      <4> TAKE y \in S
      <4>1. PICK b \in Arcs(net) : y = far[ArcTo(net, b)] /\ y # NoLabel
        BY DEF Closer, LiveArcs, Live, To
      <4>2. ArcTo(net, b) \in net.nodes
        BY ResidualIsInt
      <4> QED
        BY <1>1, <1>2, <4>1, <4>2 DEF NoLabel
    <3>3. far[v] = Finite!Min(S) + 1
      BY <1>1, <1>4, <2>1, <2>4, <3>1 DEF SinkDistances
    <3> HIDE DEF S, v
    <3>4. IsFiniteSet(S) /\ S \subseteq Int
      <4>1. IsFiniteSet(0 .. (N - 1))
        BY <1>2, FS_Interval
      <4>2. S \subseteq 0 .. (N - 1)
        BY <3>2
      <4>3. IsFiniteSet(S)
        BY <4>1, <4>2, FS_Subset
      <4> QED
        BY <3>2, <4>3
    <3>5. Finite!Min(S) \in S /\ Finite!Min(S) <= far[ArcTo(net, a)]
      BY <3>1, <3>4, MinIsLeast
    <3>6. Finite!Min(S) \in 0 .. (N - 1)
      BY <3>2, <3>5
    <3>7. far[v] # NoLabel /\ far[v] <= far[ArcTo(net, a)] + 1
      BY <1>2, <2>2, <3>3, <3>5, <3>6 DEF NoLabel
    <3> QED
      BY <3>7 DEF v
  <2> QED
    BY <2>3, <2>4
<1> QED
  BY <1>1, <1>3, <1>4

LEMMA BottleneckIs ==
    ASSUME NEW g, IsNetwork(g), NEW fl, WithinBounds(g, fl), NEW n, NEW path, PathIn(g, path, n)
    PROVE  /\ Bottleneck(g, fl, path) \in Nat
           /\ \A i \in 1 .. n : Bottleneck(g, fl, path) <= Residual(g, fl, path[i])
           /\ \E i \in 1 .. n : Bottleneck(g, fl, path) = Residual(g, fl, path[i])
<1> DEFINE value == [i \in 1 .. n |-> Residual(g, fl, path[i])]
           S == {value[i] : i \in 1 .. n}
<1>1. n \in Nat \ {0} /\ path \in [1 .. n -> Arcs(g)] /\ DOMAIN path = 1 .. n
  BY DEF PathIn, Listed
<1>2. \A i \in 1 .. n : value[i] \in Nat
  BY <1>1, ResidualIsInt
<1>3. Bottleneck(g, fl, path) = Finite!Min(S)
  <2>1. {Residual(g, fl, path[i]) : i \in DOMAIN path} = S
    BY <1>1
  <2> HIDE DEF S
  <2> QED
    BY <2>1 DEF Bottleneck
<1>4. IsFiniteSet(S)
  <2>1. IsFiniteSet(1 .. n)
    BY <1>1, FS_Interval
  <2> HIDE DEF value
  <2> QED
    BY <2>1, FiniteImage
<1>5. S # {} /\ S \subseteq Int
  <2>1. 1 \in 1 .. n
    BY <1>1
  <2> HIDE DEF value
  <2> QED
    BY <1>2, <2>1
<1>6. Finite!Min(S) \in S /\ \A y \in S : Finite!Min(S) <= y
  <2> HIDE DEF S
  <2> QED
    BY <1>4, <1>5, MinIsLeast
<1> HIDE DEF value
<1>7. \E i \in 1 .. n : Finite!Min(S) = value[i]
  BY <1>6
<1>8. \A i \in 1 .. n : Finite!Min(S) <= value[i]
  BY <1>6
<1> HIDE DEF S
<1>9. \A i \in 1 .. n : value[i] = Residual(g, fl, path[i])
  BY DEF value
<1> QED
  BY <1>2, <1>3, <1>7, <1>8, <1>9

LEMMA AugmentKeepsFlow ==
    ASSUME NEW g, IsNetwork(g), NEW fl, Feasible(g, fl), NEW n, NEW path, PathIn(g, path, n),
           ArcFrom(g, path[1]) = g.source, ArcTo(g, path[n]) = g.sink
    PROVE  Feasible(g, Augment(g, fl, path, Bottleneck(g, fl, path)))
<1> DEFINE amount == Bottleneck(g, fl, path)
<1>1. WithinBounds(g, fl) /\ amount \in Nat /\ \A i \in 1 .. n : amount <= Residual(g, fl, path[i])
  BY BottleneckIs DEF Feasible
<1> HIDE DEF amount
<1>2. /\ WithinBounds(g, Augment(g, fl, path, amount))
      /\ \A v : /\ Divergence(g, fl, v) \in Int
                /\ Divergence(g, Augment(g, fl, path, amount), v) = Divergence(g, fl, v)
                       + (IF v = ArcFrom(g, path[1]) THEN amount ELSE 0)
                       - (IF v = ArcTo(g, path[n]) THEN amount ELSE 0)
  BY <1>1, AugmentAlong
<1>3. ASSUME NEW v \in Inner(g) PROVE Divergence(g, Augment(g, fl, path, amount), v) = 0
  <2>1. v # g.source /\ v # g.sink /\ Divergence(g, fl, v) = 0
    BY DEF Inner, Terminals, Feasible
  <2>2. Divergence(g, Augment(g, fl, path, amount), v) = Divergence(g, fl, v) + 0 - 0
    BY <1>2, <2>1
  <2> QED
    BY <2>1, <2>2
<1> QED
  BY <1>2, <1>3 DEF Feasible, amount

(***************************************************************************)
(* Paths in work. Each arc of one is live, leads up by one rank, and is the*)
(* current arc of the node it leaves: a rank is a level for Dinic, and what*)
(* a label lacks for the others. So no node comes twice.                   *)
(***************************************************************************)
WorkPath(g, fl, path, start, rank, cursor) ==
    /\ path \in Seq(Arcs(g))
    /\ \A i \in 1 .. Len(path) :
           /\ Residual(g, fl, path[i]) > 0
           /\ rank[ArcTo(g, path[i])] = rank[ArcFrom(g, path[i])] + 1
           /\ cursor[ArcFrom(g, path[i])] + 1 \in 1 .. Len(g.outgoing[ArcFrom(g, path[i])])
           /\ g.outgoing[ArcFrom(g, path[i])][cursor[ArcFrom(g, path[i])] + 1] = path[i]
    /\ \A i \in 1 .. (Len(path) - 1) : ArcTo(g, path[i]) = ArcFrom(g, path[i + 1])
    /\ path # <<>> => ArcFrom(g, path[1]) = start

EndOf(g, path, start) == IF path = <<>> THEN start ELSE ArcTo(g, LastOf(path))

Rising(g, path, start, rank) ==
    /\ Len(path) \in Nat /\ (path # <<>> <=> Len(path) > 0)
    /\ \A i \in 1 .. Len(path) :
           /\ path[i] \in Arcs(g)
           /\ ArcFrom(g, path[i]) \in g.nodes /\ ArcTo(g, path[i]) \in g.nodes
           /\ rank[ArcFrom(g, path[i])] = rank[start] + i - 1
           /\ rank[ArcTo(g, path[i])] = rank[start] + i
    /\ EndOf(g, path, start) \in g.nodes
    /\ rank[EndOf(g, path, start)] = rank[start] + Len(path)
    /\ path # <<>> => PathIn(g, path, Len(path)) /\ EndOf(g, path, start) = ArcTo(g, path[Len(path)])

LEMMA RanksRise ==
    ASSUME NEW g, IsNetwork(g), NEW fl, WithinBounds(g, fl), NEW path, NEW start \in g.nodes,
           NEW rank \in [g.nodes -> Int], NEW cursor, WorkPath(g, fl, path, start, rank, cursor)
    PROVE  Rising(g, path, start, rank)
<1> DEFINE n == Len(path)
           up(i) == rank[ArcFrom(g, path[i])] = rank[start] + i - 1
<1>1. path \in Seq(Arcs(g))
  BY DEF WorkPath
<1>2. n \in Nat /\ (path # <<>> <=> n > 0) /\ path \in [1 .. n -> Arcs(g)]
  BY <1>1, LenProperties, EmptySeq
<1>3. \A i \in 1 .. n : /\ path[i] \in Arcs(g)
                        /\ ArcFrom(g, path[i]) \in g.nodes /\ ArcTo(g, path[i]) \in g.nodes
                        /\ rank[ArcFrom(g, path[i])] \in Int /\ rank[ArcTo(g, path[i])] \in Int
                        /\ rank[ArcTo(g, path[i])] = rank[ArcFrom(g, path[i])] + 1
  <2> TAKE i \in 1 .. n
  <2>1. path[i] \in Arcs(g)
    BY <1>2
  <2>2. ArcFrom(g, path[i]) \in g.nodes /\ ArcTo(g, path[i]) \in g.nodes
    BY <2>1, ResidualIsInt
  <2>3. rank[ArcTo(g, path[i])] = rank[ArcFrom(g, path[i])] + 1
    BY DEF WorkPath
  <2> QED
    BY <2>1, <2>2, <2>3
<1>4. /\ \A i \in 1 .. (n - 1) : ArcTo(g, path[i]) = ArcFrom(g, path[i + 1])
      /\ n > 0 => ArcFrom(g, path[1]) = start
  BY <1>2 DEF WorkPath
<1>5. rank[start] \in Int
  OBVIOUS
<1> HIDE DEF n
<1>6. \A i \in 1 .. n : rank[ArcFrom(g, path[i])] = rank[start] + i - 1
  <2> DEFINE good == {i \in 0 .. n : i = 0 \/ rank[ArcFrom(g, path[i])] = rank[start] + i - 1}
  <2>1. 0 \in good
    BY <1>2
  <2>2. \A i \in 0 .. n : i > 0 /\ i - 1 \in good => i \in good
    <3> SUFFICES ASSUME NEW i \in 0 .. n, i > 0, i - 1 \in good PROVE i \in good
      OBVIOUS
    <3>1. CASE i = 1
      BY <1>2, <1>4, <1>5, <3>1
    <3>2. CASE i # 1
      <4>1. i - 1 \in 1 .. (n - 1) /\ i - 1 \in 1 .. n /\ (i - 1) + 1 = i /\ i - 1 # 0 /\ i \in Int
        BY <1>2, <3>2
      <4>2. rank[ArcFrom(g, path[i - 1])] = rank[start] + (i - 1) - 1
        BY <4>1
      <4>3. /\ ArcTo(g, path[i - 1]) = ArcFrom(g, path[i])
            /\ rank[ArcTo(g, path[i - 1])] = rank[ArcFrom(g, path[i - 1])] + 1
        BY <1>3, <1>4, <4>1
      <4>4. rank[ArcFrom(g, path[i])] = rank[start] + i - 1
        BY <1>5, <4>1, <4>2, <4>3
      <4> QED
        BY <4>4
    <3> QED
      BY <3>1, <3>2
  <2>3. 0 .. n \subseteq good
    <3> HIDE DEF good
    <3> QED
      BY <1>2, <2>1, <2>2, UpToInduction
  <2> QED
    BY <1>2, <2>3
<1>7. \A i \in 1 .. n : rank[ArcTo(g, path[i])] = rank[start] + i
  BY <1>3, <1>5, <1>6
<1>8. CASE n = 0
  BY <1>2, <1>3, <1>5, <1>6, <1>7, <1>8 DEF EndOf, n, Rising
<1>9. CASE n # 0
  <2>1. n \in 1 .. n /\ path # <<>>
    BY <1>2, <1>9
  <2>2. EndOf(g, path, start) = ArcTo(g, path[n])
    BY <2>1 DEF EndOf, LastOf, n
  <2>3. \A i, j \in 1 .. n : path[i] = path[j] => i = j
    <3> SUFFICES ASSUME NEW i \in 1 .. n, NEW j \in 1 .. n, path[i] = path[j] PROVE i = j
      OBVIOUS
    <3>1. rank[start] + i - 1 = rank[start] + j - 1
      BY <1>6
    <3> QED
      BY <1>5, <3>1
  <2>4. PathIn(g, path, n)
    BY <1>2, <1>4, <1>9, <2>3 DEF PathIn, Listed
  <2> QED
    BY <1>2, <1>3, <1>6, <1>7, <2>1, <2>2, <2>4 DEF n, Rising
<1> QED
  BY <1>8, <1>9

\* One arc more, the next admissible one of the path's end.
LEMMA PathGrows ==
    ASSUME NEW g, IsNetwork(g), NEW fl, WithinBounds(g, fl), NEW path, NEW start \in g.nodes,
           NEW rank \in [g.nodes -> Int], NEW cursor \in [g.nodes -> Nat],
           WorkPath(g, fl, path, start, rank, cursor),
           NEW v, v = EndOf(g, path, start), NEW p \in 1 .. Len(g.outgoing[v]),
           NEW a, a = g.outgoing[v][p], Residual(g, fl, a) > 0, rank[ArcTo(g, a)] = rank[v] + 1
    PROVE  WorkPath(g, fl, Append(path, a), start, rank, [cursor EXCEPT ![v] = p - 1])
<1> DEFINE n == Len(path)
           new == Append(path, a)
           next == [cursor EXCEPT ![v] = p - 1]
<1>1. /\ n \in Nat /\ (path # <<>> <=> n > 0)
      /\ \A i \in 1 .. n :
             /\ path[i] \in Arcs(g)
             /\ ArcFrom(g, path[i]) \in g.nodes
             /\ rank[ArcFrom(g, path[i])] = rank[start] + i - 1
      /\ v \in g.nodes
      /\ rank[v] = rank[start] + n
      /\ path # <<>> => v = ArcTo(g, path[n])
  BY RanksRise DEF Rising
<1>2. a \in Arcs(g) /\ ArcFrom(g, a) = v
  BY <1>1, ListedArc
<1>3. path \in Seq(Arcs(g)) /\ rank[start] \in Int /\ p \in Int
  BY DEF WorkPath
<1>4. /\ new \in Seq(Arcs(g)) /\ Len(new) = n + 1 /\ new # <<>>
      /\ \A i \in 1 .. n : new[i] = path[i]
      /\ new[n + 1] = a
  <2> DEFINE S == Arcs(g)
  <2>1. path \in Seq(S) /\ a \in S
    BY <1>2, <1>3
  <2> HIDE DEF S
  <2>2. /\ Append(path, a) \in Seq(S) /\ Len(Append(path, a)) = Len(path) + 1
        /\ Append(path, a) # <<>>
        /\ \A i \in 1 .. Len(path) : Append(path, a)[i] = path[i]
        /\ Append(path, a)[Len(path) + 1] = a
    BY <2>1, AppendProperties
  <2> QED
    BY <2>2 DEF S
<1>5. \A i \in 1 .. n : ArcFrom(g, path[i]) # v
  BY <1>1, <1>3
<1>6. next[v] = p - 1 /\ \A u \in g.nodes : u # v => next[u] = cursor[u]
  BY <1>1
<1> HIDE DEF new, next
<1>7. \A i \in 1 .. n :
          /\ Residual(g, fl, path[i]) > 0
          /\ rank[ArcTo(g, path[i])] = rank[ArcFrom(g, path[i])] + 1
          /\ cursor[ArcFrom(g, path[i])] + 1 \in 1 .. Len(g.outgoing[ArcFrom(g, path[i])])
          /\ g.outgoing[ArcFrom(g, path[i])][cursor[ArcFrom(g, path[i])] + 1] = path[i]
  BY DEF WorkPath
<1>8. \A i \in 1 .. n : next[ArcFrom(g, path[i])] = cursor[ArcFrom(g, path[i])]
  BY <1>1, <1>5, <1>6
<1>9. ASSUME NEW i \in 1 .. Len(new)
      PROVE  /\ Residual(g, fl, new[i]) > 0
             /\ rank[ArcTo(g, new[i])] = rank[ArcFrom(g, new[i])] + 1
             /\ next[ArcFrom(g, new[i])] + 1 \in 1 .. Len(g.outgoing[ArcFrom(g, new[i])])
             /\ g.outgoing[ArcFrom(g, new[i])][next[ArcFrom(g, new[i])] + 1] = new[i]
  <2>1. CASE i \in 1 .. n
    BY <1>4, <1>7, <1>8, <2>1
  <2>2. CASE i = n + 1
    <3>1. new[i] = a /\ next[v] + 1 = p
      BY <1>3, <1>4, <1>6, <2>2
    <3> QED
      BY <1>2, <3>1
  <2>3. i \in 1 .. n \/ i = n + 1
    BY <1>1, <1>4
  <2> QED
    BY <2>1, <2>2, <2>3
<1>10. \A i \in 1 .. (Len(new) - 1) : ArcTo(g, new[i]) = ArcFrom(g, new[i + 1])
  <2> TAKE i \in 1 .. (Len(new) - 1)
  <2>1. i \in 1 .. n
    BY <1>1, <1>4
  <2>2. CASE i = n
    BY <1>1, <1>2, <1>4, <2>1, <2>2
  <2>3. CASE i # n
    <3>1. i \in 1 .. (n - 1) /\ i + 1 \in 1 .. n
      BY <1>1, <2>1, <2>3
    <3>2. ArcTo(g, path[i]) = ArcFrom(g, path[i + 1])
      BY <3>1 DEF WorkPath
    <3> QED
      BY <1>4, <2>1, <3>1, <3>2
  <2> QED
    BY <2>2, <2>3
<1>11. ArcFrom(g, new[1]) = start
  <2>1. CASE n = 0
    BY <1>1, <1>2, <1>4, <2>1 DEF EndOf
  <2>2. CASE n # 0
    <3>1. 1 \in 1 .. n /\ ArcFrom(g, path[1]) = start
      BY <1>1, <2>2 DEF WorkPath
    <3> QED
      BY <1>4, <3>1
  <2> QED
    BY <2>1, <2>2
<1> QED
  BY <1>4, <1>9, <1>10, <1>11 DEF WorkPath, new, next

\* What a path's first arcs are after a step that leaves them and their nodes alone.
LEMMA PathKept ==
    ASSUME NEW g, IsNetwork(g), NEW fl, NEW path, NEW start, NEW rank, NEW cursor,
           WorkPath(g, fl, path, start, rank, cursor), NEW m \in 0 .. Len(path),
           NEW fl2, NEW rank2, NEW cursor2,
           \A i \in 1 .. m : /\ Residual(g, fl2, path[i]) > 0
                             /\ rank2[ArcFrom(g, path[i])] = rank[ArcFrom(g, path[i])]
                             /\ rank2[ArcTo(g, path[i])] = rank[ArcTo(g, path[i])]
                             /\ cursor2[ArcFrom(g, path[i])] = cursor[ArcFrom(g, path[i])]
    PROVE  WorkPath(g, fl2, SubSeq(path, 1, m), start, rank2, cursor2)
<1> DEFINE n == Len(path)
           new == SubSeq(path, 1, m)
<1>1. path \in Seq(Arcs(g)) /\ n \in Nat /\ \A i \in 1 .. n : path[i] \in Arcs(g)
  <2>1. path \in Seq(Arcs(g))
    BY DEF WorkPath
  <2> QED
    BY <2>1, LenProperties
<1>2. m \in Nat /\ \A i \in 1 .. m : i \in 1 .. n
  BY <1>1
<1>3. new \in Seq(Arcs(g)) /\ Len(new) = m /\ \A i \in 1 .. m : new[i] = path[i]
  <2>1. \A i \in 1 .. m : path[i] \in Arcs(g)
    BY <1>1, <1>2
  <2>2. 1 \in Int /\ m \in Int /\ m - 1 + 1 = m /\ (IF 1 <= m THEN m - 1 + 1 ELSE 0) = m
    BY <1>2
  <2> HIDE DEF new
  <2>3. /\ SubSeq(path, 1, m) \in Seq(Arcs(g)) /\ Len(SubSeq(path, 1, m)) = IF 1 <= m THEN m - 1 + 1 ELSE 0
        /\ \A i \in 1 .. m - 1 + 1 : SubSeq(path, 1, m)[i] = path[1 + i - 1]
    BY <2>1, <2>2, SubSeqProperties
  <2>4. \A i \in 1 .. m : 1 + i - 1 = i
    BY <1>2
  <2> QED
    BY <2>2, <2>3, <2>4 DEF new
<1> HIDE DEF new, n
<1>4. \A i \in 1 .. n :
          /\ rank[ArcTo(g, path[i])] = rank[ArcFrom(g, path[i])] + 1
          /\ cursor[ArcFrom(g, path[i])] + 1 \in 1 .. Len(g.outgoing[ArcFrom(g, path[i])])
          /\ g.outgoing[ArcFrom(g, path[i])][cursor[ArcFrom(g, path[i])] + 1] = path[i]
  BY DEF WorkPath, n
<1>5. \A i \in 1 .. (n - 1) : ArcTo(g, path[i]) = ArcFrom(g, path[i + 1])
  BY DEF WorkPath, n
<1>6. \A i \in 1 .. (m - 1) : i \in 1 .. (n - 1) /\ i \in 1 .. m /\ i + 1 \in 1 .. m
  BY <1>1, <1>2
<1>7. \A i \in 1 .. (Len(new) - 1) : ArcTo(g, new[i]) = ArcFrom(g, new[i + 1])
  BY <1>3, <1>5, <1>6
<1>8. new # <<>> => ArcFrom(g, new[1]) = start
  <2> SUFFICES ASSUME new # <<>> PROVE ArcFrom(g, new[1]) = start
    OBVIOUS
  <2>1. m > 0
    BY <1>2, <1>3, EmptySeq
  <2>2. 1 \in 1 .. m /\ n > 0 /\ path # <<>>
    BY <1>1, <1>2, <2>1, EmptySeq DEF n
  <2> QED
    BY <1>3, <2>2 DEF WorkPath
<1>9. \A i \in 1 .. Len(new) :
          /\ Residual(g, fl2, new[i]) > 0
          /\ rank2[ArcTo(g, new[i])] = rank2[ArcFrom(g, new[i])] + 1
          /\ cursor2[ArcFrom(g, new[i])] + 1 \in 1 .. Len(g.outgoing[ArcFrom(g, new[i])])
          /\ g.outgoing[ArcFrom(g, new[i])][cursor2[ArcFrom(g, new[i])] + 1] = new[i]
  BY <1>2, <1>3, <1>4
<1> QED
  BY <1>3, <1>7, <1>8, <1>9 DEF WorkPath, new

Lowered(g, fl, new, path, amount) ==
    \A i \in 1 .. Len(path) : Residual(g, new, path[i]) = Residual(g, fl, path[i]) - amount

\* The amount leaves one node's balance for another's.
Moved(g, fl, new, u, w, amount) ==
    \A v : /\ Divergence(g, fl, v) \in Int
           /\ Divergence(g, new, v) = Divergence(g, fl, v) + (IF v = u THEN amount ELSE 0)
                                                           - (IF v = w THEN amount ELSE 0)

\* What flow along a path in work does: what it fills is the path's own arcs,
\* and what it makes live leads back down by one rank.
LEMMA WorkAugment ==
    ASSUME NEW g, IsNetwork(g), NEW fl, WithinBounds(g, fl), NEW path, NEW start \in g.nodes,
           NEW rank \in [g.nodes -> Int], NEW cursor, WorkPath(g, fl, path, start, rank, cursor),
           path # <<>>, NEW amount \in Nat, \A i \in 1 .. Len(path) : amount <= Residual(g, fl, path[i]),
           NEW new, new = Augment(g, fl, path, amount)
    PROVE  /\ WithinBounds(g, new)
           /\ Moved(g, fl, new, start, EndOf(g, path, start), amount)
           /\ \A b \in Arcs(g) : Residual(g, new, b) > 0 =>
                  \/ Residual(g, fl, b) > 0
                  \/ rank[ArcFrom(g, b)] = rank[ArcTo(g, b)] + 1 /\ rank[start] <= rank[ArcTo(g, b)]
           /\ Lowered(g, fl, new, path, amount)
<1> DEFINE n == Len(path)
<1>1. /\ n \in Nat /\ n > 0 /\ PathIn(g, path, n) /\ EndOf(g, path, start) = ArcTo(g, path[n])
      /\ \A i \in 1 .. n : /\ path[i] \in Arcs(g)
                           /\ ArcFrom(g, path[i]) \in g.nodes /\ ArcTo(g, path[i]) \in g.nodes
                           /\ rank[ArcFrom(g, path[i])] = rank[start] + i - 1
                           /\ rank[ArcTo(g, path[i])] = rank[start] + i
  <2>1. Rising(g, path, start, rank)
    BY RanksRise
  <2> QED
    BY <2>1 DEF Rising
<1>2. ArcFrom(g, path[1]) = start /\ \A i \in 1 .. n : Residual(g, fl, path[i]) > 0
  BY DEF WorkPath
<1>3. rank[start] \in Int
  OBVIOUS
<1>4. Listed(g, path, n) /\ DOMAIN path = 1 .. n
  BY <1>1 DEF PathIn, Listed
<1> HIDE DEF n
<1>5. \A i \in 1 .. n : amount <= Residual(g, fl, path[i])
  BY DEF n
<1>6. /\ WithinBounds(g, new)
      /\ \A v : /\ Divergence(g, fl, v) \in Int
                /\ Divergence(g, new, v) = Divergence(g, fl, v)
                       + (IF v = ArcFrom(g, path[1]) THEN amount ELSE 0)
                       - (IF v = ArcTo(g, path[n]) THEN amount ELSE 0)
  BY <1>1, <1>5, AugmentAlong
<1>7. \A b \in Arcs(g) :
          /\ Residual(g, fl, b) \in Nat
          /\ Residual(g, new, b) = Residual(g, fl, b)
                 - Carries(path, b, amount) + Carries(path, Opposite(b), amount)
          /\ Opposite(b) \in Arcs(g) /\ Opposite(Opposite(b)) = b
          /\ ArcFrom(g, Opposite(b)) = ArcTo(g, b) /\ ArcTo(g, Opposite(b)) = ArcFrom(g, b)
  BY <1>4, AugmentedResidual, ArcParts
<1>8. \A b : b \in ArcsOf(path) <=> \E i \in 1 .. n : path[i] = b
  BY <1>4 DEF ArcsOf
<1>9. \A b \in ArcsOf(path) : /\ rank[ArcTo(g, b)] = rank[ArcFrom(g, b)] + 1
                               /\ rank[ArcFrom(g, b)] \in Int /\ rank[start] <= rank[ArcFrom(g, b)]
  <2> TAKE b \in ArcsOf(path)
  <2>1. PICK i \in 1 .. n : path[i] = b
    BY <1>8
  <2>2. rank[ArcFrom(g, b)] = rank[start] + i - 1 /\ rank[ArcTo(g, b)] = rank[start] + i /\ i \in Int /\ i >= 1
    BY <1>1, <2>1
  <2> QED
    BY <1>3, <2>2
<1>10. ASSUME NEW b \in Arcs(g), Residual(g, new, b) > 0
       PROVE  \/ Residual(g, fl, b) > 0
              \/ rank[ArcFrom(g, b)] = rank[ArcTo(g, b)] + 1 /\ rank[start] <= rank[ArcTo(g, b)]
  <2>1. CASE Opposite(b) \in ArcsOf(path)
    BY <1>7, <1>9, <2>1
  <2>2. CASE Opposite(b) \notin ArcsOf(path)
    <3>1. Carries(path, Opposite(b), amount) = 0 /\ Carries(path, b, amount) \in Nat
      BY <2>2 DEF Carries
    <3> QED
      BY <1>7, <1>10, <3>1
  <2> QED
    BY <2>1, <2>2
<1>11. ASSUME NEW i \in 1 .. n PROVE Residual(g, new, path[i]) = Residual(g, fl, path[i]) - amount
  <2>1. path[i] \in Arcs(g) /\ path[i] \in ArcsOf(path)
    BY <1>1, <1>8
  <2>2. Opposite(path[i]) \notin ArcsOf(path)
    BY <1>7, <1>9, <2>1
  <2>3. Carries(path, path[i], amount) = amount /\ Carries(path, Opposite(path[i]), amount) = 0
    BY <2>1, <2>2 DEF Carries
  <2> QED
    BY <1>7, <2>1, <2>3
<1>12. Moved(g, fl, new, start, EndOf(g, path, start), amount)
  BY <1>1, <1>2, <1>6 DEF Moved
<1> QED
  BY <1>6, <1>10, <1>11, <1>12 DEF n, Lowered

\* A node between the terminals keeps its balance where the path joins them.
LEMMA WorkKeepsFlow ==
    ASSUME NEW g, IsNetwork(g), NEW fl, Feasible(g, fl), NEW path,
           NEW rank \in [g.nodes -> Int], NEW cursor, WorkPath(g, fl, path, g.source, rank, cursor),
           EndOf(g, path, g.source) = g.sink
    PROVE  /\ path # <<>> /\ Bottleneck(g, fl, path) \in Nat
           /\ \A i \in 1 .. Len(path) : Bottleneck(g, fl, path) <= Residual(g, fl, path[i])
           /\ \E i \in 1 .. Len(path) : Bottleneck(g, fl, path) = Residual(g, fl, path[i])
           /\ Feasible(g, Augment(g, fl, path, Bottleneck(g, fl, path)))
<1>1. WithinBounds(g, fl) /\ g.source \in g.nodes /\ g.source # g.sink
  BY DEF Feasible, IsNetwork
<1>2. path # <<>>
  BY <1>1 DEF EndOf
<1>3. PathIn(g, path, Len(path)) /\ EndOf(g, path, g.source) = ArcTo(g, path[Len(path)])
  <2>1. g.source \in g.nodes /\ Rising(g, path, g.source, rank)
    BY <1>1, RanksRise
  <2> QED
    BY <1>2, <2>1 DEF Rising
<1>4. ArcFrom(g, path[1]) = g.source
  BY <1>2 DEF WorkPath
<1> QED
  BY <1>1, <1>2, <1>3, <1>4, BottleneckIs, AugmentKeepsFlow

(***************************************************************************)
(* Searches that resume: a path in work grows by its end's next arc.       *)
(***************************************************************************)
RankIn(g, al, label) == [v \in g.nodes |-> IF al = "dinic" THEN label[v] ELSE -label[v]]

InWork(g, fl, al, s) == WorkPath(g, fl, s.path, s.node, RankIn(g, al, s.label), s.cursor)

\* What a label must be for an arc to be taken.
LeadsOn(g, fl, al, label, a) ==
    /\ Residual(g, fl, a) > 0
    /\ IF al = "dinic" THEN label[ArcTo(g, a)] = label[ArcFrom(g, a)] + 1
       ELSE label[ArcFrom(g, a)] = label[ArcTo(g, a)] + 1

LEMMA PlaceIsBetween ==
    ASSUME IsNetwork(net), NEW v \in net.nodes, k.cursor[v] \in 0 .. Len(net.outgoing[v]),
           alg # "generic"
    PROVE  /\ Place(v) \in (k.cursor[v] + 1) .. (Len(net.outgoing[v]) + 1)
           /\ \A j \in (k.cursor[v] + 1) .. (Place(v) - 1) :
                  ~LeadsOn(net, flow, alg, k.label, net.outgoing[v][j])
           /\ HasArc(v) => /\ Place(v) \in 1 .. Len(net.outgoing[v])
                           /\ LeadsOn(net, flow, alg, k.label, net.outgoing[v][Place(v)])
           /\ ~HasArc(v) => Place(v) = Len(net.outgoing[v]) + 1
<1> DEFINE s == net.outgoing[v]
           n == Len(s)
           c == k.cursor[v]
           Good(a) == LeadsOn(net, flow, alg, k.label, a)
           I == {i \in (c + 1) .. n : Admissible(v, s[i])}
           found == Earliest(I)
<1>1. s \in Seq(Arcs(net)) /\ n \in Nat /\ c \in 0 .. n
  <2>1. s \in Seq(Arcs(net))
    BY DEF IsNetwork
  <2> QED
    BY <2>1, LenProperties
<1>2. \A i \in 1 .. n : s[i] \in Arcs(net) /\ ArcFrom(net, s[i]) = v
  BY ListedArc
<1>3. \A i \in 1 .. n : Admissible(v, s[i]) <=> Good(s[i])
  BY <1>2 DEF Admissible, LeadsOn, R, To
<1>4. Place(v) = IF found = 0 THEN n + 1 ELSE found
  <2>1. Start(v) = c
    BY DEF Start
  <2>2. Seqs!SelectInSubSeq(s, c + 1, n, LAMBDA a : Admissible(v, a)) = found
    BY DEF Seqs!SelectInSubSeq, Earliest
  <2> QED
    BY <2>1, <2>2 DEF Place
<1>5. I \in SUBSET (1 .. n) /\ \A i \in I : i \in (c + 1) .. n
  BY <1>1
<1>6. /\ found = 0 <=> I = {}
      /\ I # {} => found \in I /\ \A i \in I : found <= i
  <2> HIDE DEF I, n, found
  <2> QED
    BY <1>1, <1>5, EarliestIs DEF found
<1>7. \A i \in (c + 1) .. n : (i \in I <=> Good(s[i])) /\ i \in 1 .. n
  BY <1>1, <1>3
<1>8. HasArc(v) <=> Place(v) <= n
  BY DEF HasArc
<1> HIDE DEF I, found, s, n, c, Good
<1>9. CASE I = {}
  <2>1. Place(v) = n + 1 /\ ~HasArc(v)
    BY <1>1, <1>4, <1>6, <1>8, <1>9
  <2>2. \A j \in (c + 1) .. (Place(v) - 1) : ~Good(s[j])
    <3>1. \A j \in (c + 1) .. (Place(v) - 1) : j \in (c + 1) .. n
      BY <1>1, <2>1
    <3> QED
      BY <1>7, <1>9, <3>1
  <2>3. Place(v) \in (c + 1) .. (n + 1)
    BY <1>1, <2>1
  <2> QED
    BY <2>1, <2>2, <2>3 DEF s, n, c, Good
<1>10. CASE I # {}
  <2>1. Place(v) = found /\ found \in I /\ found \in (c + 1) .. n
    BY <1>4, <1>5, <1>6, <1>10
  <2>2. HasArc(v) /\ Place(v) \in 1 .. n /\ Place(v) \in (c + 1) .. (n + 1)
    BY <1>1, <1>8, <2>1
  <2>3. Good(s[Place(v)])
    BY <1>7, <2>1
  <2>4. \A j \in (c + 1) .. (Place(v) - 1) : ~Good(s[j])
    <3> TAKE j \in (c + 1) .. (Place(v) - 1)
    <3>1. j \in (c + 1) .. n /\ ~(found <= j)
      BY <1>1, <2>1
    <3> QED
      BY <1>6, <1>7, <1>10, <3>1
  <2> QED
    BY <2>2, <2>3, <2>4 DEF s, n, c, Good
<1> QED
  BY <1>9, <1>10

LEMMA EndIs ==
    ASSUME IsNetwork(net), WithinBounds(net, flow), k.node \in net.nodes,
           k.label \in [net.nodes -> Int], InWork(net, flow, alg, k)
    PROVE  /\ End \in net.nodes /\ End = EndOf(net, k.path, k.node)
           /\ RankIn(net, alg, k.label) \in [net.nodes -> Int]
           /\ Rising(net, k.path, k.node, RankIn(net, alg, k.label))
<1>1. RankIn(net, alg, k.label) \in [net.nodes -> Int]
  BY DEF RankIn
<1>2. End = EndOf(net, k.path, k.node)
  BY DEF End, EndOf, To
<1>3. Rising(net, k.path, k.node, RankIn(net, alg, k.label))
  <2> DEFINE rank == RankIn(net, alg, k.label)
             path == k.path
             start == k.node
             cursor == k.cursor
  <2>1. rank \in [net.nodes -> Int] /\ start \in net.nodes /\ WorkPath(net, flow, path, start, rank, cursor)
    BY <1>1 DEF InWork
  <2> HIDE DEF rank, path, start, cursor
  <2>2. Rising(net, path, start, rank)
    BY <2>1, RanksRise
  <2> QED
    BY <2>2 DEF rank, path, start
<1> QED
  BY <1>1, <1>2, <1>3 DEF Rising

LEMMA LongerInWork ==
    ASSUME IsNetwork(net), WithinBounds(net, flow), KernelFields \subseteq DOMAIN k, k.node \in net.nodes,
           k.label \in [net.nodes -> Int], k.cursor \in [net.nodes -> Nat],
           InWork(net, flow, alg, k), alg # "generic",
           k.cursor[End] <= Len(net.outgoing[End]), HasArc(End)
    PROVE  /\ KernelFields \subseteq DOMAIN Longer
           /\ Longer.label = k.label /\ Longer.node = k.node /\ Longer.counts = k.counts
           /\ Longer.excess = k.excess /\ Longer.queue = k.queue
           /\ Longer.cursor = [k.cursor EXCEPT ![End] = Place(End) - 1]
           /\ InWork(net, flow, alg, Longer)
<1> DEFINE rank == RankIn(net, alg, k.label)
           path == k.path
           start == k.node
           cursor == k.cursor
           p == Place(End)
           v == End
           a == net.outgoing[v][p]
<1>1. /\ End \in net.nodes /\ End = EndOf(net, k.path, k.node)
      /\ RankIn(net, alg, k.label) \in [net.nodes -> Int]
  BY EndIs
<1>2. /\ KernelFields \subseteq DOMAIN Longer
      /\ Longer.label = k.label /\ Longer.node = k.node /\ Longer.counts = k.counts
      /\ Longer.excess = k.excess /\ Longer.queue = k.queue
      /\ Longer.cursor = [k.cursor EXCEPT ![End] = Place(End) - 1]
      /\ Longer.path = Append(k.path, net.outgoing[End][Place(End)])
  BY DEF Longer, KernelFields
<1>3. k.cursor[End] \in 0 .. Len(net.outgoing[End])
  <2>1. Len(net.outgoing[End]) \in Nat
    BY <1>1, LenProperties DEF IsNetwork
  <2> QED
    BY <1>1, <2>1
<1>4. p \in 1 .. Len(net.outgoing[v]) /\ LeadsOn(net, flow, alg, k.label, a)
  BY <1>1, <1>3, PlaceIsBetween
<1>5. a \in Arcs(net) /\ ArcFrom(net, a) = v
  BY <1>1, <1>4, ListedArc
<1>6. ArcTo(net, a) \in net.nodes
  BY <1>5, ResidualIsInt
<1>7. Residual(net, flow, a) > 0 /\ rank[ArcTo(net, a)] = rank[v] + 1
  <2>1. \A u \in net.nodes : rank[u] = IF alg = "dinic" THEN k.label[u] ELSE -k.label[u]
    BY DEF RankIn
  <2>2. k.label[ArcTo(net, a)] \in Int /\ k.label[v] \in Int
    BY <1>1, <1>6
  <2> HIDE DEF rank
  <2> QED
    BY <1>1, <1>4, <1>5, <1>6, <2>1, <2>2 DEF LeadsOn
<1>8. WorkPath(net, flow, path, start, rank, cursor) /\ start \in net.nodes /\ cursor \in [net.nodes -> Nat]
      /\ rank \in [net.nodes -> Int] /\ v = EndOf(net, path, start)
  BY <1>1 DEF InWork
<1> HIDE DEF rank, path, start, cursor, p, v
<1>9. WorkPath(net, flow, Append(path, a), start, rank, [cursor EXCEPT ![v] = p - 1])
  <2> HIDE DEF a
  <2> QED
    BY <1>4, <1>7, <1>8, PathGrows DEF a
<1>10. InWork(net, flow, alg, Longer)
  BY <1>2, <1>9 DEF InWork, rank, path, start, cursor, p, v
<1> QED
  BY <1>2, <1>10

\* A retreat leaves the path's last arc: what comes before it is as it was.
Retreated(s) ==
    /\ s.node = k.node /\ s.path = Seqs!Front(k.path)
    /\ \A u \in net.nodes \ {End} : s.label[u] = k.label[u]
    /\ \A u \in net.nodes \ {End, ArcFrom(net, LastOf(k.path))} : s.cursor[u] = k.cursor[u]

LEMMA ShorterInWork ==
    ASSUME IsNetwork(net), WithinBounds(net, flow), k.node \in net.nodes,
           k.label \in [net.nodes -> Int], InWork(net, flow, alg, k), k.path # <<>>,
           NEW w, w = ArcFrom(net, LastOf(k.path))
    PROVE  /\ \A s : Retreated(s) => InWork(net, flow, alg, s)
           /\ w \in net.nodes /\ w # End /\ End \in net.nodes
           /\ k.cursor[w] + 1 \in 1 .. Len(net.outgoing[w])
           /\ net.outgoing[w][k.cursor[w] + 1] = LastOf(k.path)
           /\ ArcTo(net, LastOf(k.path)) = End
<1> DEFINE rank == RankIn(net, alg, k.label)
           path == k.path
           start == k.node
           cursor == k.cursor
           n == Len(path)
<1>1. /\ End \in net.nodes /\ End = EndOf(net, k.path, k.node)
      /\ rank \in [net.nodes -> Int] /\ Rising(net, path, start, rank)
  BY EndIs
<1>2. WorkPath(net, flow, path, start, rank, cursor) /\ path # <<>>
  BY DEF InWork
<1>3. \A u \in net.nodes : rank[u] = IF alg = "dinic" THEN k.label[u] ELSE -k.label[u]
  BY DEF RankIn
<1>4. LastOf(k.path) = path[n]
  BY DEF LastOf
<1>5. Seqs!Front(k.path) = SubSeq(path, 1, n - 1)
  BY DEF Seqs!Front
<1> HIDE DEF rank, path, start, cursor, n
<1>6. /\ n \in Nat /\ n > 0
      /\ \A i \in 1 .. n :
             /\ path[i] \in Arcs(net)
             /\ ArcFrom(net, path[i]) \in net.nodes /\ ArcTo(net, path[i]) \in net.nodes
             /\ rank[ArcFrom(net, path[i])] = rank[start] + i - 1
             /\ rank[ArcTo(net, path[i])] = rank[start] + i
      /\ EndOf(net, path, start) = ArcTo(net, path[n])
  BY <1>1, <1>2 DEF Rising, n
<1>7. End = ArcTo(net, path[n])
  BY <1>1, <1>6 DEF path, start
<1>8. rank[start] \in Int /\ n \in 1 .. n /\ n - 1 \in 0 .. n
  <2>1. start \in net.nodes
    BY DEF start
  <2> QED
    BY <1>1, <1>6, <2>1
<1>9. w = ArcFrom(net, path[n])
  BY <1>4
<1>10. /\ w \in net.nodes /\ rank[w] = rank[start] + n - 1 /\ rank[End] = rank[start] + n
       /\ w # End
  BY <1>6, <1>7, <1>8, <1>9
<1>11. cursor[w] + 1 \in 1 .. Len(net.outgoing[w]) /\ net.outgoing[w][cursor[w] + 1] = path[n]
  BY <1>2, <1>8, <1>9 DEF WorkPath, n
<1>12. ASSUME NEW s, Retreated(s) PROVE InWork(net, flow, alg, s)
  <2> DEFINE rank2 == RankIn(net, alg, s.label)
             cursor2 == s.cursor
  <2>1. /\ s.node = start /\ s.path = SubSeq(path, 1, n - 1)
        /\ \A u \in net.nodes \ {End} : s.label[u] = k.label[u]
        /\ \A u \in net.nodes \ {End, w} : cursor2[u] = cursor[u]
    BY <1>5, <1>12 DEF Retreated, start, cursor
  <2>2. \A u \in net.nodes : rank2[u] = IF alg = "dinic" THEN s.label[u] ELSE -s.label[u]
    BY DEF RankIn
  <2> HIDE DEF rank2, cursor2
  <2>3. \A u \in net.nodes \ {End} : rank2[u] = rank[u]
    BY <1>3, <2>1, <2>2
  <2>4. ASSUME NEW i \in 1 .. (n - 1)
        PROVE  /\ Residual(net, flow, path[i]) > 0
               /\ rank2[ArcFrom(net, path[i])] = rank[ArcFrom(net, path[i])]
               /\ rank2[ArcTo(net, path[i])] = rank[ArcTo(net, path[i])]
               /\ cursor2[ArcFrom(net, path[i])] = cursor[ArcFrom(net, path[i])]
    <3>1. i \in 1 .. n /\ i \in Int /\ i < n
      BY <1>6
    <3>2. /\ ArcFrom(net, path[i]) \in net.nodes /\ ArcTo(net, path[i]) \in net.nodes
          /\ rank[ArcFrom(net, path[i])] = rank[start] + i - 1
          /\ rank[ArcTo(net, path[i])] = rank[start] + i
      BY <1>6, <3>1
    <3>3. ArcFrom(net, path[i]) # End /\ ArcTo(net, path[i]) # End /\ ArcFrom(net, path[i]) # w
      BY <1>8, <1>10, <1>6, <3>1, <3>2
    <3>4. Residual(net, flow, path[i]) > 0
      BY <1>2, <3>1 DEF WorkPath, n
    <3> QED
      BY <2>1, <2>3, <3>2, <3>3, <3>4
  <2>5. n - 1 \in 0 .. Len(path)
    BY <1>8 DEF n
  <2>6. WorkPath(net, flow, SubSeq(path, 1, n - 1), start, rank2, cursor2)
    BY <1>2, <2>4, <2>5, PathKept
  <2> QED
    BY <2>1, <2>6 DEF InWork, rank2, cursor2
<1> QED
  BY <1>1, <1>4, <1>7, <1>10, <1>11, <1>12 DEF cursor

(***************************************************************************)
(* Searches.                                                               *)
(***************************************************************************)
\* A tree stays one where a step hangs new nodes below it and moves others to
\* nodes that stay where they are.
LEMMA GrowTree ==
    ASSUME NEW roots, NEW V, NEW up, NoClosedSet(V, up, roots), NEW W, V \subseteq W, NEW up2,
           \A u \in V \ roots : up2[u] = up[u] /\ up[u] \in V,
           \A u \in W \ V : u \notin roots => up2[u] \in V
    PROVE  NoClosedSet(W, up2, roots)
<1> SUFFICES ASSUME NEW S \in SUBSET (W \ roots), S # {}
             PROVE  \E u \in S : up2[u] \notin S
  BY DEF NoClosedSet
<1>1. CASE S \cap V = {}
  BY <1>1
<1>2. CASE S \cap V # {}
  <2>1. S \cap V \in SUBSET (V \ roots)
    OBVIOUS
  <2>2. PICK u \in S \cap V : up[u] \notin S \cap V
    BY <2>1, <1>2 DEF NoClosedSet
  <2> QED
    BY <2>2
<1> QED
  BY <1>1, <1>2

\* Nodes listed in the order of the arcs that found them are all listed.
LEMMA ArcOrderLists ==
    ASSUME NEW v, NEW S, IsFiniteSet(S), \A u \in S : FoundAt(v, u) \in Int,
           \A u, w \in S : FoundAt(v, u) = FoundAt(v, w) => u = w
    PROVE  /\ Cardinality(S) \in Nat
           /\ InArcOrder(v, S) \in [1 .. Cardinality(S) -> S]
           /\ \A u \in S : \E i \in 1 .. Cardinality(S) : InArcOrder(v, S)[i] = u
<1> DEFINE n == Cardinality(S)
           Below(u) == {w \in S : FoundAt(v, w) < FoundAt(v, u)}
           rank == [u \in S |-> Cardinality(Below(u)) + 1]
           q == InArcOrder(v, S)
<1>1. n \in Nat
  BY FS_CardinalityType
<1>2. ASSUME NEW u \in S PROVE IsFiniteSet(Below(u)) /\ Cardinality(Below(u)) \in 0 .. (n - 1)
  <2>1. Below(u) \subseteq S \ {u} /\ IsFiniteSet(S \ {u})
    BY FS_RemoveElement
  <2>2. Cardinality(S \ {u}) = n - 1
    BY FS_RemoveElement
  <2> HIDE DEF Below, n
  <2>3. IsFiniteSet(Below(u)) /\ Cardinality(Below(u)) <= Cardinality(S \ {u})
    BY <2>1, FS_Subset
  <2>4. Cardinality(Below(u)) \in Nat /\ Cardinality(S \ {u}) \in Nat
    BY <2>1, <2>3, FS_CardinalityType
  <2> QED
    BY <1>1, <2>2, <2>3, <2>4
<1>3. ASSUME NEW u \in S, NEW w \in S, FoundAt(v, u) < FoundAt(v, w) PROVE Cardinality(Below(u)) < Cardinality(Below(w))
  <2>1. Below(u) \subseteq Below(w) \ {u} /\ u \in Below(w)
    BY <1>3
  <2>2. IsFiniteSet(Below(w)) /\ Cardinality(Below(w)) \in 0 .. (n - 1)
    BY <1>2
  <2> HIDE DEF Below, n
  <2>3. IsFiniteSet(Below(w) \ {u}) /\ Cardinality(Below(w) \ {u}) = Cardinality(Below(w)) - 1
    BY <2>1, <2>2, FS_RemoveElement
  <2>4. Cardinality(Below(u)) <= Cardinality(Below(w) \ {u})
    BY <2>1, <2>3, FS_Subset
  <2>5. Cardinality(Below(u)) \in Nat
    BY <2>1, <2>3, FS_Subset, FS_CardinalityType
  <2> QED
    BY <1>1, <2>2, <2>3, <2>4, <2>5
<1>4. rank \in [S -> 1 .. n]
  <2> HIDE DEF Below, n
  <2> QED
    BY <1>1, <1>2
<1>5. \A u, w \in S : rank[u] = rank[w] => u = w
  <2> SUFFICES ASSUME NEW u \in S, NEW w \in S, rank[u] = rank[w], u # w PROVE FALSE
    OBVIOUS
  <2>1. FoundAt(v, u) < FoundAt(v, w) \/ FoundAt(v, w) < FoundAt(v, u)
    BY <1>4
  <2>2. Cardinality(Below(u)) \in 0 .. (n - 1) /\ Cardinality(Below(w)) \in 0 .. (n - 1)
    BY <1>2
  <2> HIDE DEF Below, n
  <2> QED
    BY <1>1, <1>3, <2>1, <2>2
<1>6. IsFiniteSet(1 .. n) /\ Cardinality(1 .. n) = n
  BY <1>1, FS_Interval
<1> HIDE DEF rank
<1>7. rank \in Injection(S, 1 .. n)
  BY <1>4, <1>5 DEF Injection, IsInjective
<1>8. rank \in Surjection(S, 1 .. n)
  <2> HIDE DEF n
  <2> QED
    BY <1>6, <1>7, FS_Injection DEF n
<1>9. ASSUME NEW i \in 1 .. n PROVE \E u \in S : Cardinality(Below(u)) = i - 1
  <2>1. PICK u \in S : rank[u] = i
    BY <1>8 DEF Surjection
  <2>2. rank[u] = Cardinality(Below(u)) + 1
    BY DEF rank
  <2>3. Cardinality(Below(u)) \in 0 .. (n - 1)
    BY <1>2
  <2> HIDE DEF Below, n
  <2> QED
    BY <1>1, <2>1, <2>2, <2>3
<1>10. \A i \in 1 .. n : q[i] \in S /\ Cardinality(Below(q[i])) = i - 1
  <2> TAKE i \in 1 .. n
  <2>1. q[i] = CHOOSE u \in S : Cardinality(Below(u)) = i - 1
    BY DEF InArcOrder
  <2> HIDE DEF q, Below, n
  <2> QED
    BY <1>9, <2>1
<1>11. q = [i \in 1 .. n |-> q[i]]
  <2> DEFINE e(i) == CHOOSE u \in S : Cardinality({w \in S : FoundAt(v, w) < FoundAt(v, u)}) = i - 1
  <2>1. q = [i \in 1 .. n |-> e(i)]
    BY DEF InArcOrder
  <2> HIDE DEF q, e, n
  <2> QED
    BY <2>1
<1>12. ASSUME NEW u \in S PROVE \E i \in 1 .. n : q[i] = u
  <2> DEFINE i == rank[u]
  <2>1. i \in 1 .. n
    BY <1>4
  <2>2. i - 1 = Cardinality(Below(u)) /\ Cardinality(Below(q[i])) = i - 1 /\ q[i] \in S
    <3>1. Cardinality(Below(u)) \in 0 .. (n - 1) /\ rank[u] = Cardinality(Below(u)) + 1
      BY <1>2 DEF rank
    <3>2. Cardinality(Below(u)) = rank[u] - 1
      <4> HIDE DEF Below, n
      <4> QED
        BY <1>1, <3>1
    <3> HIDE DEF Below, n, q
    <3> QED
      BY <1>10, <2>1, <3>2
  <2>3. rank[q[i]] = rank[u]
    BY <2>2 DEF rank
  <2> HIDE DEF q, i, n
  <2> QED
    BY <1>5, <2>1, <2>2, <2>3
<1> HIDE DEF q, n
<1> QED
  BY <1>1, <1>10, <1>11, <1>12 DEF q, n

\* A function defined by what comes after its last value exists.
Iterated(h, n, D, base, next) ==
    h \in [0 .. n -> D] /\ h[0] = base /\ \A i \in 1 .. n : h[i] = next[h[i - 1]]

LEMMA Iterates ==
    ASSUME NEW n \in Nat, NEW D, NEW base \in D, NEW next \in [D -> D]
    PROVE  \E h : Iterated(h, n, D, base, next)
<1> DEFINE op == [x \in D \X (1 .. n) |-> next[x[1]]]
<1>1. IsStep(op, D, 1 .. n)
  BY DEF IsStep
<1>2. \A d \in D, i \in 1 .. n : op[<<d, i>>] = next[d]
  OBVIOUS
<1> HIDE DEF op
<1>3. PICK c : Follows(c, n, D, base, op)
  BY <1>1, FollowerExists
<1>4. PICK h : IsRun(h, n, D, base, op)
  BY <1>1, <1>3, FollowsIsRun
<1>5. /\ h \in [0 .. n -> D] /\ h[0] = base
      /\ \A i \in 1 .. n : h[i] = op[<<h[i - 1], i>>]
  BY <1>4 DEF IsRun
<1>6. ASSUME NEW i \in 1 .. n PROVE h[i] = next[h[i - 1]]
  <2>1. h[i - 1] \in D
    BY <1>5
  <2> QED
    BY <1>2, <1>5, <2>1
<1> QED
  BY <1>5, <1>6 DEF Iterated

\* Every node reached but the source was reached by a live arc from one reached
\* before it.
Parents(g, pred) == [v \in g.nodes |-> ArcFrom(g, pred[v])]

Tree(g, fl, reached, pred) ==
    /\ reached \in SUBSET g.nodes /\ g.source \in reached
    /\ \A v \in reached \ {g.source} :
           /\ pred[v] \in Arcs(g) /\ Residual(g, fl, pred[v]) > 0
           /\ ArcTo(g, pred[v]) = v /\ ArcFrom(g, pred[v]) \in reached
    /\ NoClosedSet(reached, Parents(g, pred), {g.source})

\* A path from the source to the sink that the augmentation accepts.
SourceSinkPath(g, fl, path, n) ==
    /\ PathIn(g, path, n)
    /\ ArcFrom(g, path[1]) = g.source /\ ArcTo(g, path[n]) = g.sink
    /\ \A i \in 1 .. n : Residual(g, fl, path[i]) > 0

LEMMA TreePath ==
    ASSUME IsNetwork(net), NEW reached, Tree(net, flow, reached, k.pred), net.sink \in reached
    PROVE  \E n : SourceSinkPath(net, flow, PredPath, n)
<1> DEFINE up == Parents(net, k.pred)
           roots == {net.source}
           Up(v) == IF v = net.source THEN v ELSE ArcFrom(net, k.pred[v])
           IsAt(h) == h = [i \in 0 .. N |-> IF i = 0 THEN net.sink ELSE Up(h[i - 1])]
           Len1(h, l) == h[l] = net.source /\ \A j \in 0 .. (l - 1) : h[j] # net.source
<1>1. /\ reached \in SUBSET net.nodes /\ net.source \in reached /\ NoClosedSet(reached, up, roots)
      /\ \A v \in reached \ roots : up[v] \in reached /\ up[v] = Up(v)
      /\ \A v \in reached \ roots :
             /\ k.pred[v] \in Arcs(net) /\ Residual(net, flow, k.pred[v]) > 0
             /\ ArcTo(net, k.pred[v]) = v /\ ArcFrom(net, k.pred[v]) = Up(v)
  BY DEF Tree, Parents
<1>2. IsFiniteSet(net.nodes) /\ net.source # net.sink /\ N \in Nat /\ N = Cardinality(net.nodes)
  BY NodesCount DEF IsNetwork, N
<1>3. PICK n, c : LeadsBack(reached, up, roots, net.sink, n, c)
  <2> HIDE DEF up, roots
  <2> QED
    BY <1>1, WayBack
<1>4. /\ n \in Nat /\ c \in [0 .. n -> reached] /\ c[0] = net.sink /\ c[n] = net.source
      /\ \A i \in 0 .. (n - 1) : c[i] # net.source /\ c[i + 1] = Up(c[i])
      /\ \A i, j \in 0 .. n : c[i] = c[j] => i = j
  <2>1. /\ n \in Nat /\ c \in [0 .. n -> reached] /\ c[0] = net.sink /\ c[n] = net.source
        /\ \A i \in 0 .. (n - 1) : c[i] # net.source /\ c[i + 1] = up[c[i]]
        /\ \A i, j \in 0 .. n : c[i] = c[j] => i = j
    BY <1>3 DEF LeadsBack
  <2>2. \A i \in 0 .. (n - 1) : c[i] \in reached \ roots
    BY <2>1
  <2> QED
    BY <1>1, <2>1, <2>2
<1>5. n # 0
  BY <1>2, <1>4
<1>6. n < N
  <2>1. IsFiniteSet(reached) /\ Cardinality(reached) <= Cardinality(net.nodes)
    BY <1>1, <1>2, FS_Subset
  <2>2. Cardinality(reached) \in Nat /\ n < Cardinality(reached)
    BY <1>4, <2>1, WayIsShort
  <2> QED
    BY <1>2, <1>4, <2>1, <2>2
<1> HIDE DEF up, roots
<1> DEFINE at == [i \in 0 .. N |-> IF i <= n THEN c[i] ELSE net.source]
<1>7. \A i \in 0 .. N : at[i] = IF i = 0 THEN net.sink ELSE Up(at[i - 1])
  <2> TAKE i \in 0 .. N
  <2>1. CASE i = 0
    BY <1>2, <1>4, <2>1
  <2>2. CASE i # 0 /\ i <= n
    <3>1. i - 1 \in 0 .. (n - 1) /\ (i - 1) + 1 = i /\ i - 1 \in 0 .. N /\ i - 1 <= n
      BY <1>2, <1>4, <2>2
    <3>2. at[i] = c[i] /\ at[i - 1] = c[i - 1]
      BY <2>2, <3>1
    <3> HIDE DEF Up
    <3> QED
      BY <1>4, <2>2, <3>1, <3>2
  <2>3. CASE i > n
    <3>1. i - 1 \in 0 .. N /\ i - 1 >= n /\ i # 0
      BY <1>2, <1>4, <2>3
    <3>2. at[i] = net.source
      BY <1>4, <2>3
    <3>3. at[i - 1] = net.source
      BY <1>4, <3>1
    <3> QED
      BY <3>1, <3>2, <3>3
  <2> QED
    BY <1>4, <2>1, <2>2, <2>3
<1>8. at = [i \in 0 .. N |-> at[i]]
  OBVIOUS
<1>9. \A i \in 0 .. N : i <= n => at[i] = c[i]
  OBVIOUS
<1> HIDE DEF Up, at
<1>10. IsAt(at)
  BY <1>7, <1>8
<1>11. ASSUME NEW h, IsAt(h) PROVE h = at
  <2>1. \A i \in 0 .. N : h[i] = IF i = 0 THEN net.sink ELSE Up(h[i - 1])
    BY <1>11
  <2>2. h = [i \in 0 .. N |-> h[i]]
    BY <1>11
  <2> DEFINE good == {i \in 0 .. N : h[i] = at[i]}
  <2>3. 0 \in good
    BY <1>2, <1>7, <2>1
  <2>4. \A i \in 0 .. N : i > 0 /\ i - 1 \in good => i \in good
    BY <1>7, <2>1
  <2>5. 0 .. N \subseteq good
    <3> HIDE DEF good
    <3> QED
      BY <1>2, <2>3, <2>4, UpToInduction
  <2> QED
    BY <1>8, <2>2, <2>5
<1> DEFINE theAt == CHOOSE h : IsAt(h)
           theLength == CHOOSE l \in 0 .. N : Len1(theAt, l)
<1>12. PredPath = [i \in 1 .. theLength |-> k.pred[theAt[theLength - i]]]
  BY DEF PredPath, Up
<1> HIDE DEF IsAt
<1>13. theAt = at
  BY <1>10, <1>11
<1> HIDE DEF theAt
<1>14. Len1(theAt, n) /\ n \in 0 .. N
  <2>1. \A j \in 0 .. (n - 1) : j \in 0 .. N /\ j <= n
    BY <1>2, <1>4, <1>6
  <2> QED
    BY <1>2, <1>4, <1>6, <1>9, <1>13, <2>1
<1>15. ASSUME NEW l \in 0 .. N, Len1(theAt, l) PROVE l = n
  <2>1. ~(l < n)
    BY <1>4, <1>14, <1>15
  <2>2. ~(n < l)
    BY <1>4, <1>14, <1>15
  <2> QED
    BY <1>4, <2>1, <2>2
<1> HIDE DEF Len1
<1>16. theLength = n
  BY <1>14, <1>15
<1> HIDE DEF theLength
<1>17. PredPath = [i \in 1 .. n |-> k.pred[at[n - i]]]
  BY <1>12, <1>13, <1>16
<1> DEFINE path == PredPath
<1>18. ASSUME NEW i \in 1 .. n
       PROVE  /\ n - i \in 0 .. (n - 1) /\ path[i] = k.pred[c[n - i]] /\ path[i] \in Arcs(net)
              /\ Residual(net, flow, path[i]) > 0 /\ ArcTo(net, path[i]) = c[n - i]
              /\ ArcFrom(net, path[i]) = c[(n - i) + 1]
  <2>1. n - i \in 0 .. (n - 1) /\ n - i \in 0 .. N /\ n - i <= n /\ n - i \in 0 .. n
    BY <1>2, <1>4, <1>6
  <2>2. path[i] = k.pred[c[n - i]]
    BY <1>9, <1>17, <2>1
  <2>3. c[n - i] \in reached \ roots
    BY <1>4, <2>1 DEF roots
  <2> HIDE DEF path
  <2> QED
    BY <1>1, <1>4, <2>1, <2>2, <2>3
<1>19. path = [i \in 1 .. n |-> path[i]]
  BY <1>17
<1> HIDE DEF path
<1>20. path \in [1 .. n -> Arcs(net)]
  BY <1>18, <1>19
<1>21. \A i, j \in 1 .. n : path[i] = path[j] => i = j
  <2> SUFFICES ASSUME NEW i \in 1 .. n, NEW j \in 1 .. n, path[i] = path[j] PROVE i = j
    OBVIOUS
  <2>1. c[n - i] = c[n - j]
    BY <1>18
  <2>2. n - i \in 0 .. n /\ n - j \in 0 .. n
    BY <1>4
  <2>3. n - i = n - j
    BY <1>4, <2>1, <2>2
  <2> QED
    BY <1>4, <2>3
<1>22. \A i \in 1 .. (n - 1) : ArcTo(net, path[i]) = ArcFrom(net, path[i + 1])
  <2> TAKE i \in 1 .. (n - 1)
  <2>1. i \in 1 .. n /\ i + 1 \in 1 .. n /\ (n - (i + 1)) + 1 = n - i
    BY <1>4
  <2> QED
    BY <1>18, <2>1
<1>23. PathIn(net, path, n)
  BY <1>4, <1>5, <1>20, <1>21, <1>22 DEF PathIn, Listed
<1>24. ArcFrom(net, path[1]) = net.source /\ ArcTo(net, path[n]) = net.sink
  <2>1. 1 \in 1 .. n /\ n \in 1 .. n /\ (n - 1) + 1 = n /\ n - n = 0
    BY <1>4, <1>5
  <2> QED
    BY <1>4, <1>18, <2>1
<1>25. \A i \in 1 .. n : Residual(net, flow, path[i]) > 0
  BY <1>18
<1> QED
  BY <1>23, <1>24, <1>25 DEF SourceSinkPath, path

\* The powers of two, and the largest one that is not above a number.
LEMMA PowersOfTwo ==
    ASSUME NEW n \in Nat
    PROVE  /\ Power(0) = 1
           /\ \A i \in 0 .. n : Power(i) \in Nat /\ Power(i) > i
           /\ \A i \in 1 .. n : Power(i) = 2 * Power(i - 1)
<1> DEFINE next == [d \in Nat |-> 2 * d]
           IsPower(x, p) == p = [i \in 0 .. x |-> IF i = 0 THEN 1 ELSE 2 * p[i - 1]]
<1>1. next \in [Nat -> Nat] /\ \A d \in Nat : next[d] = 2 * d
  OBVIOUS
<1> HIDE DEF next, IsPower
<1>11. PICK h : Iterated(h, n, Nat, 1, next)
  BY <1>1, Iterates
<1>2. h \in [0 .. n -> Nat] /\ h[0] = 1 /\ \A i \in 1 .. n : h[i] = next[h[i - 1]]
  BY <1>11 DEF Iterated
<1>3. \A i \in 1 .. n : h[i] = 2 * h[i - 1]
  <2> TAKE i \in 1 .. n
  <2>1. h[i - 1] \in Nat /\ h[i] = next[h[i - 1]]
    BY <1>2
  <2> QED
    BY <1>1, <2>1
<1>4. ASSUME NEW x \in 0 .. n PROVE Power(x) = h[x]
  <2> DEFINE q == [i \in 0 .. x |-> h[i]]
  <2>0. \A i \in 0 .. x : i \in 0 .. n
    OBVIOUS
  <2>1. \A i \in 0 .. x : q[i] = IF i = 0 THEN 1 ELSE 2 * q[i - 1]
    <3> TAKE i \in 0 .. x
    <3>1. CASE i = 0
      BY <1>2, <3>1
    <3>2. CASE i # 0
      <4>1. i \in 1 .. n /\ i - 1 \in 0 .. x
        BY <3>2
      <4> QED
        BY <1>3, <3>2, <4>1
    <3> QED
      BY <3>1, <3>2
  <2>2. q = [i \in 0 .. x |-> q[i]]
    OBVIOUS
  <2> HIDE DEF q
  <2>3. IsPower(x, q)
    BY <2>1, <2>2 DEF IsPower
  <2>4. ASSUME NEW p, IsPower(x, p) PROVE p[x] = h[x]
    <3>1. \A i \in 0 .. x : p[i] = IF i = 0 THEN 1 ELSE 2 * p[i - 1]
      BY <2>4 DEF IsPower
    <3> DEFINE good == {i \in 0 .. x : p[i] = h[i]}
    <3>2. 0 \in good
      BY <1>2, <3>1
    <3>3. \A i \in 0 .. x : i > 0 /\ i - 1 \in good => i \in good
      <4> SUFFICES ASSUME NEW i \in 0 .. x, i > 0, p[i - 1] = h[i - 1] PROVE p[i] = h[i]
        OBVIOUS
      <4>1. i \in 1 .. n
        OBVIOUS
      <4> QED
        BY <1>3, <3>1, <4>1
    <3>4. x \in good
      <4>1. x \in Nat /\ x \in 0 .. x
        OBVIOUS
      <4> HIDE DEF good
      <4> QED
        BY <3>2, <3>3, <4>1, UpToInduction
    <3> QED
      BY <3>4
  <2>5. Power(x) = (CHOOSE p : IsPower(x, p))[x]
    BY DEF Power, IsPower
  <2> QED
    BY <2>3, <2>4, <2>5
<1>5. \A i \in 0 .. n : h[i] > i
  <2> DEFINE good == {i \in 0 .. n : h[i] > i}
  <2>1. 0 \in good
    BY <1>2
  <2>2. \A i \in 0 .. n : i > 0 /\ i - 1 \in good => i \in good
    <3> SUFFICES ASSUME NEW i \in 0 .. n, i > 0, h[i - 1] > i - 1 PROVE h[i] > i
      OBVIOUS
    <3>1. i \in 1 .. n /\ h[i - 1] \in Nat
      BY <1>2
    <3> QED
      BY <1>3, <3>1
  <2>3. 0 .. n \subseteq good
    <3> HIDE DEF good
    <3> QED
      BY <2>1, <2>2, UpToInduction
  <2> QED
    BY <2>3
<1>6. \A i \in 1 .. n : i - 1 \in 0 .. n /\ i \in 0 .. n
  OBVIOUS
<1>7. 0 \in 0 .. n
  OBVIOUS
<1> QED
  BY <1>2, <1>3, <1>4, <1>5, <1>6, <1>7

LEMMA LargestPowerIs ==
    ASSUME NEW x \in Nat, x > 0
    PROVE  LargestPower(x) \in Nat /\ LargestPower(x) > 0
<1>1. /\ Power(0) = 1
      /\ \A i \in 0 .. x : Power(i) \in Nat /\ Power(i) > i
      /\ \A i \in 1 .. x : Power(i) = 2 * Power(i - 1)
  BY PowersOfTwo
<1> DEFINE T == {i \in 0 .. x : Power(i) > x}
<1>2. x \in T
  BY <1>1
<1>3. PICK i \in T : \A j \in T : i <= j
  <2>1. T \in SUBSET Nat
    OBVIOUS
  <2> HIDE DEF T
  <2> QED
    BY <1>2, <2>1, LeastNatural
<1>4. i # 0
  BY <1>1
<1>5. i - 1 \in 0 .. x /\ i \in 1 .. x /\ i - 1 \notin T
  BY <1>3, <1>4
<1>6. Power(i - 1) <= x /\ x < 2 * Power(i - 1)
  BY <1>1, <1>5
<1> DEFINE P == {Power(j) : j \in 0 .. x}
<1>7. \E p \in P : p <= x /\ x < 2 * p
  BY <1>5, <1>6
<1>8. LargestPower(x) = CHOOSE p \in P : p <= x /\ x < 2 * p
  BY DEF LargestPower
<1>9. \A p \in P : p \in Nat /\ p > 0
  BY <1>1
<1> HIDE DEF P
<1> QED
  BY <1>7, <1>8, <1>9

\* What a search has reached, whose arcs it has still to follow, how wide an
\* arc has to be for it, and that it has missed none: every such arc it has
\* passed leads to a node it has reached.
ReachedBy(g, al, label) ==
    {v \in g.nodes : IF al = "widest" THEN label[v] > 0 ELSE label[v] # NoLabel}

WaitingIn(g, al, s) == IF al = "widest" THEN {v \in g.nodes : s.cursor[v] = 0} ELSE Range(s.queue)

LeastOf(al, delta) == IF al = "capacity-scaling" THEN delta ELSE 1

NothingMissed(g, fl, least, reached, waiting, cursor) ==
    \A v \in reached : \A i \in 1 .. Len(g.outgoing[v]) :
        (v \notin waiting \/ i <= cursor[v]) /\ Residual(g, fl, g.outgoing[v][i]) >= least =>
            ArcTo(g, g.outgoing[v][i]) \in reached

Explored(g, fl, al, s) ==
    /\ s.label \in [g.nodes -> IF al = "widest" THEN Nat ELSE Nat \cup {NoLabel}]
    /\ s.cursor \in [g.nodes -> Nat]
    /\ DOMAIN s.pred = g.nodes
    /\ s.queue \in Seq(g.nodes)
    /\ Tree(g, fl, ReachedBy(g, al, s.label), s.pred)
    /\ NothingMissed(g, fl, LeastOf(al, s.delta), ReachedBy(g, al, s.label), WaitingIn(g, al, s), s.cursor)
    /\ \A v \in g.nodes \ ReachedBy(g, al, s.label) : s.cursor[v] = 0
    /\ al = "widest" =>
           /\ \A v \in g.nodes : s.cursor[v] \in {0, 1}
           /\ s.cursor[g.sink] = 0
           /\ \A v \in ReachedBy(g, al, s.label) \ {g.source} : s.cursor[ArcFrom(g, s.pred[v])] = 1
    /\ al # "widest" => Range(s.queue) \subseteq ReachedBy(g, al, s.label)
    /\ al \in BreadthFirst => \A v \in g.nodes : s.cursor[v] = 0

SearchShape ==
    /\ KernelFields \subseteq DOMAIN k
    /\ k.delta \in Nat

TreeSearches == Searching \ {"dinic"}

SearchInv ==
    /\ net \in Networks /\ alg \in TreeSearches
    /\ SearchShape
    /\ Feasible(net, flow)
    /\ phase \in {"start", "search", "explore", "augment", "certify", "done", "failed"}
    /\ alg = "capacity-scaling" /\ phase \in {"search", "explore", "augment"} => k.delta > 0
    /\ phase = "explore" =>
           /\ Explored(net, flow, alg, k)
           /\ alg # "widest" => net.sink \notin ReachedBy(net, alg, k.label)
    /\ phase = "augment" => \E reached : Tree(net, flow, reached, k.pred) /\ net.sink \in reached
    /\ phase \in {"certify", "done"} => Value = LeastCut

\* A tree stays one where new nodes are hung below it, and others are moved
\* below nodes that stay.
LEMMA TreeGrows ==
    ASSUME NEW g, NEW fl, NEW reached, NEW pred, Tree(g, fl, reached, pred),
           NEW V \in SUBSET reached, g.source \in V, NEW W, V \subseteq W, W \subseteq g.nodes, NEW pred2,
           \A u \in V \ {g.source} : pred2[u] = pred[u] /\ ArcFrom(g, pred[u]) \in V,
           \A u \in W \ V : /\ pred2[u] \in Arcs(g) /\ Residual(g, fl, pred2[u]) > 0
                            /\ ArcTo(g, pred2[u]) = u /\ ArcFrom(g, pred2[u]) \in V
    PROVE  Tree(g, fl, W, pred2)
<1> DEFINE up == Parents(g, pred)
           up2 == Parents(g, pred2)
           roots == {g.source}
<1>1. /\ reached \in SUBSET g.nodes /\ NoClosedSet(reached, up, roots)
      /\ \A v \in reached \ {g.source} :
             /\ pred[v] \in Arcs(g) /\ Residual(g, fl, pred[v]) > 0
             /\ ArcTo(g, pred[v]) = v /\ ArcFrom(g, pred[v]) \in reached
  BY DEF Tree
<1>2. /\ \A u \in g.nodes : up[u] = ArcFrom(g, pred[u])
      /\ \A u \in g.nodes : up2[u] = ArcFrom(g, pred2[u])
  BY DEF Parents
<1> HIDE DEF up, up2
<1>3. NoClosedSet(V, up, roots)
  BY <1>1 DEF NoClosedSet
<1>4. \A u \in V \ roots : up2[u] = up[u] /\ up[u] \in V
  BY <1>1, <1>2
<1>5. \A u \in W \ V : u \notin roots => up2[u] \in V
  BY <1>2
<1> HIDE DEF roots
<1>6. NoClosedSet(W, up2, roots)
  BY <1>3, <1>4, <1>5, GrowTree
<1>7. \A v \in W \ {g.source} :
          /\ pred2[v] \in Arcs(g) /\ Residual(g, fl, pred2[v]) > 0
          /\ ArcTo(g, pred2[v]) = v /\ ArcFrom(g, pred2[v]) \in W
  BY <1>1
<1> QED
  BY <1>6, <1>7 DEF Tree, up2, roots

\* Sequences without their first and without their last element.
LEMMA RangeOfParts ==
    ASSUME NEW S, NEW q \in Seq(S), q # <<>>
    PROVE  /\ Head(q) \in Range(q) /\ Tail(q) \in Seq(S)
           /\ Range(Tail(q)) \subseteq Range(q) /\ Range(q) = Range(Tail(q)) \cup {Head(q)}
           /\ LastOf(q) \in Range(q) /\ Seqs!Front(q) \in Seq(S)
           /\ Range(Seqs!Front(q)) \subseteq Range(q) /\ Range(q) = Range(Seqs!Front(q)) \cup {LastOf(q)}
<1> DEFINE n == Len(q)
<1>1. n \in Nat \ {0} /\ DOMAIN q = 1 .. n /\ \A i \in 1 .. n : q[i] \in S
  BY EmptySeq, LenProperties
<1>2. Range(q) = {q[i] : i \in 1 .. n}
  BY RangeEquality
<1>3. Head(q) = q[1] /\ 1 \in 1 .. n
  BY <1>1
<1>4. /\ Tail(q) \in Seq(S) /\ Len(Tail(q)) = n - 1
      /\ \A i \in 1 .. (n - 1) : Tail(q)[i] = q[i + 1]
  BY HeadTailProperties
<1>5. Range(Tail(q)) = {Tail(q)[i] : i \in 1 .. (n - 1)}
  BY <1>4, RangeEquality
<1>6. Range(Tail(q)) = {q[i + 1] : i \in 1 .. (n - 1)}
  <2> HIDE DEF n
  <2> QED
    BY <1>4, <1>5
<1> DEFINE f == Seqs!Front(q)
<1>7. f = SubSeq(q, 1, n - 1)
  BY DEF Seqs!Front
<1>8. f \in Seq(S) /\ Len(f) = n - 1 /\ \A i \in 1 .. (n - 1) : f[i] = q[i]
  <2>1. \A i \in 1 .. (n - 1) : q[i] \in S
    BY <1>1
  <2>2. n - 1 \in Int /\ (IF 1 <= n - 1 THEN (n - 1) - 1 + 1 ELSE 0) = n - 1 /\ (n - 1) - 1 + 1 = n - 1
    BY <1>1
  <2> HIDE DEF n, f
  <2>3. /\ f \in Seq(S) /\ Len(f) = IF 1 <= n - 1 THEN (n - 1) - 1 + 1 ELSE 0
        /\ \A i \in 1 .. ((n - 1) - 1 + 1) : f[i] = q[1 + i - 1]
    BY <1>7, <2>1, <2>2, SubSeqProperties
  <2>4. \A i \in 1 .. (n - 1) : 1 + i - 1 = i
    BY <1>1
  <2> QED
    BY <2>2, <2>3, <2>4
<1>9. Range(f) = {f[i] : i \in 1 .. (n - 1)}
  <2> HIDE DEF f
  <2> QED
    BY <1>8, RangeEquality
<1>10. LastOf(q) = q[n] /\ n \in 1 .. n
  BY <1>1 DEF LastOf
<1> HIDE DEF n, f
<1>11. Range(f) = {q[i] : i \in 1 .. (n - 1)}
  BY <1>8, <1>9
<1>12. \A i \in 1 .. n : i = n \/ i \in 1 .. (n - 1)
  BY <1>1
<1>13. \A i \in 1 .. n : i = 1 \/ (i - 1 \in 1 .. (n - 1) /\ (i - 1) + 1 = i)
  BY <1>1
<1>14. \A i \in 1 .. (n - 1) : i \in 1 .. n /\ i + 1 \in 1 .. n
  BY <1>1
<1>15. Range(q) = Range(f) \cup {q[n]}
  BY <1>2, <1>10, <1>11, <1>12, <1>14
<1>17. Range(q) = Range(Tail(q)) \cup {q[1]}
  <2>1. \A x \in Range(q) : x \in Range(Tail(q)) \cup {q[1]}
    BY <1>2, <1>6, <1>13
  <2>2. \A x \in Range(Tail(q)) \cup {q[1]} : x \in Range(q)
    BY <1>2, <1>3, <1>6, <1>14
  <2> QED
    BY <2>1, <2>2
<1> QED
  BY <1>3, <1>4, <1>8, <1>10, <1>15, <1>17 DEF f

\* Every search begins with the source reached and none of its arcs passed.
LEMMA WideIs == ASSUME IsNetwork(net) PROVE Wide \in Nat /\ Wide > 0
<1> DEFINE E == Edges(net)
           zero == [e \in E |-> 0]
<1>1. IsFiniteSet(E) /\ \A e \in E : net.capacity[e] \in Nat
  BY DEF IsNetwork
<1>2. \A e \in E : zero[e] = 0 /\ zero[e] \in Int /\ net.capacity[e] \in Int /\ zero[e] <= net.capacity[e]
  BY <1>1
<1> HIDE DEF E, zero
<1>3. Total(zero, E) = 0 /\ Total(zero, E) <= Total(net.capacity, E) /\ Total(net.capacity, E) \in Int
  BY <1>1, <1>2, TotalZero, TotalLeq, TotalType
<1>4. Wide = Total(net.capacity, E) + 1
  BY SumIsTotal DEF Wide, E
<1> QED
  BY <1>3, <1>4

NewSearch(delta) ==
    [Kernel(net) EXCEPT
         !.delta = delta, !.queue = <<net.source>>,
         !.label = [v \in net.nodes |->
             IF alg = "widest" THEN IF v = net.source THEN Wide ELSE 0
             ELSE IF v = net.source THEN 0 ELSE NoLabel]]

LEMMA OneLong ==
    ASSUME NEW S, NEW x \in S
    PROVE  <<x>> \in Seq(S) /\ Len(<<x>>) = 1 /\ <<x>>[1] = x
OBVIOUS

LEMMA BeginsExplored ==
    ASSUME IsNetwork(net), NEW s, alg \in Searching, NEW delta, s = NewSearch(delta)
    PROVE  /\ Explored(net, flow, alg, s) /\ KernelFields \subseteq DOMAIN s /\ s.delta = delta
           /\ net.sink \notin ReachedBy(net, alg, s.label)
<1>1. /\ KernelFields \subseteq DOMAIN s /\ s.delta = delta /\ s.queue = <<net.source>>
      /\ s.label = [v \in net.nodes |->
                      IF alg = "widest" THEN IF v = net.source THEN Wide ELSE 0
                      ELSE IF v = net.source THEN 0 ELSE NoLabel]
      /\ s.cursor = [v \in net.nodes |-> 0] /\ DOMAIN s.pred = net.nodes
  BY DEF NewSearch, Kernel, KernelFields
<1>2. net.source \in net.nodes /\ net.sink \in net.nodes /\ net.source # net.sink
  BY DEF IsNetwork
<1>3. ReachedBy(net, alg, s.label) = {net.source}
  BY <1>1, <1>2, WideIs DEF ReachedBy, NoLabel
<1>4. Tree(net, flow, {net.source}, s.pred)
  BY <1>2 DEF Tree, NoClosedSet
<1>5. Len(s.queue) = 1 /\ s.queue[1] = net.source /\ s.queue \in Seq(net.nodes)
  <2> DEFINE q == <<net.source>>
  <2>1. q \in Seq(net.nodes) /\ Len(q) = 1 /\ q[1] = net.source
    BY <1>2, OneLong
  <2>2. s.queue = q
    BY <1>1
  <2> HIDE DEF q
  <2> QED
    BY <2>1, <2>2
<1>6. Range(s.queue) = {net.source}
  <2>1. Range(s.queue) = {s.queue[i] : i \in 1 .. 1}
    BY <1>5, RangeEquality
  <2> QED
    BY <1>5, <2>1
<1>7. net.source \in WaitingIn(net, alg, s)
  BY <1>1, <1>2, <1>6 DEF WaitingIn
<1>8. NothingMissed(net, flow, LeastOf(alg, s.delta), {net.source}, WaitingIn(net, alg, s), s.cursor)
  BY <1>1, <1>2, <1>7 DEF NothingMissed
<1>9. s.label \in [net.nodes -> IF alg = "widest" THEN Nat ELSE Nat \cup {NoLabel}]
  BY <1>1, WideIs
<1>10. s.cursor \in [net.nodes -> Nat] /\ \A v \in net.nodes : s.cursor[v] = 0
  BY <1>1
<1>11. s.cursor[net.sink] = 0
  BY <1>2, <1>10
<1>12. {net.source} \ {net.source} = {} /\ net.sink \notin {net.source}
  BY <1>2
<1> QED
  BY <1>1, <1>3, <1>4, <1>5, <1>6, <1>8, <1>9, <1>10, <1>11, <1>12 DEF Explored

\* What lives on the residual arcs at most decides the first scale.
LEMMA TopScaleIs ==
    ASSUME IsNetwork(net), Feasible(net, flow)
    PROVE  /\ TopScale \in Nat
           /\ TopScale = 0 => Value = LeastCut
<1> DEFINE S == {R(a) : a \in Arcs(net)} \cup {0}
           top == Finite!Max(S)
<1>1. WithinBounds(net, flow)
  BY DEF Feasible
<1>2. \A a \in Arcs(net) : R(a) \in Nat
  BY <1>1, ResidualIsInt DEF R
<1>3. IsFiniteSet(S)
  <2>1. IsFiniteSet(Arcs(net))
    <3>1. IsFiniteSet(Edges(net)) /\ IsFiniteSet({"forward", "reverse"})
      <4>1. {"forward", "reverse"} = {"forward"} \cup {"reverse"}
        OBVIOUS
      <4>2. IsFiniteSet({"forward"}) /\ IsFiniteSet({"reverse"})
        BY FS_Singleton
      <4>3. IsFiniteSet({"forward"} \cup {"reverse"})
        BY <4>2, FS_Union
      <4> QED
        BY <4>1, <4>3 DEF IsNetwork
    <3> QED
      BY <3>1, FS_Product DEF Arcs
  <2> DEFINE value == [a \in Arcs(net) |-> R(a)]
  <2>2. IsFiniteSet({value[a] : a \in Arcs(net)})
    <3> HIDE DEF value
    <3> QED
      BY <2>1, FiniteImage
  <2>3. {value[a] : a \in Arcs(net)} = {R(a) : a \in Arcs(net)}
    OBVIOUS
  <2> HIDE DEF value
  <2> QED
    BY <2>2, <2>3, FS_Singleton, FS_Union
<1>4. S # {} /\ S \subseteq Int
  BY <1>2
<1>5. top \in S /\ \A y \in S : top >= y
  <2> HIDE DEF S
  <2> QED
    BY <1>3, <1>4, MaxIsGreatest
<1>6. top \in Nat
  BY <1>2, <1>5
<1>7. \A a \in Arcs(net) : R(a) <= top
  BY <1>5
<1>8. TopScale = IF top = 0 THEN 0 ELSE LargestPower(top)
  BY DEF TopScale
<1> HIDE DEF S, top
<1>9. top # 0 => TopScale \in Nat /\ TopScale > 0
  BY <1>6, <1>8, LargestPowerIs
<1>10. ASSUME top = 0 PROVE Value = LeastCut
  <2>1. Closed(net, flow, {net.source})
    BY <1>2, <1>7, <1>10 DEF Closed, R
  <2>2. {net.source} \in SUBSET net.nodes /\ net.sink \notin {net.source}
    BY DEF IsNetwork
  <2> QED
    BY <2>1, <2>2, ClosedIsLeast DEF Value, LeastCut
<1> QED
  BY <1>6, <1>8, <1>9, <1>10

LEMMA BeginSearchStep ==
    ASSUME SearchInv, BeginSearch
    PROVE  SearchInv'
<1>1. /\ net \in Networks /\ alg \in TreeSearches /\ IsNetwork(net) /\ Feasible(net, flow) /\ k.delta \in Nat
      /\ phase \in {"start", "search"} /\ alg \in Searching
      /\ alg = "capacity-scaling" /\ phase = "search" => k.delta > 0
  BY NetworksAssumption DEF SearchInv, SearchShape, BeginSearch, TreeSearches
<1> DEFINE delta == IF phase = "start" /\ alg = "capacity-scaling" THEN TopScale ELSE k.delta
<1>2. /\ k' = NewSearch(delta)
      /\ phase' = IF alg = "capacity-scaling" /\ delta = 0 THEN "certify" ELSE "explore"
      /\ UNCHANGED <<net, alg, flow>>
  BY DEF BeginSearch, NewSearch, Quiet
<1>3. delta \in Nat /\ (delta = 0 /\ alg = "capacity-scaling" => Value = LeastCut)
  <2>1. TopScale \in Nat /\ (TopScale = 0 => Value = LeastCut)
    BY <1>1, TopScaleIs
  <2> QED
    BY <1>1, <2>1
<1> HIDE DEF delta
<1>4. /\ Explored(net, flow, alg, k') /\ KernelFields \subseteq DOMAIN k' /\ k'.delta = delta
      /\ net.sink \notin ReachedBy(net, alg, k'.label)
  BY <1>1, <1>2, BeginsExplored
<1>5. phase' = "certify" => Value' = LeastCut'
  BY <1>2, <1>3 DEF Value, LeastCut
<1>6. phase' \in {"explore", "certify"} /\ (alg = "capacity-scaling" /\ phase' = "explore" => k'.delta > 0)
  BY <1>2, <1>3, <1>4
<1> QED
  BY <1>1, <1>2, <1>3, <1>4, <1>5, <1>6 DEF SearchInv, SearchShape

\* Nothing is left to explore, so what is reached is a cut.
LEMMA ExploredIsClosed ==
    ASSUME NEW g, IsNetwork(g), NEW fl, Feasible(g, fl), NEW al, NEW s, Explored(g, fl, al, s),
           LeastOf(al, s.delta) = 1, g.sink \notin ReachedBy(g, al, s.label),
           ReachedBy(g, al, s.label) \cap WaitingIn(g, al, s) = {}
    PROVE  Divergence(g, fl, g.source)
               = Finite!Min({CutBound(g, S) : S \in {T \in SUBSET g.nodes :
                                g.source \in T /\ g.sink \notin T}})
<1> DEFINE C == ReachedBy(g, al, s.label)
<1>1. /\ C \in SUBSET g.nodes /\ g.source \in C /\ g.sink \notin C
      /\ NothingMissed(g, fl, 1, C, WaitingIn(g, al, s), s.cursor)
      /\ \A v \in C : v \notin WaitingIn(g, al, s)
  BY DEF Explored, Tree
<1> HIDE DEF C
<1>2. Closed(g, fl, C)
  <2> SUFFICES ASSUME NEW a \in Arcs(g), ArcFrom(g, a) \in C, Residual(g, fl, a) > 0 PROVE ArcTo(g, a) \in C
    BY DEF Closed
  <2>1. PICK i \in 1 .. Len(g.outgoing[ArcFrom(g, a)]) : g.outgoing[ArcFrom(g, a)][i] = a
    BY ArcIsListed
  <2>2. Residual(g, fl, a) >= 1
    BY ResidualIsInt DEF Feasible
  <2> QED
    BY <1>1, <2>1, <2>2 DEF NothingMissed
<1> QED
  BY <1>1, <1>2, ClosedIsLeast

LEMMA EndSearchStep ==
    ASSUME SearchInv, EndSearch
    PROVE  SearchInv'
<1>1. /\ net \in Networks /\ alg \in TreeSearches /\ IsNetwork(net) /\ Feasible(net, flow) /\ k.delta \in Nat
      /\ phase = "explore" /\ Explored(net, flow, alg, k) /\ KernelFields \subseteq DOMAIN k
      /\ alg = "capacity-scaling" => k.delta > 0
      /\ alg # "dinic" /\ (alg # "widest" => net.sink \notin ReachedBy(net, alg, k.label))
  BY NetworksAssumption DEF SearchInv, SearchShape, EndSearch, TreeSearches
<1>2. /\ IF alg = "widest" THEN Open = {} ELSE k.queue = <<>>
      /\ k' = IF alg = "capacity-scaling" THEN [k EXCEPT !.delta = @ \div 2] ELSE k
      /\ phase' = IF alg = "capacity-scaling" /\ k.delta > 1 THEN "search" ELSE "certify"
      /\ UNCHANGED <<net, alg, flow>>
  BY <1>1 DEF EndSearch, Quiet
<1>3. /\ KernelFields \subseteq DOMAIN k' /\ k'.delta \in Nat
      /\ alg = "capacity-scaling" /\ k.delta > 1 => k'.delta > 0
  <2>1. alg = "capacity-scaling" => KernelFields \subseteq DOMAIN k' /\ k'.delta = k.delta \div 2
    BY <1>1, <1>2 DEF KernelFields
  <2>2. k.delta \div 2 \in Nat /\ (k.delta > 1 => k.delta \div 2 > 0)
    BY <1>1
  <2> QED
    BY <1>1, <1>2, <2>1, <2>2
<1>4. ASSUME phase' = "certify" PROVE Value = LeastCut
  <2>1. LeastOf(alg, k.delta) = 1
    BY <1>1, <1>2, <1>4 DEF LeastOf
  <2>2. ReachedBy(net, alg, k.label) \cap WaitingIn(net, alg, k) = {}
    <3>1. CASE alg = "widest"
      BY <1>2, <3>1 DEF Open, ReachedBy, WaitingIn
    <3>2. CASE alg # "widest"
      BY <1>2, <3>2 DEF WaitingIn, Range
    <3> QED
      BY <3>1, <3>2
  <2>3. net.sink \notin ReachedBy(net, alg, k.label)
    <3>1. CASE alg = "widest"
      <4>1. k.cursor[net.sink] = 0 /\ net.sink \in net.nodes
        BY <1>1, <3>1 DEF Explored, IsNetwork
      <4> QED
        BY <2>2, <3>1, <4>1 DEF WaitingIn
    <3>2. CASE alg # "widest"
      BY <1>1, <3>2
    <3> QED
      BY <3>1, <3>2
  <2> QED
    BY <1>1, <2>1, <2>2, <2>3, ExploredIsClosed DEF Value, LeastCut
<1>5. phase' = "certify" => Value' = LeastCut'
  BY <1>2, <1>4 DEF Value, LeastCut
<1> QED
  BY <1>1, <1>2, <1>3, <1>5 DEF SearchInv, SearchShape

LEMMA AugmentSearchedStep ==
    ASSUME SearchInv, AugmentSearched
    PROVE  SearchInv'
<1>1. /\ net \in Networks /\ alg \in TreeSearches /\ IsNetwork(net) /\ Feasible(net, flow) /\ k.delta \in Nat
      /\ phase = "augment" /\ KernelFields \subseteq DOMAIN k
      /\ alg = "capacity-scaling" => k.delta > 0
      /\ \E reached : Tree(net, flow, reached, k.pred) /\ net.sink \in reached
  BY NetworksAssumption DEF SearchInv, SearchShape, AugmentSearched
<1>2. /\ flow' = Augment(net, flow, PredPath, Bottleneck(net, flow, PredPath))
      /\ phase' = "search" /\ UNCHANGED <<net, alg, k>>
  BY DEF AugmentSearched, Quiet
<1>3. PICK n : SourceSinkPath(net, flow, PredPath, n)
  BY <1>1, TreePath
<1>4. Feasible(net, flow')
  BY <1>1, <1>2, <1>3, AugmentKeepsFlow DEF SourceSinkPath
<1> QED
  BY <1>1, <1>2, <1>4 DEF SearchInv, SearchShape

LEMMA CertifySearchStep ==
    ASSUME SearchInv, Certify
    PROVE  SearchInv'
<1>1. /\ UNCHANGED <<net, alg, flow, k>> /\ phase = "certify" /\ phase' \in {"done", "failed"}
  BY DEF Certify, Stop, Quiet
<1> QED
  BY <1>1 DEF SearchInv, SearchShape, Value, LeastCut

\* The first arc that leads from a node to another.
LEMMA FoundAtIs ==
    ASSUME IsNetwork(net), NEW v \in net.nodes, NEW u, NEW b \in LiveArcs(v), To(b) = u
    PROVE  /\ FoundAt(v, u) \in 1 .. Len(net.outgoing[v])
           /\ FirstArc(v, u) \in Arcs(net) /\ Residual(net, flow, FirstArc(v, u)) > 0
           /\ ArcTo(net, FirstArc(v, u)) = u /\ ArcFrom(net, FirstArc(v, u)) = v
<1> DEFINE s == net.outgoing[v]
           I == {i \in 1 .. Len(s) : R(s[i]) > 0 /\ To(s[i]) = u}
<1>1. FoundAt(v, u) = Earliest(I)
  BY DEF FoundAt, Seqs!SelectInSeq, Earliest
<1>2. b \in Arcs(net) /\ ArcFrom(net, b) = v /\ R(b) > 0
  BY DEF LiveArcs, Live, R
<1>3. PICK i \in 1 .. Len(s) : s[i] = b
  BY <1>2, ArcIsListed
<1>4. i \in I
  BY <1>2, <1>3
<1>5. Len(s) \in Nat
  BY <1>2, ArcIsListed
<1>6. Earliest(I) \in I
  <2>1. I \in SUBSET (1 .. Len(s)) /\ I # {}
    BY <1>4
  <2> HIDE DEF I, s
  <2> QED
    BY <1>5, <2>1, EarliestIs
<1>7. FoundAt(v, u) \in 1 .. Len(s) /\ R(s[FoundAt(v, u)]) > 0 /\ To(s[FoundAt(v, u)]) = u
  BY <1>1, <1>6
<1>8. s[FoundAt(v, u)] \in Arcs(net) /\ ArcFrom(net, s[FoundAt(v, u)]) = v
  BY <1>7, ListedArc
<1> QED
  BY <1>7, <1>8 DEF FirstArc, R, To

BreadthFound(s, v, fresh) ==
    s = [k EXCEPT !.label = [u \in net.nodes |-> IF u \in fresh THEN @[v] + 1 ELSE @[u]],
                  !.pred = [u \in net.nodes |-> IF u \in fresh THEN FirstArc(v, u) ELSE @[u]],
                  !.queue = Tail(@) \o InArcOrder(v, fresh)]

LEMMA BreadthExplores ==
    ASSUME IsNetwork(net), WithinBounds(net, flow), alg \in BreadthFirst, Explored(net, flow, alg, k),
           KernelFields \subseteq DOMAIN k, k.queue # <<>>, NEW v, v = Head(k.queue),
           NEW fresh, fresh = Fresh(v), NEW s, BreadthFound(s, v, fresh)
    PROVE  /\ KernelFields \subseteq DOMAIN s /\ s.delta = k.delta
           /\ Explored(net, flow, alg, s)
           /\ ReachedBy(net, alg, s.label) = ReachedBy(net, alg, k.label) \cup fresh
           /\ InArcOrder(v, fresh) \in Seq(net.nodes) /\ Range(InArcOrder(v, fresh)) = fresh
<1> DEFINE reached == ReachedBy(net, alg, k.label)
           found == InArcOrder(v, fresh)
<1>1. /\ KernelFields \subseteq DOMAIN s /\ s.delta = k.delta /\ s.cursor = k.cursor
      /\ s.label = [u \in net.nodes |-> IF u \in fresh THEN k.label[v] + 1 ELSE k.label[u]]
      /\ s.pred = [u \in net.nodes |-> IF u \in fresh THEN FirstArc(v, u) ELSE k.pred[u]]
      /\ s.queue = Tail(k.queue) \o found
  BY DEF BreadthFound, KernelFields
<1>2. /\ k.label \in [net.nodes -> Nat \cup {NoLabel}] /\ k.cursor \in [net.nodes -> Nat]
      /\ k.queue \in Seq(net.nodes) /\ Range(k.queue) \subseteq reached
      /\ Tree(net, flow, reached, k.pred)
      /\ NothingMissed(net, flow, 1, reached, Range(k.queue), k.cursor)
      /\ \A u \in net.nodes : k.cursor[u] = 0
      /\ alg # "widest" /\ LeastOf(alg, k.delta) = 1 /\ LeastOf(alg, s.delta) = 1
  BY <1>1 DEF Explored, BreadthFirst, WaitingIn, LeastOf
<1>3. /\ v \in Range(k.queue) /\ Tail(k.queue) \in Seq(net.nodes)
      /\ Range(k.queue) = Range(Tail(k.queue)) \cup {v} /\ Range(Tail(k.queue)) \subseteq Range(k.queue)
  BY <1>2, RangeOfParts
<1>4. /\ reached \subseteq net.nodes /\ net.source \in reached /\ v \in reached /\ v \in net.nodes
      /\ \A u \in net.nodes : u \in reached <=> k.label[u] # NoLabel
  BY <1>2, <1>3 DEF Tree, ReachedBy
<1>5. \A u \in fresh : u \in net.nodes /\ k.label[u] = NoLabel /\ \E b \in LiveArcs(v) : To(b) = u
  BY DEF Fresh
<1>6. \A u \in net.nodes : k.label[u] = NoLabel /\ (\E b \in LiveArcs(v) : To(b) = u) => u \in fresh
  BY DEF Fresh
<1> HIDE DEF reached, found
<1>7. \A u \in fresh : /\ FoundAt(v, u) \in Int
                       /\ FirstArc(v, u) \in Arcs(net) /\ Residual(net, flow, FirstArc(v, u)) > 0
                       /\ ArcTo(net, FirstArc(v, u)) = u /\ ArcFrom(net, FirstArc(v, u)) = v
  <2> TAKE u \in fresh
  <2>1. PICK b \in LiveArcs(v) : To(b) = u
    BY <1>5
  <2> QED
    BY <1>4, <2>1, FoundAtIs
<1>8. \A u, w \in fresh : FoundAt(v, u) = FoundAt(v, w) => u = w
  <2> TAKE u, w \in fresh
  <2>1. FoundAt(v, u) = FoundAt(v, w) => FirstArc(v, u) = FirstArc(v, w)
    BY DEF FirstArc
  <2> QED
    BY <1>7, <2>1
<1>9. found \in Seq(net.nodes) /\ Range(found) = fresh
  <2> DEFINE n == Cardinality(fresh)
  <2>1. IsFiniteSet(fresh)
    BY <1>5, FS_Subset DEF IsNetwork
  <2>2. /\ n \in Nat /\ found \in [1 .. n -> fresh]
        /\ \A u \in fresh : \E i \in 1 .. n : found[i] = u
    BY <1>7, <1>8, <2>1, ArcOrderLists DEF found
  <2> HIDE DEF n
  <2>3. Range(found) = fresh
    BY <2>2 DEF Range
  <2>4. \A i \in 1 .. n : found[i] \in net.nodes
    BY <1>5, <2>2
  <2>5. found = [i \in 1 .. n |-> found[i]]
    BY <2>2
  <2>6. found \in [1 .. n -> net.nodes]
    BY <2>4, <2>5
  <2>7. found \in Seq(net.nodes)
    BY <2>2, <2>6
  <2> QED
    BY <2>3, <2>7
<1>10. s.queue \in Seq(net.nodes) /\ Range(s.queue) = Range(Tail(k.queue)) \cup fresh
  <2> DEFINE rest == Tail(k.queue)
  <2>1. rest \in Seq(net.nodes) /\ s.queue = rest \o found
    BY <1>1, <1>3
  <2> HIDE DEF rest
  <2>2. rest \o found \in Seq(net.nodes) /\ Range(rest \o found) = Range(rest) \cup Range(found)
    BY <1>9, <2>1, ConcatProperties, RangeConcatenation
  <2> QED
    BY <1>9, <2>1, <2>2 DEF rest
<1>11. k.label[v] \in Nat
  BY <1>2, <1>4 DEF NoLabel
<1>12. /\ s.label \in [net.nodes -> Nat \cup {NoLabel}]
       /\ \A u \in net.nodes : s.label[u] # NoLabel <=> u \in reached \cup fresh
  <2>1. \A u \in net.nodes : s.label[u] = IF u \in fresh THEN k.label[v] + 1 ELSE k.label[u]
    BY <1>1
  <2> QED
    BY <1>1, <1>2, <1>4, <1>11, <2>1 DEF NoLabel
<1>13. ReachedBy(net, alg, s.label) = reached \cup fresh
  BY <1>2, <1>4, <1>5, <1>12 DEF ReachedBy
<1>14. Tree(net, flow, reached \cup fresh, s.pred)
  <2>1. \A u \in reached \ {net.source} : s.pred[u] = k.pred[u] /\ ArcFrom(net, k.pred[u]) \in reached
    BY <1>1, <1>2, <1>4, <1>5 DEF Tree
  <2>2. \A u \in (reached \cup fresh) \ reached :
            /\ s.pred[u] \in Arcs(net) /\ Residual(net, flow, s.pred[u]) > 0
            /\ ArcTo(net, s.pred[u]) = u /\ ArcFrom(net, s.pred[u]) \in reached
    BY <1>1, <1>4, <1>5, <1>7
  <2>3. reached \cup fresh \subseteq net.nodes
    BY <1>4, <1>5
  <2> QED
    BY <1>2, <1>4, <2>1, <2>2, <2>3, TreeGrows
<1>15. NothingMissed(net, flow, 1, reached \cup fresh, Range(s.queue), s.cursor)
  <2> SUFFICES ASSUME NEW u \in reached \cup fresh, NEW i \in 1 .. Len(net.outgoing[u]),
                      u \notin Range(s.queue) \/ i <= s.cursor[u],
                      Residual(net, flow, net.outgoing[u][i]) >= 1
               PROVE  ArcTo(net, net.outgoing[u][i]) \in reached \cup fresh
    BY DEF NothingMissed
  <2>1. u \in net.nodes /\ Len(net.outgoing[u]) \in Nat
    <3>1. u \in net.nodes
      BY <1>4, <1>5
    <3> QED
      BY <3>1, LenProperties DEF IsNetwork
  <2>2. u \notin Range(s.queue)
    BY <1>1, <1>2, <2>1
  <2>3. u \in reached /\ u \notin Range(Tail(k.queue))
    BY <1>10, <2>2
  <2>4. CASE u # v
    <3>1. u \notin Range(k.queue)
      BY <1>3, <2>3, <2>4
    <3> QED
      BY <1>2, <2>3, <3>1 DEF NothingMissed
  <2>5. CASE u = v
    <3> DEFINE a == net.outgoing[v][i]
    <3>1. a \in Arcs(net) /\ ArcFrom(net, a) = v
      BY <2>1, <2>5, ListedArc
    <3>2. Residual(net, flow, a) \in Nat /\ ArcTo(net, a) \in net.nodes
      BY <3>1, ResidualIsInt
    <3>3. a \in LiveArcs(v) /\ To(a) = ArcTo(net, a)
      BY <2>5, <3>1, <3>2 DEF LiveArcs, Live, To
    <3> HIDE DEF a
    <3>4. ArcTo(net, a) \in reached \cup fresh
      BY <1>4, <1>6, <3>2, <3>3
    <3> QED
      BY <2>5, <3>4 DEF a
  <2> QED
    BY <2>4, <2>5
<1>17. Range(s.queue) \subseteq reached \cup fresh
  BY <1>2, <1>3, <1>10
<1>18. DOMAIN s.pred = net.nodes
  BY <1>1
<1>19. Explored(net, flow, alg, s)
  BY <1>1, <1>2, <1>10, <1>12, <1>13, <1>14, <1>15, <1>17, <1>18
  DEF Explored, WaitingIn
<1> QED
  BY <1>1, <1>9, <1>13, <1>19 DEF reached, found

LEMMA ExploreBreadthStep ==
    ASSUME SearchInv, ExploreBreadth
    PROVE  SearchInv'
<1> DEFINE v == Head(k.queue)
           fresh == Fresh(v)
<1>1. /\ net \in Networks /\ alg \in TreeSearches /\ IsNetwork(net) /\ Feasible(net, flow) /\ k.delta \in Nat
      /\ WithinBounds(net, flow)
      /\ phase = "explore" /\ Explored(net, flow, alg, k) /\ KernelFields \subseteq DOMAIN k
      /\ alg \in BreadthFirst /\ alg = "edmonds-karp" /\ k.queue # <<>>
      /\ net.sink \notin ReachedBy(net, alg, k.label)
  BY NetworksAssumption DEF SearchInv, SearchShape, ExploreBreadth, TreeSearches, BreadthFirst, Feasible
<1>2. /\ BreadthFound(k', v, fresh)
      /\ phase' = IF net.sink \in fresh THEN "augment" ELSE "explore"
      /\ UNCHANGED <<net, alg, flow>>
  <2> DEFINE Step(x, y) == /\ BreadthFound(k', x, y)
                           /\ phase' = IF alg = "edmonds-karp" /\ net.sink \in y THEN "augment"
                                       ELSE phase
  <2>1. (\E x \in {v} : \E y \in {Fresh(x)} : Step(x, y)) /\ UNCHANGED <<net, alg, flow>>
    BY DEF ExploreBreadth, BreadthFound, Quiet
  <2>2. fresh = Fresh(v)
    OBVIOUS
  <2> HIDE DEF v, fresh, Step
  <2>3. Step(v, fresh)
    BY <2>1, <2>2
  <2> QED
    BY <1>1, <2>1, <2>3 DEF Step
<1>3. /\ KernelFields \subseteq DOMAIN k' /\ k'.delta = k.delta /\ Explored(net, flow, alg, k')
      /\ ReachedBy(net, alg, k'.label) = ReachedBy(net, alg, k.label) \cup fresh
  <2>1. /\ IsNetwork(net) /\ WithinBounds(net, flow) /\ alg \in BreadthFirst
        /\ k.queue # <<>> /\ v = Head(k.queue) /\ fresh = Fresh(v)
        /\ KernelFields \subseteq DOMAIN k /\ Explored(net, flow, alg, k) /\ BreadthFound(k', v, fresh)
    BY <1>1, <1>2
  <2> HIDE DEF v, fresh
  <2> QED
    BY ONLY <2>1, BreadthExplores
<1> HIDE DEF v, fresh
<1>4. /\ phase' = "explore" => net.sink \notin ReachedBy(net, alg, k'.label)
      /\ phase' = "augment" => net.sink \in ReachedBy(net, alg, k'.label)
  BY <1>1, <1>2, <1>3
<1>5. Tree(net, flow, ReachedBy(net, alg, k'.label), k'.pred)
  BY <1>3 DEF Explored
<1> QED
  BY <1>1, <1>2, <1>3, <1>4, <1>5 DEF SearchInv, SearchShape

LEMMA RangeOfAppend ==
    ASSUME NEW S, NEW q \in Seq(S), NEW x \in S
    PROVE  Append(q, x) \in Seq(S) /\ Range(Append(q, x)) = Range(q) \cup {x}
<1> DEFINE t == Append(q, x)
           n == Len(q)
<1>1. /\ t \in Seq(S) /\ Len(t) = n + 1 /\ n \in Nat
      /\ \A i \in 1 .. n : t[i] = q[i]
      /\ t[n + 1] = x
  BY AppendProperties, LenProperties
<1> HIDE DEF t, n
<1>2. Range(t) = {t[i] : i \in 1 .. (n + 1)} /\ Range(q) = {q[i] : i \in 1 .. n}
  BY <1>1, RangeEquality DEF n
<1>3. \A i \in 1 .. (n + 1) : i = n + 1 \/ i \in 1 .. n
  BY <1>1
<1>4. n + 1 \in 1 .. (n + 1) /\ \A i \in 1 .. n : i \in 1 .. (n + 1)
  BY <1>1
<1>5. Range(t) = Range(q) \cup {x}
  BY <1>1, <1>2, <1>3, <1>4
<1> QED
  BY <1>1, <1>5 DEF t

\* The next arc of a node that is wide enough and leads to a new node, if any.
LEMMA NextPlaceIs ==
    ASSUME IsNetwork(net), NEW v \in net.nodes, k.cursor[v] \in Nat
    PROVE  LET s == net.outgoing[v]
               New(a) == R(a) >= Least /\ k.label[To(a)] = NoLabel
           IN /\ NextPlace(v) = 0 => \A i \in (k.cursor[v] + 1) .. Len(s) : ~New(s[i])
              /\ NextPlace(v) # 0 => /\ NextPlace(v) \in 1 .. Len(s) /\ New(s[NextPlace(v)])
                                     /\ \A i \in (k.cursor[v] + 1) .. (NextPlace(v) - 1) : ~New(s[i])
<1> DEFINE s == net.outgoing[v]
           New(a) == R(a) >= Least /\ k.label[To(a)] = NoLabel
           c == k.cursor[v]
           I == {i \in (c + 1) .. Len(s) : New(s[i])}
           p == NextPlace(v)
<1>1. p = Earliest(I)
  BY DEF NextPlace, Seqs!SelectInSubSeq, Earliest
<1>2. Len(s) \in Nat
  <2>1. s \in Seq(Arcs(net))
    BY DEF IsNetwork
  <2> HIDE DEF s
  <2> QED
    BY <2>1, LenProperties
<1> HIDE DEF s, New, p
<1>3. c \in Nat /\ I \in SUBSET (1 .. Len(s)) /\ \A i \in I : New(s[i])
  BY <1>2
<1>4. \A i \in (c + 1) .. Len(s) : New(s[i]) => i \in I
  OBVIOUS
<1> HIDE DEF I, c
<1>5. (p = 0 <=> I = {}) /\ (I # {} => p \in I /\ \A i \in I : p <= i)
  BY <1>1, <1>2, <1>3, EarliestIs
<1>6. p = 0 => \A i \in (c + 1) .. Len(s) : ~New(s[i])
  BY <1>4, <1>5
<1>7. p # 0 => /\ p \in 1 .. Len(s) /\ New(s[p])
               /\ \A i \in (c + 1) .. (p - 1) : ~New(s[i])
  <2> SUFFICES ASSUME p # 0
               PROVE  /\ p \in 1 .. Len(s) /\ New(s[p])
                      /\ \A i \in (c + 1) .. (p - 1) : ~New(s[i])
    OBVIOUS
  <2>1. p \in I /\ p \in 1 .. Len(s) /\ New(s[p]) /\ \A i \in I : p <= i
    BY <1>3, <1>5
  <2>2. ASSUME NEW i \in (c + 1) .. (p - 1) PROVE ~New(s[i])
    <3>1. i \in (c + 1) .. Len(s) /\ ~(p <= i)
      BY <1>2, <1>3, <2>1
    <3> QED
      BY <1>4, <2>1, <3>1
  <2> QED
    BY <2>1, <2>2
<1> QED
  BY <1>6, <1>7 DEF s, New, c, p

DepthFound(s, v, i, a) ==
    s = [k EXCEPT !.label[To(a)] = k.label[v] + 1, !.pred[To(a)] = a,
                  !.cursor[v] = i, !.queue = Append(@, To(a))]

LEMMA DepthExplores ==
    ASSUME IsNetwork(net), WithinBounds(net, flow), alg \in DepthFirst, Explored(net, flow, alg, k),
           KernelFields \subseteq DOMAIN k, k.queue # <<>>, NEW v, v = LastOf(k.queue),
           Least \in Nat \ {0}, NEW i, i = NextPlace(v)
    PROVE  /\ i = 0 => Explored(net, flow, alg, [k EXCEPT !.queue = Seqs!Front(@)])
           /\ i # 0 => \A a, s : a = net.outgoing[v][i] /\ DepthFound(s, v, i, a) =>
                  /\ KernelFields \subseteq DOMAIN s /\ s.delta = k.delta
                  /\ Explored(net, flow, alg, s)
                  /\ ReachedBy(net, alg, s.label) = ReachedBy(net, alg, k.label) \cup {To(a)}
<1> DEFINE reached == ReachedBy(net, alg, k.label)
<1>1. /\ k.label \in [net.nodes -> Nat \cup {NoLabel}] /\ k.cursor \in [net.nodes -> Nat]
      /\ DOMAIN k.pred = net.nodes
      /\ k.queue \in Seq(net.nodes) /\ Range(k.queue) \subseteq reached
      /\ Tree(net, flow, reached, k.pred)
      /\ NothingMissed(net, flow, Least, reached, Range(k.queue), k.cursor)
      /\ \A u \in net.nodes \ reached : k.cursor[u] = 0
      /\ alg # "widest" /\ LeastOf(alg, k.delta) = Least /\ alg \notin BreadthFirst
  BY DEF Explored, DepthFirst, BreadthFirst, WaitingIn, LeastOf, Least
<1>2. /\ v \in Range(k.queue) /\ Seqs!Front(k.queue) \in Seq(net.nodes)
      /\ Range(k.queue) = Range(Seqs!Front(k.queue)) \cup {v}
      /\ Range(Seqs!Front(k.queue)) \subseteq Range(k.queue)
  BY <1>1, RangeOfParts
<1>3. /\ reached \subseteq net.nodes /\ net.source \in reached /\ v \in reached /\ v \in net.nodes
      /\ \A u \in net.nodes : u \in reached <=> k.label[u] # NoLabel
  BY <1>1, <1>2 DEF Tree, ReachedBy
<1> HIDE DEF reached
<1>4. /\ k.cursor[v] \in Nat
      /\ i = 0 => \A j \in (k.cursor[v] + 1) .. Len(net.outgoing[v]) :
                      ~(R(net.outgoing[v][j]) >= Least /\ k.label[To(net.outgoing[v][j])] = NoLabel)
      /\ i # 0 => /\ i \in 1 .. Len(net.outgoing[v])
                  /\ R(net.outgoing[v][i]) >= Least /\ k.label[To(net.outgoing[v][i])] = NoLabel
                  /\ \A j \in (k.cursor[v] + 1) .. (i - 1) :
                      ~(R(net.outgoing[v][j]) >= Least /\ k.label[To(net.outgoing[v][j])] = NoLabel)
  <2>1. k.cursor[v] \in Nat
    BY <1>1, <1>3
  <2> QED
    BY <1>3, <2>1, NextPlaceIs
<1>5. \A u \in net.nodes : Len(net.outgoing[u]) \in Nat
  BY LenProperties DEF IsNetwork
\* What an arc of v that is not worth following leads to was reached before.
<1>6. ASSUME NEW j \in 1 .. Len(net.outgoing[v]), Residual(net, flow, net.outgoing[v][j]) >= Least,
             \/ j <= k.cursor[v]
             \/ ~(R(net.outgoing[v][j]) >= Least /\ k.label[To(net.outgoing[v][j])] = NoLabel)
      PROVE  ArcTo(net, net.outgoing[v][j]) \in reached
  <2>1. CASE j <= k.cursor[v]
    BY <1>1, <1>3, <1>6, <2>1 DEF NothingMissed
  <2>2. CASE ~(R(net.outgoing[v][j]) >= Least /\ k.label[To(net.outgoing[v][j])] = NoLabel)
    <3>1. net.outgoing[v][j] \in Arcs(net)
      BY <1>3, ListedArc
    <3>2. ArcTo(net, net.outgoing[v][j]) \in net.nodes
      BY <3>1, ResidualIsInt
    <3> QED
      BY <1>3, <1>6, <2>2, <3>2 DEF R, To
  <2> QED
    BY <1>6, <2>1, <2>2
<1>7. ASSUME i = 0, NEW s, s = [k EXCEPT !.queue = Seqs!Front(@)] PROVE Explored(net, flow, alg, s)
  <2>1. /\ s.label = k.label /\ s.cursor = k.cursor /\ s.pred = k.pred /\ s.delta = k.delta
        /\ s.queue = Seqs!Front(k.queue)
    BY <1>7 DEF KernelFields
  <2>2. NothingMissed(net, flow, Least, reached, Range(s.queue), k.cursor)
    <3> SUFFICES ASSUME NEW u \in reached, NEW j \in 1 .. Len(net.outgoing[u]),
                        u \notin Range(s.queue) \/ j <= k.cursor[u],
                        Residual(net, flow, net.outgoing[u][j]) >= Least
                 PROVE  ArcTo(net, net.outgoing[u][j]) \in reached
      BY DEF NothingMissed
    <3>1. CASE u \notin Range(k.queue) \/ j <= k.cursor[u]
      BY <1>1, <3>1 DEF NothingMissed
    <3>2. CASE u \in Range(k.queue) /\ ~(j <= k.cursor[u])
      <4>1. u = v
        BY <1>2, <2>1, <3>2
      <4>2. j \in (k.cursor[v] + 1) .. Len(net.outgoing[v])
        BY <1>3, <1>4, <1>5, <3>2, <4>1
      <4> QED
        BY <1>4, <1>6, <1>7, <4>1, <4>2
    <3> QED
      BY <3>1, <3>2
  <2>3. Range(s.queue) \subseteq reached
    BY <1>1, <1>2, <2>1
  <2> QED
    BY <1>1, <1>2, <2>1, <2>2, <2>3 DEF Explored, WaitingIn, reached
<1>8. ASSUME i # 0, NEW a, NEW s, a = net.outgoing[v][i], DepthFound(s, v, i, a)
      PROVE  /\ KernelFields \subseteq DOMAIN s /\ s.delta = k.delta
             /\ Explored(net, flow, alg, s)
             /\ ReachedBy(net, alg, s.label) = reached \cup {To(a)}
  <2> DEFINE w == To(a)
  <2>1. /\ KernelFields \subseteq DOMAIN s /\ s.delta = k.delta
        /\ s.label = [k.label EXCEPT ![w] = k.label[v] + 1]
        /\ s.pred = [k.pred EXCEPT ![w] = a]
        /\ s.cursor = [k.cursor EXCEPT ![v] = i]
        /\ s.queue = Append(k.queue, w)
    BY <1>8 DEF DepthFound, KernelFields
  <2>2. a \in Arcs(net) /\ ArcFrom(net, a) = v
    BY <1>3, <1>4, <1>8, ListedArc
  <2>3. /\ Residual(net, flow, a) \in Nat /\ Residual(net, flow, a) >= Least /\ w \in net.nodes
        /\ w = ArcTo(net, a) /\ w \notin reached /\ w # v
    <3>1. Residual(net, flow, a) \in Nat /\ ArcTo(net, a) \in net.nodes
      BY <2>2, ResidualIsInt
    <3> QED
      BY <1>3, <1>4, <1>8, <3>1 DEF R, To
  <2>4. i \in Nat
    BY <1>3, <1>4, <1>5, <1>8
  <2> HIDE DEF w
  <2>5. k.label[v] \in Nat
    BY <1>1, <1>3 DEF NoLabel
  <2>6. /\ s.label \in [net.nodes -> Nat \cup {NoLabel}]
        /\ \A u \in net.nodes : s.label[u] # NoLabel <=> u \in reached \cup {w}
    <3>1. \A u \in net.nodes : s.label[u] = IF u = w THEN k.label[v] + 1 ELSE k.label[u]
      BY <1>1, <2>1, <2>3
    <3> QED
      BY <1>1, <1>3, <2>1, <2>3, <2>5, <3>1 DEF NoLabel
  <2>7. ReachedBy(net, alg, s.label) = reached \cup {w}
    BY <1>1, <1>3, <2>3, <2>6 DEF ReachedBy
  <2>8. Tree(net, flow, reached \cup {w}, s.pred)
    <3>1. \A u \in reached \ {net.source} : s.pred[u] = k.pred[u] /\ ArcFrom(net, k.pred[u]) \in reached
      BY <1>1, <1>3, <2>1, <2>3 DEF Tree
    <3>2. \A u \in (reached \cup {w}) \ reached :
              /\ s.pred[u] \in Arcs(net) /\ Residual(net, flow, s.pred[u]) > 0
              /\ ArcTo(net, s.pred[u]) = u /\ ArcFrom(net, s.pred[u]) \in reached
      BY <1>1, <1>3, <2>1, <2>2, <2>3
    <3>3. reached \cup {w} \subseteq net.nodes
      BY <1>3, <2>3
    <3> QED
      BY <1>1, <1>3, <3>1, <3>2, <3>3, TreeGrows
  <2>9. s.cursor \in [net.nodes -> Nat] /\ \A u \in net.nodes : s.cursor[u] = IF u = v THEN i ELSE k.cursor[u]
    BY <1>1, <1>3, <2>1, <2>4
  <2>10. s.queue \in Seq(net.nodes) /\ Range(s.queue) = Range(k.queue) \cup {w}
    <3> DEFINE q == k.queue
    <3>1. q \in Seq(net.nodes) /\ w \in net.nodes /\ s.queue = Append(q, w)
      BY <1>1, <2>1, <2>3
    <3> HIDE DEF q
    <3>2. Append(q, w) \in Seq(net.nodes) /\ Range(Append(q, w)) = Range(q) \cup {w}
      BY <3>1, RangeOfAppend
    <3> QED
      BY <3>1, <3>2 DEF q
  <2>11. NothingMissed(net, flow, Least, reached \cup {w}, Range(s.queue), s.cursor)
    <3> SUFFICES ASSUME NEW u \in reached \cup {w}, NEW j \in 1 .. Len(net.outgoing[u]),
                        u \notin Range(s.queue) \/ j <= s.cursor[u],
                        Residual(net, flow, net.outgoing[u][j]) >= Least
                 PROVE  ArcTo(net, net.outgoing[u][j]) \in reached \cup {w}
      BY DEF NothingMissed
    <3>1. CASE u = w
      <4>1. s.cursor[w] = 0 /\ w \in Range(s.queue)
        BY <1>1, <2>3, <2>9, <2>10
      <4>2. Len(net.outgoing[w]) \in Nat
        BY <1>5, <2>3
      <4> QED
        BY <3>1, <4>1, <4>2
    <3>2. CASE u = v
      <4>1. v \in Range(s.queue) /\ j <= i
        BY <1>2, <1>3, <2>9, <2>10, <3>2
      <4>2. CASE j = i
        BY <1>8, <2>3, <3>2, <4>2
      <4>3. CASE j # i
        <5>1. j <= k.cursor[v] \/ j \in (k.cursor[v] + 1) .. (i - 1)
          BY <1>3, <1>4, <1>5, <2>4, <3>2, <4>1, <4>3
        <5> QED
          BY <1>4, <1>6, <1>8, <3>2, <5>1
      <4> QED
        BY <4>2, <4>3
    <3>3. CASE u # w /\ u # v
      <4>1. u \in reached /\ (u \notin Range(k.queue) \/ j <= k.cursor[u])
        BY <1>3, <2>9, <2>10, <3>3
      <4> QED
        BY <1>1, <4>1 DEF NothingMissed
    <3> QED
      BY <3>1, <3>2, <3>3
  <2>12. \A u \in net.nodes \ (reached \cup {w}) : s.cursor[u] = 0
    BY <1>1, <1>3, <2>9
  <2>13. Range(s.queue) \subseteq reached \cup {w} /\ DOMAIN s.pred = net.nodes
    BY <1>1, <2>1, <2>10
  <2>14. LeastOf(alg, s.delta) = Least /\ alg # "widest"
    BY <1>1, <2>1
  <2>15. Explored(net, flow, alg, s)
    BY <1>1, <2>6, <2>7, <2>8, <2>9, <2>10, <2>11, <2>12, <2>13, <2>14 DEF Explored, WaitingIn
  <2> QED
    BY <2>1, <2>7, <2>15 DEF w
<1> QED
  BY <1>7, <1>8 DEF reached

LEMMA ExploreDepthStep ==
    ASSUME SearchInv, ExploreDepth
    PROVE  SearchInv'
<1> DEFINE v == LastOf(k.queue)
           i == NextPlace(v)
           a == net.outgoing[v][i]
<1>1. /\ net \in Networks /\ alg \in TreeSearches /\ IsNetwork(net) /\ Feasible(net, flow) /\ k.delta \in Nat
      /\ WithinBounds(net, flow)
      /\ phase = "explore" /\ Explored(net, flow, alg, k) /\ KernelFields \subseteq DOMAIN k
      /\ alg \in DepthFirst /\ alg # "widest" /\ k.queue # <<>>
      /\ net.sink \notin ReachedBy(net, alg, k.label)
      /\ alg = "capacity-scaling" => k.delta > 0
  BY NetworksAssumption DEF SearchInv, SearchShape, ExploreDepth, DepthFirst, Feasible
<1>2. Least \in Nat \ {0}
  BY <1>1 DEF Least
<1>3. /\ i = 0 => k' = [k EXCEPT !.queue = Seqs!Front(@)] /\ phase' = "explore"
      /\ i # 0 => /\ DepthFound(k', v, i, a)
                  /\ phase' = IF To(a) = net.sink THEN "augment" ELSE "explore"
      /\ UNCHANGED <<net, alg, flow>>
  BY <1>1 DEF ExploreDepth, DepthFound, Quiet
<1>4. /\ i = 0 => Explored(net, flow, alg, [k EXCEPT !.queue = Seqs!Front(@)])
      /\ i # 0 => \A b, s : b = net.outgoing[v][i] /\ DepthFound(s, v, i, b) =>
             /\ KernelFields \subseteq DOMAIN s /\ s.delta = k.delta
             /\ Explored(net, flow, alg, s)
             /\ ReachedBy(net, alg, s.label) = ReachedBy(net, alg, k.label) \cup {To(b)}
  BY <1>1, <1>2, DepthExplores
<1> HIDE DEF v, i
<1>5. CASE i = 0
  <2>1. /\ KernelFields \subseteq DOMAIN k' /\ k'.delta = k.delta /\ k'.label = k.label
        /\ Explored(net, flow, alg, k')
    BY <1>1, <1>3, <1>4, <1>5 DEF KernelFields
  <2> QED
    BY <1>1, <1>3, <1>5, <2>1 DEF SearchInv, SearchShape
<1>6. CASE i # 0
  <2>1. /\ KernelFields \subseteq DOMAIN k' /\ k'.delta = k.delta
        /\ Explored(net, flow, alg, k')
        /\ ReachedBy(net, alg, k'.label) = ReachedBy(net, alg, k.label) \cup {To(a)}
    BY <1>3, <1>4, <1>6
  <2>2. /\ phase' \in {"explore", "augment"}
        /\ phase' = "explore" => net.sink \notin ReachedBy(net, alg, k'.label)
        /\ phase' = "augment" => net.sink \in ReachedBy(net, alg, k'.label)
    BY <1>1, <1>3, <1>6, <2>1
  <2>3. Tree(net, flow, ReachedBy(net, alg, k'.label), k'.pred)
    BY <2>1 DEF Explored
  <2> QED
    BY <1>1, <1>3, <2>1, <2>2, <2>3 DEF SearchInv, SearchShape
<1> QED
  BY <1>5, <1>6

\* The widest open node exists, and so do the widths it widens others to.
LEMMA WidestIs ==
    ASSUME IsNetwork(net), k.label \in [net.nodes -> Nat], Open # {}
    PROVE  Widest \in Open
<1> DEFINE width == [v \in net.nodes |-> k.label[v]]
           S == {width[v] : v \in Open}
           best == Finite!Max(S)
           T == {v \in Open : width[v] = best}
           Foremost(v) == \A u \in Open : k.label[u] < k.label[v] \/ (k.label[u] = k.label[v] /\ v <= u)
<1>1. Open \subseteq net.nodes /\ IsFiniteSet(Open) /\ \A v \in net.nodes : v \in Nat
  BY FS_Subset DEF Open, IsNetwork
<1>2. \A v \in Open : width[v] \in Nat /\ width[v] = k.label[v]
  BY <1>1
<1>3. IsFiniteSet(S) /\ S # {} /\ S \subseteq Int
  <2> HIDE DEF width
  <2> QED
    BY <1>1, <1>2, FiniteImage
<1> HIDE DEF width
<1>4. best \in S /\ \A y \in S : best >= y
  <2> HIDE DEF S
  <2> QED
    BY <1>3, MaxIsGreatest
<1>5. T # {} /\ \A v \in Open : best >= width[v]
  BY <1>4
<1> HIDE DEF best, S
<1>6. PICK v \in T : \A u \in T : v <= u
  <2>1. T \in SUBSET Nat
    BY <1>1
  <2> HIDE DEF T
  <2> QED
    BY <1>5, <2>1, LeastNatural
<1>7. v \in Open /\ Foremost(v)
  <2>1. v \in Open /\ width[v] = best
    OBVIOUS
  <2>2. ASSUME NEW u \in Open PROVE k.label[u] < k.label[v] \/ (k.label[u] = k.label[v] /\ v <= u)
    <3>1. best >= width[u] /\ width[u] = k.label[u] /\ width[v] = k.label[v] /\ width[u] \in Nat /\ width[v] \in Nat
      BY <1>2, <1>5, <2>1
    <3>2. width[u] = best => v <= u
      BY <1>6
    <3> QED
      BY <2>1, <3>1, <3>2
  <2> QED
    BY <2>1, <2>2
<1>8. Widest = CHOOSE x \in Open : Foremost(x)
  BY DEF Widest
<1> HIDE DEF Foremost
<1> QED
  BY <1>7, <1>8

LEMMA WidenedIs ==
    ASSUME IsNetwork(net), WithinBounds(net, flow), k.label \in [net.nodes -> Nat],
           NEW v \in net.nodes, k.label[v] > 0, NEW u \in net.nodes
    PROVE  /\ Widened(v, u) \in Nat
           /\ \A a \in LiveArcs(v) : To(a) = u => Widened(v, u) > 0
           /\ Widened(v, u) > k.label[u] =>
                  /\ WideArc(v, u) \in Arcs(net) /\ Residual(net, flow, WideArc(v, u)) > 0
                  /\ ArcTo(net, WideArc(v, u)) = u /\ ArcFrom(net, WideArc(v, u)) = v
<1> DEFINE B == {b \in LiveArcs(v) : To(b) = u}
           wide == [a \in B |-> Width(v, a)]
           S == {k.label[u]} \cup {wide[a] : a \in B}
           w == Widened(v, u)
<1>1. B \subseteq Arcs(net) /\ IsFiniteSet(B) /\ \A a \in B : a \in LiveArcs(v) /\ To(a) = u
  <2>1. IsFiniteSet(Edges(net)) /\ B \subseteq Arcs(net)
    BY DEF IsNetwork, LiveArcs, Live
  <2>2. IsFiniteSet({"forward"}) /\ IsFiniteSet({"reverse"})
    BY FS_Singleton
  <2>3. IsFiniteSet({"forward"} \cup {"reverse"}) /\ {"forward"} \cup {"reverse"} = {"forward", "reverse"}
    BY <2>2, FS_Union
  <2>4. IsFiniteSet(Arcs(net))
    BY <2>1, <2>3, FS_Product DEF Arcs
  <2> HIDE DEF B
  <2>5. IsFiniteSet(B)
    BY <2>1, <2>4, FS_Subset
  <2> QED
    BY <2>1, <2>5 DEF B
<1>2. \A a \in B : R(a) \in Nat /\ R(a) > 0 /\ ArcFrom(net, a) = v /\ a \in Arcs(net)
  <2> TAKE a \in B
  <2>1. a \in Arcs(net) /\ R(a) > 0 /\ ArcFrom(net, a) = v
    BY DEF LiveArcs, Live, R
  <2> QED
    BY <2>1, ResidualIsInt DEF R
<1>3. \A a \in B : Width(v, a) \in Nat /\ Width(v, a) > 0
  <2> TAKE a \in B
  <2> DEFINE x == k.label[v]
             y == R(a)
  <2>1. x \in Int /\ y \in Int /\ x > 0 /\ y > 0
    BY <1>2
  <2>2. Width(v, a) = Finite!Min({x, y})
    BY DEF Width
  <2> HIDE DEF x, y
  <2>3. Finite!Min({x, y}) \in {x, y}
    BY <2>1, MinOfTwo
  <2> QED
    BY <2>1, <2>2, <2>3
<1>4. \A a \in LiveArcs(v) : To(a) = u => a \in B
  OBVIOUS
<1> HIDE DEF B
<1>5. w = Finite!Max(S)
  <2>1. {wide[a] : a \in B} = {Width(v, a) : a \in B}
    OBVIOUS
  <2> HIDE DEF wide
  <2> QED
    BY <2>1 DEF Widened, B
<1>6. IsFiniteSet(S)
  <2> DEFINE image == {wide[a] : a \in B}
  <2>1. IsFiniteSet(image)
    <3> HIDE DEF wide
    <3> QED
      BY <1>1, FiniteImage
  <2> HIDE DEF image
  <2>2. IsFiniteSet({k.label[u]})
    BY FS_Singleton
  <2>3. IsFiniteSet({k.label[u]} \cup image)
    BY <2>1, <2>2, FS_Union
  <2> QED
    BY <2>3 DEF image
<1>7. \A a \in B : wide[a] = Width(v, a)
  OBVIOUS
<1> HIDE DEF wide
<1>8. k.label[u] \in Nat
  OBVIOUS
<1>9. S # {} /\ S \subseteq Int
  BY <1>3, <1>7, <1>8
<1>10. w \in S /\ \A y \in S : w >= y
  <2> HIDE DEF S, w
  <2> QED
    BY <1>5, <1>6, <1>9, MaxIsGreatest
<1>11. w \in Nat
  BY <1>3, <1>7, <1>8, <1>10
<1>12. \A a \in B : w >= Width(v, a)
  BY <1>7, <1>10
<1>13. \A a \in LiveArcs(v) : To(a) = u => w > 0
  BY <1>3, <1>4, <1>11, <1>12
<1>14. ASSUME w > k.label[u] PROVE \E a \in B : Width(v, a) = w
  BY <1>7, <1>8, <1>10, <1>11, <1>14
<1> HIDE DEF S
<1>15. ASSUME w > k.label[u]
       PROVE  /\ WideArc(v, u) \in Arcs(net) /\ Residual(net, flow, WideArc(v, u)) > 0
              /\ ArcTo(net, WideArc(v, u)) = u /\ ArcFrom(net, WideArc(v, u)) = v
  <2>1. PICK a \in B : Width(v, a) = w
    BY <1>14, <1>15
  <2>2. /\ a \in Arcs(net) /\ ArcFrom(net, a) = v /\ R(a) > 0 /\ To(a) = u
    BY <1>1, <1>2
  <2> DEFINE s == net.outgoing[v]
             I == {i \in 1 .. Len(s) : R(s[i]) > 0 /\ To(s[i]) = u /\ Width(v, s[i]) = w}
  <2>3. WideArc(v, u) = s[Earliest(I)]
    BY DEF WideArc, Seqs!SelectInSeq, Earliest
  <2>4. PICK i \in 1 .. Len(s) : s[i] = a
    BY <2>2, ArcIsListed
  <2>5. i \in I
    BY <2>1, <2>2, <2>4
  <2>6. Len(s) \in Nat
    BY <2>2, ArcIsListed
  <2>7. Earliest(I) \in I
    <3>1. I \in SUBSET (1 .. Len(s)) /\ I # {}
      BY <2>5
    <3> HIDE DEF I, s
    <3> QED
      BY <2>6, <3>1, EarliestIs
  <2>8. Earliest(I) \in 1 .. Len(s) /\ R(s[Earliest(I)]) > 0 /\ To(s[Earliest(I)]) = u
    BY <2>7
  <2>9. s[Earliest(I)] \in Arcs(net) /\ ArcFrom(net, s[Earliest(I)]) = v
    BY <2>8, ListedArc
  <2> HIDE DEF I, s
  <2> QED
    BY <2>3, <2>8, <2>9 DEF R, To
<1> QED
  BY <1>11, <1>13, <1>15

Settled(s, v, wider) ==
    s = [k EXCEPT !.cursor[v] = 1,
                  !.label = [u \in net.nodes |-> IF u \in wider THEN Widened(v, u) ELSE @[u]],
                  !.pred = [u \in net.nodes |-> IF u \in wider THEN WideArc(v, u) ELSE @[u]]]

LEMMA WidestExplores ==
    ASSUME IsNetwork(net), WithinBounds(net, flow), alg = "widest", Explored(net, flow, alg, k),
           KernelFields \subseteq DOMAIN k, NEW v \in Open, v # net.sink, NEW wider,
           wider = {u \in net.nodes : u # v /\ k.cursor[u] = 0 /\ Widened(v, u) > k.label[u]},
           NEW s, Settled(s, v, wider)
    PROVE  KernelFields \subseteq DOMAIN s /\ s.delta = k.delta /\ Explored(net, flow, alg, s)
<1> DEFINE reached == ReachedBy(net, alg, k.label)
           after == ReachedBy(net, alg, s.label)
<1>1. /\ KernelFields \subseteq DOMAIN s /\ s.delta = k.delta /\ s.queue = k.queue
      /\ s.label = [u \in net.nodes |-> IF u \in wider THEN Widened(v, u) ELSE k.label[u]]
      /\ s.pred = [u \in net.nodes |-> IF u \in wider THEN WideArc(v, u) ELSE k.pred[u]]
      /\ s.cursor = [k.cursor EXCEPT ![v] = 1]
  BY DEF Settled, KernelFields
<1>2. /\ k.label \in [net.nodes -> Nat] /\ k.cursor \in [net.nodes -> Nat]
      /\ k.queue \in Seq(net.nodes)
      /\ Tree(net, flow, reached, k.pred)
      /\ NothingMissed(net, flow, 1, reached, WaitingIn(net, alg, k), k.cursor)
      /\ \A u \in net.nodes \ reached : k.cursor[u] = 0
      /\ \A u \in net.nodes : k.cursor[u] \in {0, 1}
      /\ k.cursor[net.sink] = 0
      /\ \A u \in reached \ {net.source} : k.cursor[ArcFrom(net, k.pred[u])] = 1
  BY DEF Explored, LeastOf
<1>3. /\ reached \subseteq net.nodes /\ net.source \in reached
      /\ \A u \in net.nodes : u \in reached <=> k.label[u] > 0
      /\ \A u \in reached \ {net.source} :
             /\ k.pred[u] \in Arcs(net) /\ Residual(net, flow, k.pred[u]) > 0
             /\ ArcTo(net, k.pred[u]) = u /\ ArcFrom(net, k.pred[u]) \in reached
  BY <1>2 DEF Tree, ReachedBy
<1>4. v \in net.nodes /\ k.cursor[v] = 0 /\ k.label[v] > 0 /\ v \in reached
  BY <1>3 DEF Open
<1>5. \A u \in net.nodes :
          /\ Widened(v, u) \in Nat
          /\ \A a \in LiveArcs(v) : To(a) = u => Widened(v, u) > 0
          /\ Widened(v, u) > k.label[u] =>
                 /\ WideArc(v, u) \in Arcs(net) /\ Residual(net, flow, WideArc(v, u)) > 0
                 /\ ArcTo(net, WideArc(v, u)) = u /\ ArcFrom(net, WideArc(v, u)) = v
  BY <1>2, <1>4, WidenedIs
<1>6. \A u \in net.nodes : u \in wider <=> u # v /\ k.cursor[u] = 0 /\ Widened(v, u) > k.label[u]
  OBVIOUS
<1>7. wider \subseteq net.nodes
  OBVIOUS
<1>8. \A u \in net.nodes :
          /\ s.label[u] = IF u \in wider THEN Widened(v, u) ELSE k.label[u]
          /\ s.pred[u] = IF u \in wider THEN WideArc(v, u) ELSE k.pred[u]
          /\ s.cursor[u] = IF u = v THEN 1 ELSE k.cursor[u]
  BY <1>1, <1>2
<1>9. /\ s.label \in [net.nodes -> Nat] /\ DOMAIN s.pred = net.nodes
      /\ s.cursor \in [net.nodes -> Nat] /\ \A u \in net.nodes : s.cursor[u] \in {0, 1}
  BY <1>1, <1>2, <1>4, <1>5, <1>8
<1>10. \A u \in net.nodes : u \in after <=> s.label[u] > 0
  BY DEF ReachedBy
<1>11. after \subseteq net.nodes
  BY DEF ReachedBy
<1> HIDE DEF reached, after
<1>12. after = reached \cup wider
  <2>1. \A u \in net.nodes : u \in after <=> u \in reached \/ u \in wider
    <3> TAKE u \in net.nodes
    <3>1. k.label[u] \in Nat /\ Widened(v, u) \in Nat
      BY <1>2, <1>5
    <3> QED
      BY <1>3, <1>6, <1>8, <1>10, <3>1
  <2> QED
    BY <1>3, <1>7, <1>11, <2>1
\* The settled nodes, with the one settled now, are a tree that stays.
<1> DEFINE V == {u \in reached : u = net.source \/ u = v \/ k.cursor[u] = 1}
<1>13. \A u \in V \ {net.source} : u \notin wider /\ ArcFrom(net, k.pred[u]) \in V
  BY <1>2, <1>3, <1>6
<1>14. \A u \in after \ V : /\ s.pred[u] \in Arcs(net) /\ Residual(net, flow, s.pred[u]) > 0
                            /\ ArcTo(net, s.pred[u]) = u /\ ArcFrom(net, s.pred[u]) \in V
  <2> SUFFICES ASSUME NEW u \in after \ V
               PROVE  /\ s.pred[u] \in Arcs(net) /\ Residual(net, flow, s.pred[u]) > 0
                      /\ ArcTo(net, s.pred[u]) = u /\ ArcFrom(net, s.pred[u]) \in V
    OBVIOUS
  <2>1. CASE u \in wider
    BY <1>4, <1>5, <1>6, <1>7, <1>8, <2>1
  <2>2. CASE u \notin wider
    <3>1. u \in reached \ {net.source} /\ u \in net.nodes
      BY <1>3, <1>12, <2>2
    <3>2. s.pred[u] = k.pred[u] /\ k.cursor[ArcFrom(net, k.pred[u])] = 1
      BY <1>2, <1>8, <2>2, <3>1
    <3> QED
      BY <1>3, <3>1, <3>2
  <2> QED
    BY <2>1, <2>2
<1>15. Tree(net, flow, after, s.pred)
  <2>1. V \in SUBSET reached /\ net.source \in V /\ V \subseteq after
    BY <1>3, <1>12
  <2>2. \A u \in V \ {net.source} : s.pred[u] = k.pred[u] /\ ArcFrom(net, k.pred[u]) \in V
    BY <1>3, <1>8, <1>13
  <2> HIDE DEF V
  <2> QED
    BY <1>2, <1>11, <1>14, <2>1, <2>2, TreeGrows
<1>17. NothingMissed(net, flow, 1, after, WaitingIn(net, alg, s), s.cursor)
  <2> SUFFICES ASSUME NEW u \in after, NEW i \in 1 .. Len(net.outgoing[u]),
                      u \notin WaitingIn(net, alg, s) \/ i <= s.cursor[u],
                      Residual(net, flow, net.outgoing[u][i]) >= 1
               PROVE  ArcTo(net, net.outgoing[u][i]) \in after
    BY DEF NothingMissed
  <2> DEFINE a == net.outgoing[u][i]
  <2>1. u \in net.nodes /\ Len(net.outgoing[u]) \in Nat
    <3>1. u \in net.nodes
      BY <1>11
    <3> QED
      BY <3>1, LenProperties DEF IsNetwork
  <2>2. s.cursor[u] = 1
    BY <1>9, <2>1 DEF WaitingIn
  <2>3. a \in Arcs(net) /\ ArcFrom(net, a) = u
    BY <2>1, ListedArc
  <2>4. Residual(net, flow, a) \in Nat /\ ArcTo(net, a) \in net.nodes
    BY <2>3, ResidualIsInt
  <2>5. CASE u # v
    <3>1. k.cursor[u] = 1 /\ u \in reached /\ u \notin WaitingIn(net, alg, k)
      BY <1>2, <1>8, <1>3, <2>1, <2>2, <2>5 DEF WaitingIn
    <3> QED
      BY <1>2, <1>12, <3>1 DEF NothingMissed
  <2>6. CASE u = v
    <3> DEFINE w == ArcTo(net, a)
    <3>1. a \in LiveArcs(v) /\ To(a) = w
      BY <2>3, <2>4, <2>6 DEF LiveArcs, Live, To
    <3> HIDE DEF a
    <3>2. Widened(v, w) > 0 /\ Widened(v, w) \in Nat /\ k.label[w] \in Nat /\ w \in net.nodes
      BY <1>2, <1>5, <2>4, <3>1
    <3>3. k.cursor[w] = 1 => w \in reached
      BY <1>2, <3>2
    <3> HIDE DEF w
    <3>4. w \in after
      BY <1>2, <1>3, <1>4, <1>6, <1>12, <3>2, <3>3
    <3> QED
      BY <3>4 DEF w, a
  <2> QED
    BY <2>5, <2>6
<1>18. /\ \A u \in net.nodes \ after : s.cursor[u] = 0
       /\ s.cursor[net.sink] = 0
       /\ \A u \in after \ {net.source} : s.cursor[ArcFrom(net, s.pred[u])] = 1
  <2>1. \A u \in net.nodes \ after : s.cursor[u] = 0
    BY <1>2, <1>4, <1>8, <1>12
  <2>2. s.cursor[net.sink] = 0
    BY <1>2, <1>8 DEF IsNetwork
  <2>3. ASSUME NEW u \in after \ {net.source} PROVE s.cursor[ArcFrom(net, s.pred[u])] = 1
    <3>1. CASE u \in wider
      <4>1. ArcFrom(net, s.pred[u]) = v
        BY <1>5, <1>6, <1>7, <1>8, <3>1
      <4> QED
        BY <1>4, <1>8, <4>1
    <3>2. CASE u \notin wider
      <4>1. u \in reached \ {net.source} /\ u \in net.nodes
        BY <1>3, <1>12, <3>2
      <4>2. s.pred[u] = k.pred[u] /\ k.cursor[ArcFrom(net, k.pred[u])] = 1 /\ ArcFrom(net, k.pred[u]) \in net.nodes
        BY <1>2, <1>3, <1>8, <3>2, <4>1
      <4> QED
        BY <1>8, <4>2
    <3> QED
      BY <3>1, <3>2
  <2> QED
    BY <2>1, <2>2, <2>3
<1>19. alg = "widest" /\ LeastOf(alg, s.delta) = 1 /\ s.queue \in Seq(net.nodes) /\ alg \notin BreadthFirst
  BY <1>1, <1>2 DEF LeastOf, BreadthFirst
<1>20. Explored(net, flow, alg, s)
  BY <1>9, <1>15, <1>17, <1>18, <1>19 DEF Explored, after
<1> QED
  BY <1>1, <1>20

LEMMA SettleWidestStep ==
    ASSUME SearchInv, SettleWidest
    PROVE  SearchInv'
<1> DEFINE v == Widest
           wider == {u \in net.nodes : u # v /\ k.cursor[u] = 0 /\ Widened(v, u) > k.label[u]}
<1>1. /\ net \in Networks /\ alg \in TreeSearches /\ IsNetwork(net) /\ Feasible(net, flow) /\ k.delta \in Nat
      /\ WithinBounds(net, flow)
      /\ phase = "explore" /\ Explored(net, flow, alg, k) /\ KernelFields \subseteq DOMAIN k
      /\ alg = "widest" /\ Open # {}
  BY NetworksAssumption DEF SearchInv, SearchShape, SettleWidest, Feasible
<1>2. v \in Open
  <2>1. k.label \in [net.nodes -> Nat]
    BY <1>1 DEF Explored
  <2> QED
    BY <1>1, <2>1, WidestIs
<1>3. /\ v = net.sink => phase' = "augment" /\ UNCHANGED k
      /\ v # net.sink => Settled(k', v, wider) /\ phase' = "explore"
      /\ UNCHANGED <<net, alg, flow>>
  BY <1>1 DEF SettleWidest, Settled, Quiet
<1>4. CASE v = net.sink
  <2>1. Tree(net, flow, ReachedBy(net, alg, k.label), k.pred)
    BY <1>1 DEF Explored
  <2>2. net.sink \in ReachedBy(net, alg, k.label)
    BY <1>1, <1>2, <1>4 DEF Open, ReachedBy
  <2> QED
    BY <1>1, <1>3, <1>4, <2>1, <2>2 DEF SearchInv, SearchShape
<1>5. CASE v # net.sink
  <2>1. KernelFields \subseteq DOMAIN k' /\ k'.delta = k.delta /\ Explored(net, flow, alg, k')
    BY <1>1, <1>2, <1>3, <1>5, WidestExplores
  <2> QED
    BY <1>1, <1>3, <1>5, <2>1 DEF SearchInv, SearchShape
<1> QED
  BY <1>4, <1>5

(***************************************************************************)
(* Dinic's levels. While they are built, an explored node's arcs lead up by*)
(* one level at most, and those still to explore are at most one level     *)
(* apart.                                                                  *)
(***************************************************************************)
Levelled(g, fl, s) ==
    /\ \A a \in Arcs(g) :
           /\ Residual(g, fl, a) > 0 /\ s.label[ArcFrom(g, a)] # NoLabel /\ ArcFrom(g, a) \notin Range(s.queue)
           => s.label[ArcTo(g, a)] <= s.label[ArcFrom(g, a)] + 1
    /\ \A i, j \in 1 .. Len(s.queue) : i <= j => s.label[s.queue[i]] <= s.label[s.queue[j]]
    /\ \A v \in g.nodes : s.label[v] # NoLabel =>
           \A i \in 1 .. Len(s.queue) : s.label[v] <= s.label[s.queue[i]] + 1

\* What comes after the first element, then more.
LEMMA TailThen ==
    ASSUME NEW S, NEW q \in Seq(S), q # <<>>, NEW p \in Seq(S)
    PROVE  /\ Len(q) \in Nat \ {0} /\ Len(p) \in Nat
           /\ Len(Tail(q) \o p) = Len(q) - 1 + Len(p)
           /\ \A i \in 1 .. (Len(q) - 1) : (Tail(q) \o p)[i] = q[i + 1]
           /\ \A i \in Len(q) .. (Len(q) - 1 + Len(p)) :
                  (Tail(q) \o p)[i] = p[i - (Len(q) - 1)] /\ i - (Len(q) - 1) \in 1 .. Len(p)
<1> DEFINE r == Tail(q)
           n == Len(q)
           m == Len(p)
<1>1. n \in Nat \ {0} /\ m \in Nat
  BY EmptySeq, LenProperties
<1>2. r \in Seq(S) /\ Len(r) = n - 1 /\ \A i \in 1 .. (n - 1) : r[i] = q[i + 1]
  BY HeadTailProperties
<1> HIDE DEF r, n, m
<1>3. /\ Len(r \o p) = Len(r) + Len(p)
      /\ \A i \in 1 .. (Len(r) + Len(p)) : (r \o p)[i] = IF i <= Len(r) THEN r[i] ELSE p[i - Len(r)]
  BY <1>2, ConcatProperties
<1>4. Len(p) = m
  BY DEF m
<1>5. \A i \in 1 .. (n - 1) : i \in 1 .. (Len(r) + Len(p)) /\ i <= Len(r)
  BY <1>1, <1>2, <1>4
<1>6. \A i \in n .. (n - 1 + m) : /\ i \in 1 .. (Len(r) + Len(p)) /\ ~(i <= Len(r))
                                  /\ i - (n - 1) \in 1 .. m /\ i - Len(r) = i - (n - 1)
  BY <1>1, <1>2, <1>4
<1>7. \A i \in 1 .. (n - 1) : (r \o p)[i] = q[i + 1]
  BY <1>2, <1>3, <1>5
<1>8. \A i \in n .. (n - 1 + m) : (r \o p)[i] = p[i - (n - 1)]
  BY <1>3, <1>6
<1> QED
  BY <1>1, <1>2, <1>3, <1>4, <1>6, <1>7, <1>8 DEF r, n, m

LEMMA BreadthLevels ==
    ASSUME IsNetwork(net), WithinBounds(net, flow), alg \in BreadthFirst, Explored(net, flow, alg, k),
           Levelled(net, flow, k),
           KernelFields \subseteq DOMAIN k, k.queue # <<>>, NEW v, v = Head(k.queue),
           NEW fresh, fresh = Fresh(v), NEW s, BreadthFound(s, v, fresh)
    PROVE  Levelled(net, flow, s)
<1> DEFINE found == InArcOrder(v, fresh)
           n == Len(k.queue)
           m == Len(found)
<1>1. /\ found \in Seq(net.nodes) /\ Range(found) = fresh /\ Explored(net, flow, alg, s)
      /\ ReachedBy(net, alg, s.label) = ReachedBy(net, alg, k.label) \cup fresh
  BY BreadthExplores
<1>2. /\ s.label = [u \in net.nodes |-> IF u \in fresh THEN k.label[v] + 1 ELSE k.label[u]]
      /\ s.queue = Tail(k.queue) \o found
  BY DEF BreadthFound, KernelFields
<1>3. /\ k.label \in [net.nodes -> Nat \cup {NoLabel}]
      /\ s.label \in [net.nodes -> Nat \cup {NoLabel}]
      /\ k.queue \in Seq(net.nodes) /\ s.queue \in Seq(net.nodes)
      /\ \A u \in Range(k.queue) : u \in net.nodes /\ k.label[u] # NoLabel
      /\ \A u \in net.nodes : s.label[u] # NoLabel <=> k.label[u] # NoLabel \/ u \in fresh
      /\ NothingMissed(net, flow, 1, ReachedBy(net, alg, k.label), Range(k.queue), k.cursor)
  BY <1>1 DEF Explored, ReachedBy, BreadthFirst, WaitingIn, LeastOf
<1>4. \A u \in fresh : u \in net.nodes /\ k.label[u] = NoLabel
  BY DEF Fresh
<1>5. /\ n \in Nat \ {0} /\ m \in Nat
      /\ Len(s.queue) = n - 1 + m
      /\ \A i \in 1 .. (n - 1) : s.queue[i] = k.queue[i + 1]
      /\ \A i \in n .. (n - 1 + m) : s.queue[i] = found[i - (n - 1)] /\ i - (n - 1) \in 1 .. m
  <2> DEFINE q == k.queue
             S == net.nodes
  <2>1. q \in Seq(S) /\ q # <<>> /\ found \in Seq(S) /\ s.queue = Tail(q) \o found
    BY <1>1, <1>2, <1>3
  <2>2. n = Len(q)
    OBVIOUS
  <2> HIDE DEF found, q, S, n, m
  <2>3. /\ Len(q) \in Nat \ {0} /\ Len(found) \in Nat
        /\ Len(Tail(q) \o found) = Len(q) - 1 + Len(found)
        /\ \A i \in 1 .. (Len(q) - 1) : (Tail(q) \o found)[i] = q[i + 1]
        /\ \A i \in Len(q) .. (Len(q) - 1 + Len(found)) :
               (Tail(q) \o found)[i] = found[i - (Len(q) - 1)] /\ i - (Len(q) - 1) \in 1 .. Len(found)
    BY <2>1, TailThen
  <2>4. Len(found) = m
    BY DEF m
  <2>5. /\ n \in Nat \ {0} /\ m \in Nat
        /\ Len(s.queue) = n - 1 + m
        /\ \A i \in 1 .. (n - 1) : s.queue[i] = q[i + 1]
        /\ \A i \in n .. (n - 1 + m) : s.queue[i] = found[i - (n - 1)] /\ i - (n - 1) \in 1 .. m
    BY <2>1, <2>2, <2>3, <2>4
  <2> QED
    BY <2>5 DEF q
<1>6. /\ v = k.queue[1] /\ v \in Range(k.queue) /\ Range(k.queue) = Range(Tail(k.queue)) \cup {v}
      /\ \A i \in 1 .. n : k.queue[i] \in Range(k.queue)
  <2>1. k.queue \in Seq(net.nodes) /\ k.queue # <<>>
    BY <1>3
  <2>2. Head(k.queue) \in Range(k.queue) /\ Range(k.queue) = Range(Tail(k.queue)) \cup {Head(k.queue)}
    BY <2>1, RangeOfParts
  <2>3. Range(k.queue) = {k.queue[i] : i \in 1 .. n}
    BY <2>1, RangeEquality
  <2> QED
    BY <2>1, <2>2, <2>3
<1>7. \A i \in 1 .. m : found[i] \in fresh
  <2> HIDE DEF found
  <2>1. Range(found) = {found[i] : i \in 1 .. m}
    BY <1>1, RangeEquality
  <2> QED
    BY <1>1, <2>1
<1>8. Range(s.queue) = Range(Tail(k.queue)) \cup fresh
  <2> DEFINE rest == Tail(k.queue)
  <2>1. rest \in Seq(net.nodes) /\ s.queue = rest \o found
    BY <1>2, <1>3, RangeOfParts
  <2> HIDE DEF rest, found
  <2>2. Range(rest \o found) = Range(rest) \cup Range(found)
    BY <1>1, <2>1, RangeConcatenation
  <2> QED
    BY <1>1, <2>1, <2>2 DEF rest
<1>9. /\ \A a \in Arcs(net) :
             /\ Residual(net, flow, a) > 0 /\ k.label[ArcFrom(net, a)] # NoLabel
             /\ ArcFrom(net, a) \notin Range(k.queue)
             => k.label[ArcTo(net, a)] <= k.label[ArcFrom(net, a)] + 1
      /\ \A i, j \in 1 .. n : i <= j => k.label[k.queue[i]] <= k.label[k.queue[j]]
      /\ \A u \in net.nodes : k.label[u] # NoLabel =>
             \A i \in 1 .. n : k.label[u] <= k.label[k.queue[i]] + 1
  BY DEF Levelled
<1> DEFINE L == k.label[v]
<1>10. L \in Nat /\ v \in net.nodes /\ v \notin fresh
  BY <1>3, <1>4, <1>6 DEF NoLabel
<1>11. \A u \in net.nodes : /\ s.label[u] = IF u \in fresh THEN L + 1 ELSE k.label[u]
                            /\ k.label[u] \in Int
  BY <1>2, <1>3 DEF NoLabel
<1>12. \A u \in net.nodes : k.label[u] <= L + 1
  <2> TAKE u \in net.nodes
  <2>1. CASE k.label[u] = NoLabel
    BY <1>10, <2>1 DEF NoLabel
  <2>2. CASE k.label[u] # NoLabel
    <3>1. 1 \in 1 .. n /\ k.queue[1] = v
      BY <1>5, <1>6
    <3> QED
      BY <1>9, <2>2, <3>1
  <2> QED
    BY <2>1, <2>2
<1> HIDE DEF n, m, found, L
<1>13. ASSUME NEW i \in 1 .. (n - 1)
       PROVE  /\ i + 1 \in 1 .. n /\ s.queue[i] = k.queue[i + 1] /\ k.queue[i + 1] \in net.nodes
              /\ s.label[s.queue[i]] = k.label[k.queue[i + 1]]
              /\ L <= s.label[s.queue[i]] /\ s.label[s.queue[i]] <= L + 1
  <2>1. i + 1 \in 1 .. n /\ 1 \in 1 .. n /\ 1 <= i + 1
    BY <1>5
  <2>2. s.queue[i] = k.queue[i + 1] /\ k.queue[i + 1] \in Range(k.queue)
    BY <1>5, <1>6, <2>1
  <2>3. k.queue[i + 1] \in net.nodes /\ k.queue[i + 1] \notin fresh
    BY <1>3, <1>4, <2>2
  <2>4. k.label[k.queue[1]] <= k.label[k.queue[i + 1]]
    BY <1>9, <2>1
  <2> QED
    BY <1>6, <1>11, <1>12, <2>1, <2>2, <2>3, <2>4 DEF L
<1>14. ASSUME NEW i \in n .. (n - 1 + m) PROVE s.label[s.queue[i]] = L + 1
  BY <1>4, <1>5, <1>7, <1>11
<1>15. \A i \in 1 .. Len(s.queue) : i \in 1 .. (n - 1) \/ i \in n .. (n - 1 + m)
  BY <1>5
<1>16. ASSUME NEW i \in 1 .. Len(s.queue), NEW j \in 1 .. Len(s.queue), i <= j
       PROVE  s.label[s.queue[i]] <= s.label[s.queue[j]]
  <2>1. CASE j \in n .. (n - 1 + m)
    <3>1. s.label[s.queue[i]] <= L + 1
      BY <1>10, <1>13, <1>14, <1>15
    <3> QED
      BY <1>14, <2>1, <3>1
  <2>2. CASE j \in 1 .. (n - 1)
    <3>1. i \in 1 .. (n - 1) /\ i + 1 <= j + 1
      BY <1>5, <1>16, <2>2
    <3>2. i + 1 \in 1 .. n /\ j + 1 \in 1 .. n
      BY <1>13, <2>2, <3>1
    <3>3. k.label[k.queue[i + 1]] <= k.label[k.queue[j + 1]]
      BY <1>9, <3>1, <3>2
    <3> QED
      BY <1>13, <2>2, <3>1, <3>3
  <2> QED
    BY <1>15, <2>1, <2>2
<1>17. ASSUME NEW u \in net.nodes, NEW i \in 1 .. Len(s.queue)
       PROVE  s.label[u] <= s.label[s.queue[i]] + 1
  <2>1. s.label[u] <= L + 1 /\ s.label[u] \in Int
    BY <1>10, <1>11, <1>12
  <2>2. s.label[s.queue[i]] \in Int /\ L <= s.label[s.queue[i]]
    <3>1. CASE i \in 1 .. (n - 1)
      BY <1>11, <1>13, <3>1
    <3>2. CASE i \in n .. (n - 1 + m)
      BY <1>10, <1>14, <3>2
    <3> QED
      BY <1>15, <3>1, <3>2
  <2> QED
    BY <1>10, <2>1, <2>2
<1>18. ASSUME NEW a \in Arcs(net), Residual(net, flow, a) > 0, s.label[ArcFrom(net, a)] # NoLabel,
              ArcFrom(net, a) \notin Range(s.queue)
       PROVE  s.label[ArcTo(net, a)] <= s.label[ArcFrom(net, a)] + 1
  <2>1. ArcFrom(net, a) \in net.nodes /\ ArcTo(net, a) \in net.nodes
    BY ResidualIsInt
  <2>2. ArcFrom(net, a) \notin fresh /\ ArcFrom(net, a) \notin Range(Tail(k.queue))
        /\ k.label[ArcFrom(net, a)] # NoLabel
    BY <1>3, <1>8, <1>18, <2>1
  <2>3. s.label[ArcFrom(net, a)] = k.label[ArcFrom(net, a)]
    BY <1>11, <2>1, <2>2
  <2>4. CASE ArcFrom(net, a) = v
    BY <1>10, <1>11, <1>12, <2>1, <2>3, <2>4 DEF L
  <2>5. CASE ArcFrom(net, a) # v
    <3>1. ArcFrom(net, a) \notin Range(k.queue)
      BY <1>6, <2>2, <2>5
    <3>2. ArcTo(net, a) \notin fresh
      <4>1. PICK i \in 1 .. Len(net.outgoing[ArcFrom(net, a)]) : net.outgoing[ArcFrom(net, a)][i] = a
        BY ArcIsListed
      <4>2. ArcFrom(net, a) \in ReachedBy(net, alg, k.label)
        BY <2>1, <2>2 DEF ReachedBy, BreadthFirst
      <4>3. Residual(net, flow, a) >= 1
        BY <1>18, ResidualIsInt
      <4>4. ArcTo(net, a) \in ReachedBy(net, alg, k.label)
        BY <1>3, <3>1, <4>1, <4>2, <4>3 DEF NothingMissed
      <4> QED
        BY <1>4, <4>4 DEF ReachedBy, BreadthFirst
    <3>3. k.label[ArcTo(net, a)] <= k.label[ArcFrom(net, a)] + 1
      BY <1>9, <1>18, <2>2, <3>1
    <3> QED
      BY <1>11, <2>1, <2>3, <3>2, <3>3
  <2> QED
    BY <2>4, <2>5
<1> QED
  BY <1>16, <1>17, <1>18 DEF Levelled

\* A node's search passes an arc that leads up no level, or to a node that has
\* no way on.
NoWayOn(g, fl, label, cursor, v) ==
    \A j \in (cursor[v] + 1) .. Len(g.outgoing[v]) : ~LeadsOn(g, fl, "dinic", label, g.outgoing[v][j])

PassedLevels(g, fl, label, cursor) ==
    \A v \in g.nodes :
        /\ cursor[v] \in 0 .. Len(g.outgoing[v])
        /\ \A i \in 1 .. cursor[v] :
               \/ ~LeadsOn(g, fl, "dinic", label, g.outgoing[v][i])
               \/ /\ ArcTo(g, g.outgoing[v][i]) # g.sink
                  /\ NoWayOn(g, fl, label, cursor, ArcTo(g, g.outgoing[v][i]))

Blocking(g, fl, s) ==
    /\ s.label \in [g.nodes -> Nat \cup {NoLabel}] /\ s.cursor \in [g.nodes -> Nat]
    /\ s.node = g.source /\ s.label[g.source] # NoLabel
    /\ \A a \in Arcs(g) : Residual(g, fl, a) > 0 /\ s.label[ArcFrom(g, a)] # NoLabel =>
           s.label[ArcTo(g, a)] \in 0 .. (s.label[ArcFrom(g, a)] + 1)
    /\ InWork(g, fl, "dinic", s)
    /\ PassedLevels(g, fl, s.label, s.cursor)

DinicInv ==
    /\ net \in Networks /\ alg = "dinic"
    /\ SearchShape
    /\ Feasible(net, flow)
    /\ phase \in {"start", "search", "explore", "level", "certify", "done", "failed"}
    /\ phase = "explore" => /\ Explored(net, flow, alg, k) /\ Levelled(net, flow, k)
                            /\ k.node = net.source /\ k.path = <<>>
    /\ phase = "level" => Blocking(net, flow, k)
    /\ phase \in {"certify", "done"} => Value = LeastCut

\* In a phase arcs only stop leading up, and cursors only go on.
LEMMA PassesMore ==
    ASSUME NEW g, IsNetwork(g), NEW fl, NEW label, NEW cursor, PassedLevels(g, fl, label, cursor),
           NEW fl2, NEW cursor2,
           \A a \in Arcs(g) : LeadsOn(g, fl2, "dinic", label, a) => LeadsOn(g, fl, "dinic", label, a),
           \A v \in g.nodes : cursor2[v] \in cursor[v] .. Len(g.outgoing[v]),
           \A v \in g.nodes : \A i \in (cursor[v] + 1) .. cursor2[v] :
               \/ ~LeadsOn(g, fl, "dinic", label, g.outgoing[v][i])
               \/ /\ ArcTo(g, g.outgoing[v][i]) # g.sink
                  /\ NoWayOn(g, fl, label, cursor2, ArcTo(g, g.outgoing[v][i]))
    PROVE  PassedLevels(g, fl2, label, cursor2)
<1>1. \A v \in g.nodes : cursor[v] \in Nat /\ cursor2[v] \in Nat /\ Len(g.outgoing[v]) \in Nat
                         /\ cursor2[v] \in 0 .. Len(g.outgoing[v]) /\ cursor[v] <= cursor2[v]
  <2> TAKE v \in g.nodes
  <2>1. Len(g.outgoing[v]) \in Nat
    BY LenProperties DEF IsNetwork
  <2>2. cursor[v] \in 0 .. Len(g.outgoing[v])
    BY DEF PassedLevels
  <2> QED
    BY <2>1, <2>2
<1>2. \A v \in g.nodes : \A i \in 1 .. Len(g.outgoing[v]) :
          /\ g.outgoing[v][i] \in Arcs(g)
          /\ LeadsOn(g, fl2, "dinic", label, g.outgoing[v][i]) => LeadsOn(g, fl, "dinic", label, g.outgoing[v][i])
          /\ ArcTo(g, g.outgoing[v][i]) \in g.nodes
  <2> TAKE v \in g.nodes
  <2> TAKE i \in 1 .. Len(g.outgoing[v])
  <2>1. g.outgoing[v][i] \in Arcs(g)
    BY ListedArc
  <2>2. ArcTo(g, g.outgoing[v][i]) \in g.nodes
    <3> DEFINE a == g.outgoing[v][i]
    <3>1. a[1] \in Edges(g)
      BY <2>1 DEF Arcs
    <3> HIDE DEF a
    <3>2. g.from[a[1]] \in g.nodes /\ g.to[a[1]] \in g.nodes
      BY <3>1 DEF IsNetwork
    <3>3. ArcTo(g, a) \in g.nodes
      BY <3>2 DEF ArcTo
    <3> QED
      BY <3>3 DEF a
  <2> QED
    BY <2>1, <2>2
<1>3. ASSUME NEW v \in g.nodes, NoWayOn(g, fl, label, cursor2, v) PROVE NoWayOn(g, fl2, label, cursor2, v)
  <2> SUFFICES ASSUME NEW j \in (cursor2[v] + 1) .. Len(g.outgoing[v])
               PROVE  ~LeadsOn(g, fl2, "dinic", label, g.outgoing[v][j])
    BY DEF NoWayOn
  <2>1. j \in 1 .. Len(g.outgoing[v])
    BY <1>1
  <2> QED
    BY <1>2, <1>3, <2>1 DEF NoWayOn
<1>4. ASSUME NEW v \in g.nodes, NoWayOn(g, fl, label, cursor, v) PROVE NoWayOn(g, fl, label, cursor2, v)
  <2> SUFFICES ASSUME NEW j \in (cursor2[v] + 1) .. Len(g.outgoing[v])
               PROVE  ~LeadsOn(g, fl, "dinic", label, g.outgoing[v][j])
    BY DEF NoWayOn
  <2>1. j \in (cursor[v] + 1) .. Len(g.outgoing[v])
    BY <1>1
  <2> QED
    BY <1>4, <2>1 DEF NoWayOn
<1> SUFFICES ASSUME NEW v \in g.nodes, NEW i \in 1 .. cursor2[v]
             PROVE  \/ ~LeadsOn(g, fl2, "dinic", label, g.outgoing[v][i])
                    \/ /\ ArcTo(g, g.outgoing[v][i]) # g.sink
                       /\ NoWayOn(g, fl2, label, cursor2, ArcTo(g, g.outgoing[v][i]))
  BY <1>1 DEF PassedLevels
<1> DEFINE a == g.outgoing[v][i]
<1>5. i \in 1 .. Len(g.outgoing[v])
  BY <1>1
<1>6. \/ ~LeadsOn(g, fl, "dinic", label, a)
      \/ ArcTo(g, a) # g.sink /\ NoWayOn(g, fl, label, cursor2, ArcTo(g, a))
  <2>1. CASE i \in 1 .. cursor[v]
    <3>1. \/ ~LeadsOn(g, fl, "dinic", label, a)
          \/ ArcTo(g, a) # g.sink /\ NoWayOn(g, fl, label, cursor, ArcTo(g, a))
      BY <2>1 DEF PassedLevels
    <3> QED
      BY <1>2, <1>4, <1>5, <3>1
  <2>2. CASE i \in (cursor[v] + 1) .. cursor2[v]
    BY <2>2
  <2> QED
    BY <1>1, <2>1, <2>2
<1> QED
  BY <1>2, <1>3, <1>5, <1>6

LEMMA BeginLevels ==
    ASSUME DinicInv, BeginSearch
    PROVE  DinicInv'
<1>1. /\ net \in Networks /\ IsNetwork(net) /\ Feasible(net, flow) /\ k.delta \in Nat /\ alg = "dinic"
      /\ alg \in Searching
  BY NetworksAssumption DEF DinicInv, SearchShape, Searching, BreadthFirst
<1>2. k' = NewSearch(k.delta) /\ phase' = "explore" /\ UNCHANGED <<net, alg, flow>>
  BY <1>1 DEF BeginSearch, NewSearch, Quiet
<1>3. /\ Explored(net, flow, alg, k') /\ KernelFields \subseteq DOMAIN k' /\ k'.delta = k.delta
  BY <1>1, <1>2, BeginsExplored
<1>4. /\ k'.node = net.source /\ k'.path = <<>> /\ k'.queue = <<net.source>>
      /\ k'.label = [v \in net.nodes |-> IF v = net.source THEN 0 ELSE NoLabel]
  BY <1>1, <1>2 DEF NewSearch, Kernel
<1>5. Levelled(net, flow, k')
  <2>1. net.source \in net.nodes
    BY <1>1 DEF IsNetwork
  <2>2. Len(k'.queue) = 1 /\ k'.queue[1] = net.source /\ k'.queue \in Seq(net.nodes)
    <3> DEFINE q == <<net.source>>
    <3>1. q \in Seq(net.nodes) /\ Len(q) = 1 /\ q[1] = net.source
      BY <2>1, OneLong
    <3>2. k'.queue = q
      BY <1>4
    <3> HIDE DEF q
    <3> QED
      BY <3>1, <3>2
  <2>3. net.source \in Range(k'.queue)
    <3>1. Range(k'.queue) = {k'.queue[i] : i \in 1 .. 1}
      BY <2>2, RangeEquality
    <3> QED
      BY <2>2, <3>1
  <2>4. \A v \in net.nodes : k'.label[v] = IF v = net.source THEN 0 ELSE NoLabel
    BY <1>4
  <2>5. \A a \in Arcs(net) : ArcFrom(net, a) \in net.nodes
    BY <1>1, ResidualIsInt DEF Feasible
  <2> QED
    BY <2>1, <2>2, <2>3, <2>4, <2>5 DEF Levelled
<1> QED
  BY <1>1, <1>2, <1>3, <1>4, <1>5 DEF DinicInv, SearchShape

LEMMA ExploreLevels ==
    ASSUME DinicInv, ExploreBreadth
    PROVE  DinicInv'
<1> DEFINE v == Head(k.queue)
           fresh == Fresh(v)
<1>1. /\ net \in Networks /\ IsNetwork(net) /\ Feasible(net, flow) /\ k.delta \in Nat
      /\ WithinBounds(net, flow) /\ alg = "dinic" /\ alg \in BreadthFirst
      /\ phase = "explore" /\ Explored(net, flow, alg, k) /\ Levelled(net, flow, k)
      /\ k.node = net.source /\ k.path = <<>>
      /\ KernelFields \subseteq DOMAIN k /\ k.queue # <<>>
  BY NetworksAssumption DEF DinicInv, SearchShape, ExploreBreadth, BreadthFirst, Feasible
<1>2. BreadthFound(k', v, fresh) /\ phase' = "explore" /\ UNCHANGED <<net, alg, flow>>
  <2>1. /\ BreadthFound(k', v, fresh) /\ UNCHANGED <<net, alg, flow>>
        /\ phase' = IF alg = "edmonds-karp" /\ net.sink \in fresh THEN "augment" ELSE phase
    BY DEF ExploreBreadth, BreadthFound, Quiet
  <2>2. phase' = phase
    BY <1>1, <2>1
  <2> QED
    BY <1>1, <2>1, <2>2
<1>3. /\ KernelFields \subseteq DOMAIN k' /\ k'.delta = k.delta /\ Explored(net, flow, alg, k')
  BY <1>1, <1>2, BreadthExplores
<1>4. Levelled(net, flow, k')
  BY <1>1, <1>2, BreadthLevels
<1>5. k'.node = k.node /\ k'.path = k.path
  BY <1>1, <1>2 DEF BreadthFound, KernelFields
<1> QED
  BY <1>1, <1>2, <1>3, <1>4, <1>5 DEF DinicInv, SearchShape

LEMMA EndLevels ==
    ASSUME DinicInv, EndSearch
    PROVE  DinicInv'
<1>1. /\ net \in Networks /\ IsNetwork(net) /\ Feasible(net, flow) /\ k.delta \in Nat
      /\ WithinBounds(net, flow) /\ alg = "dinic"
      /\ phase = "explore" /\ Explored(net, flow, alg, k) /\ Levelled(net, flow, k)
      /\ k.node = net.source /\ k.path = <<>>
      /\ KernelFields \subseteq DOMAIN k
  BY NetworksAssumption DEF DinicInv, SearchShape, EndSearch, Feasible
<1>2. /\ k.queue = <<>> /\ UNCHANGED <<net, alg, flow, k>>
      /\ phase' = IF k.label[net.sink] # NoLabel THEN "level" ELSE "certify"
  BY <1>1 DEF EndSearch, Quiet
<1>3. Range(k.queue) = {}
  BY <1>2 DEF Range
<1>4. /\ k.label \in [net.nodes -> Nat \cup {NoLabel}] /\ k.cursor \in [net.nodes -> Nat]
      /\ Tree(net, flow, ReachedBy(net, alg, k.label), k.pred)
      /\ NothingMissed(net, flow, 1, ReachedBy(net, alg, k.label), {}, k.cursor)
      /\ \A v \in net.nodes : k.cursor[v] = 0
  BY <1>1, <1>3 DEF Explored, BreadthFirst, WaitingIn, LeastOf
<1>5. \A v \in net.nodes : v \in ReachedBy(net, alg, k.label) <=> k.label[v] # NoLabel
  BY <1>1 DEF ReachedBy
<1>6. CASE k.label[net.sink] = NoLabel
  <2>1. LeastOf(alg, k.delta) = 1 /\ net.sink \notin ReachedBy(net, alg, k.label)
        /\ ReachedBy(net, alg, k.label) \cap WaitingIn(net, alg, k) = {}
    BY <1>1, <1>3, <1>5, <1>6 DEF LeastOf, WaitingIn, IsNetwork
  <2>2. Value = LeastCut
    BY <1>1, <2>1, ExploredIsClosed DEF Value, LeastCut
  <2>3. Value' = LeastCut'
    BY <1>2, <2>2 DEF Value, LeastCut
  <2> QED
    BY <1>1, <1>2, <1>6, <2>3 DEF DinicInv, SearchShape
<1>7. CASE k.label[net.sink] # NoLabel
  <2>1. net.source \in net.nodes /\ k.label[net.source] # NoLabel
    BY <1>1, <1>4, <1>5 DEF Tree, IsNetwork
  <2>2. ASSUME NEW a \in Arcs(net), Residual(net, flow, a) > 0, k.label[ArcFrom(net, a)] # NoLabel
        PROVE  k.label[ArcTo(net, a)] \in 0 .. (k.label[ArcFrom(net, a)] + 1)
    <3>1. ArcFrom(net, a) \in net.nodes /\ ArcTo(net, a) \in net.nodes /\ Residual(net, flow, a) >= 1
      BY <1>1, <2>2, ResidualIsInt
    <3>2. PICK i \in 1 .. Len(net.outgoing[ArcFrom(net, a)]) : net.outgoing[ArcFrom(net, a)][i] = a
      BY <1>1, ArcIsListed
    <3>3. ArcTo(net, a) \in ReachedBy(net, alg, k.label)
      BY <1>4, <1>5, <2>2, <3>1, <3>2 DEF NothingMissed
    <3>4. k.label[ArcTo(net, a)] \in Nat /\ k.label[ArcFrom(net, a)] \in Nat
      BY <1>4, <1>5, <2>2, <3>1, <3>3
    <3>5. k.label[ArcTo(net, a)] <= k.label[ArcFrom(net, a)] + 1
      BY <1>1, <1>3, <2>2, <3>1 DEF Levelled
    <3> QED
      BY <3>4, <3>5
  <2>3. InWork(net, flow, "dinic", k)
    <3>1. k.path = <<>> /\ Len(<<>>) = 0 /\ <<>> \in Seq(Arcs(net))
      BY <1>1
    <3> QED
      BY <3>1 DEF InWork, WorkPath
  <2>4. PassedLevels(net, flow, k.label, k.cursor)
    <3>1. \A v \in net.nodes : k.cursor[v] = 0 /\ Len(net.outgoing[v]) \in Nat
      <4> TAKE v \in net.nodes
      <4>1. net.outgoing[v] \in Seq(Arcs(net))
        BY <1>1 DEF IsNetwork
      <4> QED
        BY <1>4, <4>1, LenProperties
    <3> QED
      BY <3>1 DEF PassedLevels
  <2>5. Blocking(net, flow, k)
    BY <1>1, <1>4, <2>1, <2>2, <2>3, <2>4 DEF Blocking
  <2> QED
    BY <1>1, <1>2, <1>7, <2>5 DEF DinicInv, SearchShape
<1> QED
  BY <1>6, <1>7

LEMMA AdvanceLevelStep ==
    ASSUME DinicInv, AdvanceLevel
    PROVE  DinicInv'
<1>1. /\ net \in Networks /\ IsNetwork(net) /\ Feasible(net, flow) /\ k.delta \in Nat
      /\ WithinBounds(net, flow) /\ alg = "dinic" /\ phase = "level" /\ Blocking(net, flow, k)
      /\ KernelFields \subseteq DOMAIN k /\ HasArc(End) /\ k' = Longer
      /\ UNCHANGED <<net, alg, flow, phase>>
  BY NetworksAssumption DEF DinicInv, SearchShape, AdvanceLevel, Feasible, Quiet
<1>2. /\ k.label \in [net.nodes -> Nat \cup {NoLabel}] /\ k.cursor \in [net.nodes -> Nat]
      /\ k.node = net.source /\ net.source \in net.nodes
      /\ InWork(net, flow, alg, k) /\ PassedLevels(net, flow, k.label, k.cursor)
  BY <1>1 DEF Blocking, IsNetwork
<1>3. k.label \in [net.nodes -> Int] /\ k.node \in net.nodes /\ alg # "generic"
  BY <1>1, <1>2 DEF NoLabel
<1>4. End \in net.nodes
  BY <1>1, <1>2, <1>3, EndIs
<1>5. k.cursor[End] \in 0 .. Len(net.outgoing[End])
  BY <1>2, <1>4 DEF PassedLevels
<1>6. k.cursor[End] <= Len(net.outgoing[End])
  BY <1>5
<1>7. /\ KernelFields \subseteq DOMAIN Longer
      /\ Longer.label = k.label /\ Longer.node = k.node
      /\ Longer.cursor = [k.cursor EXCEPT ![End] = Place(End) - 1]
      /\ InWork(net, flow, alg, Longer)
  BY <1>1, <1>2, <1>3, <1>6, LongerInWork
<1>8. /\ Place(End) \in (k.cursor[End] + 1) .. (Len(net.outgoing[End]) + 1)
      /\ \A j \in (k.cursor[End] + 1) .. (Place(End) - 1) :
             ~LeadsOn(net, flow, alg, k.label, net.outgoing[End][j])
  BY <1>1, <1>3, <1>4, <1>5, PlaceIsBetween
<1> DEFINE cursor2 == Longer.cursor
<1>9. \A v \in net.nodes : cursor2[v] = IF v = End THEN Place(End) - 1 ELSE k.cursor[v]
  BY <1>2, <1>4, <1>7
<1>10. \A v \in net.nodes : k.cursor[v] \in 0 .. Len(net.outgoing[v]) /\ Len(net.outgoing[v]) \in Nat
  <2> TAKE v \in net.nodes
  <2>1. net.outgoing[v] \in Seq(Arcs(net))
    BY <1>1 DEF IsNetwork
  <2> QED
    BY <1>2, <2>1, LenProperties DEF PassedLevels
<1> HIDE DEF cursor2
<1>11. \A v \in net.nodes : cursor2[v] \in k.cursor[v] .. Len(net.outgoing[v]) /\ cursor2[v] \in Nat
  BY <1>4, <1>8, <1>9, <1>10
<1>12. \A v \in net.nodes : \A i \in (k.cursor[v] + 1) .. cursor2[v] :
           ~LeadsOn(net, flow, "dinic", k.label, net.outgoing[v][i])
  <2> TAKE v \in net.nodes
  <2>1. CASE v = End
    BY <1>1, <1>8, <1>9, <2>1
  <2>2. CASE v # End
    <3>1. cursor2[v] = k.cursor[v] /\ k.cursor[v] \in Nat
      BY <1>9, <1>10, <2>2
    <3> QED
      BY <3>1
  <2> QED
    BY <2>1, <2>2
<1>13. PassedLevels(net, flow, k.label, cursor2)
  <2> DEFINE label == k.label
             cursor == k.cursor
  <2>1. /\ PassedLevels(net, flow, label, cursor)
        /\ \A v \in net.nodes : cursor2[v] \in cursor[v] .. Len(net.outgoing[v])
        /\ \A v \in net.nodes : \A i \in (cursor[v] + 1) .. cursor2[v] :
               ~LeadsOn(net, flow, "dinic", label, net.outgoing[v][i])
    BY <1>2, <1>11, <1>12
  <2> HIDE DEF label, cursor
  <2>2. PassedLevels(net, flow, label, cursor2)
    BY <1>1, <2>1, PassesMore
  <2> QED
    BY <2>2 DEF label
<1>14. cursor2 \in [net.nodes -> Nat]
  <2>1. DOMAIN cursor2 = net.nodes /\ cursor2 = [v \in net.nodes |-> cursor2[v]]
    BY <1>2, <1>7 DEF cursor2
  <2> QED
    BY <1>11, <2>1
<1>15. Blocking(net, flow, k')
  <2>1. k'.label = k.label /\ k'.node = k.node /\ k'.cursor = cursor2
    BY <1>1, <1>7 DEF cursor2
  <2>2. InWork(net, flow, "dinic", k')
    BY <1>1, <1>7
  <2> QED
    BY <1>1, <1>2, <1>13, <1>14, <2>1, <2>2 DEF Blocking
<1>16. k'.delta = k.delta
  BY <1>1 DEF Longer, KernelFields
<1> QED
  BY <1>1, <1>7, <1>15, <1>16 DEF DinicInv, SearchShape

LEMMA RetreatLevelStep ==
    ASSUME DinicInv, RetreatLevel
    PROVE  DinicInv'
<1>1. /\ net \in Networks /\ IsNetwork(net) /\ Feasible(net, flow) /\ k.delta \in Nat
      /\ WithinBounds(net, flow) /\ alg = "dinic" /\ phase = "level" /\ Blocking(net, flow, k)
      /\ KernelFields \subseteq DOMAIN k /\ ~HasArc(End) /\ End # net.sink
      /\ UNCHANGED <<net, alg, flow>>
      /\ IF k.path = <<>> THEN phase' = "search" /\ UNCHANGED k
         ELSE k' = Shorter([k EXCEPT !.cursor[End] = Place(End) - 1]) /\ UNCHANGED phase
  BY NetworksAssumption DEF DinicInv, SearchShape, RetreatLevel, Feasible, Quiet
<1>2. /\ k.label \in [net.nodes -> Nat \cup {NoLabel}] /\ k.cursor \in [net.nodes -> Nat]
      /\ k.node = net.source /\ net.source \in net.nodes
      /\ InWork(net, flow, alg, k) /\ PassedLevels(net, flow, k.label, k.cursor)
  BY <1>1 DEF Blocking, IsNetwork
<1>3. k.label \in [net.nodes -> Int] /\ k.node \in net.nodes /\ alg # "generic"
  BY <1>1, <1>2 DEF NoLabel
<1>4. End \in net.nodes
  BY <1>1, <1>2, <1>3, EndIs
<1>5. k.cursor[End] \in 0 .. Len(net.outgoing[End])
  BY <1>2, <1>4 DEF PassedLevels
<1>6. CASE k.path = <<>>
  <2>1. UNCHANGED <<net, alg, flow, k>> /\ phase' = "search"
    BY <1>1, <1>6
  <2> QED
    BY <1>1, <2>1 DEF DinicInv, SearchShape
<1>7. CASE k.path # <<>>
  <2> DEFINE w == ArcFrom(net, LastOf(k.path))
             cursor2 == k'.cursor
  <2>1. k' = Shorter([k EXCEPT !.cursor[End] = Place(End) - 1]) /\ phase' = "level"
    BY <1>1, <1>7
  <2>2. /\ Place(End) = Len(net.outgoing[End]) + 1
        /\ \A j \in (k.cursor[End] + 1) .. (Place(End) - 1) :
               ~LeadsOn(net, flow, alg, k.label, net.outgoing[End][j])
    BY <1>1, <1>3, <1>4, <1>5, PlaceIsBetween
  <2>3. /\ w \in net.nodes /\ w # End /\ k.cursor[w] + 1 \in 1 .. Len(net.outgoing[w])
        /\ net.outgoing[w][k.cursor[w] + 1] = LastOf(k.path) /\ ArcTo(net, LastOf(k.path)) = End
        /\ \A s : Retreated(s) => InWork(net, flow, alg, s)
    BY <1>1, <1>2, <1>3, <1>7, ShorterInWork
  <2> HIDE DEF w
  <2>4. /\ k'.label = k.label /\ k'.node = k.node /\ k'.path = Seqs!Front(k.path)
        /\ k'.delta = k.delta /\ KernelFields \subseteq DOMAIN k'
        /\ k'.cursor = [[k.cursor EXCEPT ![End] = Place(End) - 1] EXCEPT ![w] = @ + 1]
    BY <1>1, <2>1 DEF Shorter, KernelFields, w
  <2>5. /\ cursor2 \in [net.nodes -> Nat]
        /\ \A v \in net.nodes : cursor2[v] = IF v = End THEN Len(net.outgoing[End])
                                             ELSE IF v = w THEN k.cursor[w] + 1 ELSE k.cursor[v]
    <3>1. Len(net.outgoing[End]) \in Nat /\ Place(End) - 1 = Len(net.outgoing[End])
      <4>1. net.outgoing[End] \in Seq(Arcs(net))
        BY <1>1, <1>4 DEF IsNetwork
      <4>2. Len(net.outgoing[End]) \in Nat
        BY <4>1, LenProperties
      <4> QED
        BY <2>2, <4>2
    <3>2. [k.cursor EXCEPT ![End] = Place(End) - 1] \in [net.nodes -> Nat]
      BY <1>2, <1>4, <3>1
    <3> QED
      BY <1>2, <1>4, <2>3, <2>4, <3>1, <3>2
  <2> HIDE DEF cursor2
  <2>6. InWork(net, flow, alg, k')
    BY <2>3, <2>4, <2>5 DEF Retreated, w, cursor2
  <2>7. \A v \in net.nodes : k.cursor[v] \in 0 .. Len(net.outgoing[v]) /\ Len(net.outgoing[v]) \in Nat
    <3> TAKE v \in net.nodes
    <3>1. net.outgoing[v] \in Seq(Arcs(net))
      BY <1>1 DEF IsNetwork
    <3> QED
      BY <1>2, <3>1, LenProperties DEF PassedLevels
  <2>8. \A v \in net.nodes : cursor2[v] \in k.cursor[v] .. Len(net.outgoing[v])
    BY <1>4, <2>3, <2>5, <2>7
  <2>9. NoWayOn(net, flow, k.label, cursor2, End)
    <3>1. cursor2[End] = Len(net.outgoing[End]) /\ Len(net.outgoing[End]) \in Nat
      BY <1>4, <2>5, <2>7
    <3> QED
      BY <3>1 DEF NoWayOn
  <2>10. \A v \in net.nodes : \A i \in (k.cursor[v] + 1) .. cursor2[v] :
             \/ ~LeadsOn(net, flow, "dinic", k.label, net.outgoing[v][i])
             \/ /\ ArcTo(net, net.outgoing[v][i]) # net.sink
                /\ NoWayOn(net, flow, k.label, cursor2, ArcTo(net, net.outgoing[v][i]))
    <3> TAKE v \in net.nodes
    <3>1. CASE v = End
      <4>1. Place(End) - 1 = cursor2[End]
        BY <1>4, <2>2, <2>5, <2>7
      <4> QED
        BY <1>1, <2>2, <3>1, <4>1
    <3>2. CASE v = w
      <4>1. cursor2[v] = k.cursor[v] + 1 /\ k.cursor[v] \in Nat
        BY <2>3, <2>5, <2>7, <3>2
      <4>2. \A i \in (k.cursor[v] + 1) .. cursor2[v] : i = k.cursor[v] + 1
        BY <4>1
      <4> QED
        BY <1>1, <2>3, <2>9, <3>2, <4>2
    <3>3. CASE v # End /\ v # w
      <4>1. cursor2[v] = k.cursor[v] /\ k.cursor[v] \in Nat
        BY <2>5, <2>7, <3>3
      <4> QED
        BY <4>1
    <3> QED
      BY <3>1, <3>2, <3>3
  <2>11. PassedLevels(net, flow, k.label, cursor2)
    <3> DEFINE label == k.label
               cursor == k.cursor
    <3>1. /\ PassedLevels(net, flow, label, cursor)
          /\ \A v \in net.nodes : cursor2[v] \in cursor[v] .. Len(net.outgoing[v])
          /\ \A v \in net.nodes : \A i \in (cursor[v] + 1) .. cursor2[v] :
                 \/ ~LeadsOn(net, flow, "dinic", label, net.outgoing[v][i])
                 \/ /\ ArcTo(net, net.outgoing[v][i]) # net.sink
                    /\ NoWayOn(net, flow, label, cursor2, ArcTo(net, net.outgoing[v][i]))
      BY <1>2, <2>8, <2>10
    <3> HIDE DEF label, cursor
    <3>2. PassedLevels(net, flow, label, cursor2)
      BY <1>1, <3>1, PassesMore
    <3> QED
      BY <3>2 DEF label
  <2>12. Blocking(net, flow, k')
    <3>1. k'.cursor = cursor2 /\ InWork(net, flow, "dinic", k')
      BY <1>1, <2>6 DEF cursor2
    <3> QED
      BY <1>1, <1>2, <2>4, <2>5, <2>11, <3>1 DEF Blocking
  <2> QED
    BY <1>1, <2>1, <2>4, <2>12 DEF DinicInv, SearchShape
<1> QED
  BY <1>6, <1>7

\* A blocking path saturated: what becomes live leads down a level.
LEMMA AugmentLevelStep ==
    ASSUME DinicInv, AugmentLevel
    PROVE  DinicInv'
<1>1. /\ net \in Networks /\ IsNetwork(net) /\ Feasible(net, flow) /\ k.delta \in Nat
      /\ WithinBounds(net, flow) /\ alg = "dinic" /\ phase = "level" /\ Blocking(net, flow, k)
      /\ KernelFields \subseteq DOMAIN k /\ End = net.sink
      /\ UNCHANGED <<net, alg, phase>>
      /\ flow' = Augment(net, flow, k.path, Bottleneck(net, flow, k.path))
      /\ k' = [k EXCEPT !.path = <<>>]
  BY NetworksAssumption DEF DinicInv, SearchShape, AugmentLevel, Feasible, Quiet
<1>2. /\ k.label \in [net.nodes -> Nat \cup {NoLabel}] /\ k.cursor \in [net.nodes -> Nat]
      /\ k.node = net.source /\ net.source \in net.nodes /\ k.label[net.source] # NoLabel
      /\ InWork(net, flow, alg, k) /\ PassedLevels(net, flow, k.label, k.cursor)
      /\ \A a \in Arcs(net) : Residual(net, flow, a) > 0 /\ k.label[ArcFrom(net, a)] # NoLabel =>
             k.label[ArcTo(net, a)] \in 0 .. (k.label[ArcFrom(net, a)] + 1)
  BY <1>1 DEF Blocking, IsNetwork
<1>3. k.label \in [net.nodes -> Int] /\ k.node \in net.nodes
  BY <1>2 DEF NoLabel
<1> DEFINE rank == RankIn(net, alg, k.label)
           path == k.path
           cursor == k.cursor
           label == k.label
<1>4. /\ End = EndOf(net, k.path, k.node) /\ rank \in [net.nodes -> Int]
  BY <1>1, <1>2, <1>3, EndIs
<1>5. WorkPath(net, flow, path, net.source, rank, cursor) /\ EndOf(net, path, net.source) = net.sink
  BY <1>1, <1>2, <1>4 DEF InWork
<1>6. \A u \in net.nodes : rank[u] = label[u]
  BY <1>1 DEF RankIn
<1>7. flow' = Augment(net, flow, path, Bottleneck(net, flow, path))
  BY <1>1
<1>8. rank \in [net.nodes -> Int]
  BY <1>4
<1> HIDE DEF rank, path, cursor
<1>9. /\ path # <<>> /\ Bottleneck(net, flow, path) \in Nat
      /\ \A i \in 1 .. Len(path) : Bottleneck(net, flow, path) <= Residual(net, flow, path[i])
      /\ Feasible(net, Augment(net, flow, path, Bottleneck(net, flow, path)))
  BY <1>1, <1>5, <1>8, WorkKeepsFlow
<1>10. \A b \in Arcs(net) : Residual(net, flow', b) > 0 =>
           \/ Residual(net, flow, b) > 0
           \/ rank[ArcFrom(net, b)] = rank[ArcTo(net, b)] + 1 /\ rank[net.source] <= rank[ArcTo(net, b)]
  <2> DEFINE amount == Bottleneck(net, flow, path)
             new == flow'
             start == net.source
  <2>1. /\ amount \in Nat /\ new = Augment(net, flow, path, amount) /\ path # <<>> /\ start \in net.nodes
        /\ \A i \in 1 .. Len(path) : amount <= Residual(net, flow, path[i])
        /\ WorkPath(net, flow, path, start, rank, cursor)
    BY <1>2, <1>5, <1>7, <1>9
  <2> HIDE DEF amount, new, start
  <2>2. \A b \in Arcs(net) : Residual(net, new, b) > 0 =>
           \/ Residual(net, flow, b) > 0
           \/ rank[ArcFrom(net, b)] = rank[ArcTo(net, b)] + 1 /\ rank[start] <= rank[ArcTo(net, b)]
    BY <1>1, <1>8, <2>1, WorkAugment
  <2> QED
    BY <2>2 DEF new, start
<1>11. \A b \in Arcs(net) : /\ ArcFrom(net, b) \in net.nodes /\ ArcTo(net, b) \in net.nodes
                            /\ label[ArcFrom(net, b)] \in Int /\ label[ArcTo(net, b)] \in Int
                            /\ Residual(net, flow', b) > 0 =>
                                 \/ Residual(net, flow, b) > 0
                                 \/ /\ label[ArcFrom(net, b)] = label[ArcTo(net, b)] + 1
                                    /\ label[net.source] <= label[ArcTo(net, b)]
  <2> TAKE b \in Arcs(net)
  <2>1. ArcFrom(net, b) \in net.nodes /\ ArcTo(net, b) \in net.nodes
    BY <1>1, ResidualIsInt
  <2> QED
    BY <1>2, <1>3, <1>6, <1>10, <2>1
<1>12. \A a \in Arcs(net) : Residual(net, flow', a) > 0 /\ label[ArcFrom(net, a)] # NoLabel =>
           label[ArcTo(net, a)] \in 0 .. (label[ArcFrom(net, a)] + 1)
  <2> SUFFICES ASSUME NEW a \in Arcs(net), Residual(net, flow', a) > 0, label[ArcFrom(net, a)] # NoLabel
               PROVE  label[ArcTo(net, a)] \in 0 .. (label[ArcFrom(net, a)] + 1)
    OBVIOUS
  <2>1. CASE Residual(net, flow, a) > 0
    BY <1>2, <2>1
  <2>2. CASE /\ label[ArcFrom(net, a)] = label[ArcTo(net, a)] + 1
             /\ label[net.source] <= label[ArcTo(net, a)]
    <3>1. label[net.source] \in Nat
      BY <1>2
    <3> QED
      BY <1>11, <2>2, <3>1
  <2> QED
    BY <1>11, <2>1, <2>2
<1>13. \A a \in Arcs(net) : LeadsOn(net, flow', "dinic", label, a) => LeadsOn(net, flow, "dinic", label, a)
  <2> SUFFICES ASSUME NEW a \in Arcs(net), Residual(net, flow', a) > 0,
                      label[ArcTo(net, a)] = label[ArcFrom(net, a)] + 1
               PROVE  Residual(net, flow, a) > 0
    BY DEF LeadsOn
  <2> QED
    BY <1>11
<1> HIDE DEF label
<1>14. PassedLevels(net, flow', label, cursor)
  <2>1. PassedLevels(net, flow, label, cursor)
    BY <1>2 DEF label, cursor
  <2>2. \A v \in net.nodes : cursor[v] \in cursor[v] .. Len(net.outgoing[v])
    <3> TAKE v \in net.nodes
    <3>1. Len(net.outgoing[v]) \in Nat
      BY <1>1, LenProperties DEF IsNetwork
    <3>2. cursor[v] \in 0 .. Len(net.outgoing[v])
      BY <2>1 DEF PassedLevels
    <3> QED
      BY <3>1, <3>2
  <2>3. \A v \in net.nodes : \A i \in (cursor[v] + 1) .. cursor[v] : FALSE
    <3> TAKE v \in net.nodes
    <3>1. cursor[v] \in Int
      BY <1>2 DEF cursor
    <3> QED
      BY <3>1
  <2> QED
    BY <1>1, <1>13, <2>1, <2>2, <2>3, PassesMore
<1>15. k'.label = label /\ k'.cursor = cursor /\ k'.node = k.node /\ k'.path = <<>> /\ k'.delta = k.delta
       /\ KernelFields \subseteq DOMAIN k'
  BY <1>1 DEF KernelFields, label, cursor
<1>16. InWork(net, flow', "dinic", k')
  <2>1. k'.path = <<>> /\ Len(<<>>) = 0 /\ <<>> \in Seq(Arcs(net))
    BY <1>15
  <2> QED
    BY <2>1 DEF InWork, WorkPath
<1>17. Blocking(net, flow', k')
  <2>1. label \in [net.nodes -> Nat \cup {NoLabel}] /\ cursor \in [net.nodes -> Nat] /\ label[net.source] # NoLabel
    BY <1>2 DEF label, cursor
  <2> QED
    BY <1>2, <1>12, <1>14, <1>15, <1>16, <2>1 DEF Blocking
<1> QED
  BY <1>1, <1>7, <1>9, <1>15, <1>17 DEF DinicInv, SearchShape

(***************************************************************************)
(* Distance labels. While a path is in work the labels fall by at most one *)
(* along every live arc, as heights do, and the source is nearer than the  *)
(* number of nodes.                                                        *)
(***************************************************************************)
Climbing(g, fl, al, s) ==
    /\ s.label \in [g.nodes -> 0 .. Cardinality(g.nodes)] /\ s.cursor \in [g.nodes -> Nat]
    /\ s.node = g.source /\ s.label[g.source] < Cardinality(g.nodes) /\ s.label[g.sink] = 0
    /\ Descends(g, fl, s.label)
    /\ Counted(g, s.label, s.counts)
    /\ Passed(g, fl, s.label, s.cursor)
    /\ InWork(g, fl, al, s)

LabelInv ==
    /\ net \in Networks /\ alg \in Labelling
    /\ KernelFields \subseteq DOMAIN k
    /\ Feasible(net, flow)
    /\ phase \in {"start", "label", "certify", "done", "failed"}
    /\ phase = "start" => k = Kernel(net)
    /\ phase = "label" => Climbing(net, flow, alg, k)
    /\ phase \in {"certify", "done"} => Value = LeastCut

\* One node's label changes.
LEMMA Recounts ==
    ASSUME IsNetwork(net), NEW label, NEW counts, Counted(net, label, counts),
           NEW v \in net.nodes, NEW new, NEW label2, label2 = [label EXCEPT ![v] = new],
           DOMAIN label = net.nodes
    PROVE  Counted(net, label2, Recount(counts, label[v], new))
<1> DEFINE up == {u \in net.nodes : FALSE}
           other == RaisedLabel(net, label, v, new, up)
           recount == RaisedCount(net, label, counts, v, new, up)
<1>1. up = {} /\ up \in SUBSET net.nodes /\ Cardinality(up) = 0
  BY FS_EmptySet
<1> HIDE DEF up
<1>2. Counted(net, other, recount)
  BY <1>1, RaisedCounts
<1>3. other = label2
  BY <1>1 DEF RaisedLabel
<1>4. DOMAIN counts = 0 .. (2 * Cardinality(net.nodes)) /\ Cardinality(net.nodes) \in Nat
  BY NodesCount DEF Counted
<1>5. ASSUME NEW i \in DOMAIN counts
      PROVE  recount[i] = Recount(counts, label[v], new)[i]
  <2>1. counts[i] \in Int
    <3>1. counts[i] = Cardinality({u \in net.nodes : label[u] = i})
      BY <1>4, <1>5 DEF Counted
    <3>2. IsFiniteSet({u \in net.nodes : label[u] = i})
      BY FS_Subset DEF IsNetwork
    <3> QED
      BY <3>1, <3>2, FS_CardinalityType
  <2>2. Cardinality({u \in up \cup {v} : label[u] = i}) = IF i = label[v] THEN 1 ELSE 0
    <3>1. CASE i = label[v]
      <4>1. {u \in up \cup {v} : label[u] = i} = {v}
        BY <1>1, <3>1
      <4> QED
        BY <3>1, <4>1, FS_Singleton
    <3>2. CASE i # label[v]
      <4>1. {u \in up \cup {v} : label[u] = i} = {}
        BY <1>1, <3>2
      <4> QED
        BY <3>2, <4>1, FS_EmptySet
    <3> QED
      BY <3>1, <3>2
  <2>3. recount[i] = counts[i] - Cardinality({u \in up \cup {v} : label[u] = i})
                         + (IF i = Cardinality(net.nodes) + 1 THEN Cardinality(up) ELSE 0)
                         + (IF i = new /\ v \notin up THEN 1 ELSE 0)
    BY DEF RaisedCount
  <2>4. Recount(counts, label[v], new)[i]
            = counts[i] - (IF i = label[v] THEN 1 ELSE 0) + (IF i = new THEN 1 ELSE 0)
    BY DEF Recount
  <2> HIDE DEF recount
  <2> QED
    BY <1>1, <2>1, <2>2, <2>3, <2>4
<1>6. recount = Recount(counts, label[v], new)
  <2>1. /\ DOMAIN recount = DOMAIN counts /\ DOMAIN Recount(counts, label[v], new) = DOMAIN counts
        /\ recount = [i \in DOMAIN recount |-> recount[i]]
        /\ Recount(counts, label[v], new)
               = [i \in DOMAIN Recount(counts, label[v], new) |-> Recount(counts, label[v], new)[i]]
    BY DEF RaisedCount, Recount
  <2> HIDE DEF recount
  <2> QED
    BY <1>5, <2>1
<1> QED
  BY <1>2, <1>3, <1>6

LEMMA InitializeLabelsStep ==
    ASSUME LabelInv, InitializeLabels
    PROVE  LabelInv'
<1>1. /\ net \in Networks /\ IsNetwork(net) /\ Feasible(net, flow) /\ WithinBounds(net, flow)
      /\ alg \in Labelling /\ k = Kernel(net)
  BY NetworksAssumption DEF LabelInv, InitializeLabels, Feasible
<1>2. N = Cardinality(net.nodes) /\ N \in Nat /\ N >= 2
  BY <1>1, NodesCount DEF N
<1>3. \A a \in Arcs(net) : ArcFrom(net, a) \in net.nodes /\ ArcTo(net, a) \in net.nodes
  BY <1>1, ResidualIsInt
<1> DEFINE far == IF alg = "sap" THEN [v \in net.nodes |-> 0] ELSE SinkDistance({})
           label == [v \in net.nodes |-> IF far[v] = NoLabel THEN N ELSE far[v]]
           counts == [i \in DOMAIN k.counts |-> Cardinality({v \in net.nodes : label[v] = i})]
<1>4. /\ k' = [k EXCEPT !.label = label, !.counts = counts]
      /\ phase' = IF label[net.source] < N THEN "label" ELSE "certify"
      /\ UNCHANGED <<net, alg, flow>>
  <2> DEFINE Labelled(f) == [v \in net.nodes |-> IF f[v] = NoLabel THEN N ELSE f[v]]
             Counts(l) == [i \in DOMAIN k.counts |-> Cardinality({v \in net.nodes : l[v] = i})]
  <2>1. /\ \E f \in {far} : \E l \in {Labelled(f)} :
               /\ k' = [k EXCEPT !.label = l, !.counts = Counts(l)]
               /\ phase' = IF l[net.source] < N THEN "label" ELSE "certify"
        /\ UNCHANGED <<net, alg, flow>>
    BY DEF InitializeLabels, Quiet
  <2>2. label = Labelled(far) /\ counts = Counts(label)
    OBVIOUS
  <2> HIDE DEF far, label, counts, Labelled, Counts
  <2> QED
    BY <2>1, <2>2
<1>5. far \in [net.nodes -> NoLabel .. (N - 1)] /\ far[net.sink] = 0 /\ net.sink \in net.nodes
      /\ \A a \in Arcs(net) :
             Residual(net, flow, a) > 0 /\ far[ArcTo(net, a)] # NoLabel =>
                 /\ far[ArcFrom(net, a)] # NoLabel
                 /\ far[ArcFrom(net, a)] <= far[ArcTo(net, a)] + 1
  <2>1. net.sink \in net.nodes
    BY <1>1 DEF IsNetwork
  <2>2. CASE alg = "sap"
    BY <1>2, <1>3, <2>1, <2>2 DEF NoLabel
  <2>3. CASE alg # "sap"
    <3>1. far = SinkDistance({})
      BY <2>3
    <3> HIDE DEF far
    <3> DEFINE blocked == {}
    <3>2. \A a \in Arcs(net) : ArcFrom(net, a) \notin blocked
      OBVIOUS
    <3>3. far = SinkDistance(blocked)
      BY <3>1
    <3> HIDE DEF blocked
    <3>4. /\ far \in [net.nodes -> NoLabel .. (N - 1)] /\ far[net.sink] = 0
          /\ \A a \in Arcs(net) :
                 Residual(net, flow, a) > 0 /\ ArcFrom(net, a) \notin blocked /\ far[ArcTo(net, a)] # NoLabel =>
                     /\ far[ArcFrom(net, a)] # NoLabel
                     /\ far[ArcFrom(net, a)] <= far[ArcTo(net, a)] + 1
      BY <1>1, <3>3, SinkDistanceFalls
    <3> QED
      BY <2>1, <3>2, <3>4
  <2> QED
    BY <2>2, <2>3
<1>6. \A v \in net.nodes : label[v] = IF far[v] = NoLabel THEN N ELSE far[v]
  OBVIOUS
<1>7. DOMAIN label = net.nodes /\ label = [v \in net.nodes |-> label[v]]
  OBVIOUS
<1>8. Counted(net, label, counts)
  <2>1. DOMAIN k.counts = 0 .. (2 * Cardinality(net.nodes))
    BY <1>1 DEF Kernel
  <2> QED
    BY <2>1 DEF Counted
<1> HIDE DEF far, label, counts
<1>9. /\ label \in [net.nodes -> 0 .. N] /\ label[net.sink] = 0
  <2>1. \A v \in net.nodes : label[v] \in 0 .. N
    BY <1>2, <1>5, <1>6 DEF NoLabel
  <2> QED
    BY <1>5, <1>6, <1>7, <2>1 DEF NoLabel
<1>10. Descends(net, flow, label)
  <2>1. ASSUME NEW a \in Arcs(net), Residual(net, flow, a) > 0
        PROVE  label[ArcFrom(net, a)] <= label[ArcTo(net, a)] + 1
    <3>1. label[ArcFrom(net, a)] \in 0 .. N /\ label[ArcTo(net, a)] \in 0 .. N
      BY <1>3, <1>9
    <3>2. CASE far[ArcTo(net, a)] = NoLabel
      BY <1>2, <1>3, <1>6, <3>1, <3>2
    <3>3. CASE far[ArcTo(net, a)] # NoLabel
      BY <1>3, <1>5, <1>6, <2>1, <3>3
    <3> QED
      BY <3>2, <3>3
  <2>2. \A v \in net.nodes : label[v] \in Int
    BY <1>2, <1>9
  <2> QED
    BY <2>1, <2>2 DEF Descends
<1>11. /\ KernelFields \subseteq DOMAIN k' /\ k'.label = label /\ k'.counts = counts
       /\ k'.cursor = [v \in net.nodes |-> 0] /\ k'.node = net.source /\ k'.path = <<>>
  BY <1>1, <1>4 DEF Kernel, KernelFields
<1>12. CASE label[net.source] < N
  <2>1. InWork(net, flow, alg, k')
    <3>1. k'.path = <<>> /\ Len(<<>>) = 0 /\ <<>> \in Seq(Arcs(net))
      BY <1>11
    <3> QED
      BY <3>1 DEF InWork, WorkPath
  <2>2. Passed(net, flow, label, k'.cursor) /\ k'.cursor \in [net.nodes -> Nat]
    <3>1. \A v \in net.nodes : k'.cursor[v] = 0 /\ Len(net.outgoing[v]) \in Nat
      <4> TAKE v \in net.nodes
      <4>1. net.outgoing[v] \in Seq(Arcs(net))
        BY <1>1 DEF IsNetwork
      <4> QED
        BY <1>11, <4>1, LenProperties
    <3> QED
      BY <1>11, <3>1 DEF Passed
  <2>3. Climbing(net, flow, alg, k')
    BY <1>2, <1>8, <1>9, <1>10, <1>11, <1>12, <2>1, <2>2 DEF Climbing
  <2> QED
    BY <1>1, <1>4, <1>11, <1>12, <2>3 DEF LabelInv
<1>13. CASE ~(label[net.source] < N)
  <2>1. net.source \in net.nodes
    BY <1>1 DEF IsNetwork
  <2>2. label[net.source] = N
    BY <1>2, <1>9, <1>13, <2>1
  <2>3. ValidHeights(net, flow, label)
    <3>1. label \in [net.nodes -> 0 .. (2 * N)]
      BY <1>2, <1>9
    <3> QED
      BY <1>2, <1>9, <1>10, <2>2, <3>1 DEF ValidHeights, Descends
  <2>4. Value = LeastCut
    BY <1>1, <2>3, HeightsCertify DEF Feasible, Value, LeastCut
  <2>5. Value' = LeastCut'
    BY <1>4, <2>4 DEF Value, LeastCut
  <2> QED
    BY <1>1, <1>4, <1>11, <1>13, <2>5 DEF LabelInv
<1> QED
  BY <1>12, <1>13

\* What Climbing says, in the terms of the lemmas about paths in work.
LEMMA ClimbingIs ==
    ASSUME LabelInv, phase = "label"
    PROVE  /\ net \in Networks /\ IsNetwork(net) /\ Feasible(net, flow) /\ WithinBounds(net, flow)
           /\ alg \in Labelling /\ alg # "generic" /\ alg # "dinic"
           /\ KernelFields \subseteq DOMAIN k /\ Climbing(net, flow, alg, k)
           /\ N = Cardinality(net.nodes) /\ N \in Nat /\ N >= 2
           /\ k.label \in [net.nodes -> 0 .. N] /\ k.label \in [net.nodes -> Int]
           /\ k.cursor \in [net.nodes -> Nat]
           /\ k.node = net.source /\ net.source \in net.nodes /\ net.sink \in net.nodes
           /\ Descends(net, flow, k.label) /\ Passed(net, flow, k.label, k.cursor)
           /\ Counted(net, k.label, k.counts)
           /\ InWork(net, flow, alg, k) /\ End \in net.nodes /\ End = EndOf(net, k.path, k.node)
           /\ RankIn(net, alg, k.label) = [v \in net.nodes |-> -k.label[v]]
           /\ Rising(net, k.path, k.node, RankIn(net, alg, k.label))
           /\ \A v \in net.nodes : k.cursor[v] \in 0 .. Len(net.outgoing[v]) /\ Len(net.outgoing[v]) \in Nat
<1>1. /\ net \in Networks /\ IsNetwork(net) /\ Feasible(net, flow) /\ WithinBounds(net, flow)
      /\ alg \in Labelling /\ KernelFields \subseteq DOMAIN k /\ Climbing(net, flow, alg, k)
  BY NetworksAssumption DEF LabelInv, Feasible
<1>2. alg # "generic" /\ alg # "dinic"
  BY <1>1 DEF Labelling
<1>3. N = Cardinality(net.nodes) /\ N \in Nat /\ N >= 2
  BY <1>1, NodesCount DEF N
<1>4. /\ k.label \in [net.nodes -> 0 .. N] /\ k.cursor \in [net.nodes -> Nat]
      /\ k.node = net.source /\ net.source \in net.nodes /\ net.sink \in net.nodes
      /\ Descends(net, flow, k.label) /\ Passed(net, flow, k.label, k.cursor)
      /\ Counted(net, k.label, k.counts)
      /\ InWork(net, flow, alg, k)
  BY <1>1, <1>3 DEF Climbing, IsNetwork
<1>5. k.label \in [net.nodes -> Int]
  BY <1>3, <1>4
<1>6. /\ End \in net.nodes /\ End = EndOf(net, k.path, k.node)
      /\ Rising(net, k.path, k.node, RankIn(net, alg, k.label))
  BY <1>1, <1>4, <1>5, EndIs
<1>7. RankIn(net, alg, k.label) = [v \in net.nodes |-> -k.label[v]]
  BY <1>2 DEF RankIn
<1>8. \A v \in net.nodes : k.cursor[v] \in 0 .. Len(net.outgoing[v]) /\ Len(net.outgoing[v]) \in Nat
  <2> TAKE v \in net.nodes
  <2>1. net.outgoing[v] \in Seq(Arcs(net))
    BY <1>1 DEF IsNetwork
  <2> QED
    BY <1>4, <2>1, LenProperties DEF Passed
<1> QED
  BY <1>1, <1>2, <1>3, <1>4, <1>5, <1>6, <1>7, <1>8

LEMMA AdvanceLabelStep ==
    ASSUME LabelInv, AdvanceLabel
    PROVE  LabelInv'
<1>1. phase = "label" /\ HasArc(End) /\ k' = Longer /\ UNCHANGED <<net, alg, flow, phase>>
  BY DEF AdvanceLabel, Quiet
<1>2. /\ net \in Networks /\ IsNetwork(net) /\ Feasible(net, flow) /\ WithinBounds(net, flow)
      /\ alg \in Labelling /\ alg # "generic" /\ alg # "dinic"
      /\ KernelFields \subseteq DOMAIN k /\ Climbing(net, flow, alg, k)
      /\ k.label \in [net.nodes -> Int] /\ k.cursor \in [net.nodes -> Nat]
      /\ k.node = net.source /\ net.source \in net.nodes
      /\ Passed(net, flow, k.label, k.cursor) /\ InWork(net, flow, alg, k) /\ End \in net.nodes
      /\ \A v \in net.nodes : k.cursor[v] \in 0 .. Len(net.outgoing[v]) /\ Len(net.outgoing[v]) \in Nat
  BY <1>1, ClimbingIs
<1>3. k.cursor[End] \in 0 .. Len(net.outgoing[End]) /\ k.cursor[End] <= Len(net.outgoing[End])
  BY <1>2
<1>4. /\ KernelFields \subseteq DOMAIN Longer
      /\ Longer.label = k.label /\ Longer.node = k.node /\ Longer.counts = k.counts
      /\ Longer.cursor = [k.cursor EXCEPT ![End] = Place(End) - 1]
      /\ InWork(net, flow, alg, Longer)
  BY <1>1, <1>2, <1>3, LongerInWork
<1>5. /\ Place(End) \in (k.cursor[End] + 1) .. (Len(net.outgoing[End]) + 1)
      /\ \A j \in (k.cursor[End] + 1) .. (Place(End) - 1) :
             ~LeadsOn(net, flow, alg, k.label, net.outgoing[End][j])
      /\ Place(End) \in 1 .. Len(net.outgoing[End])
  BY <1>1, <1>2, <1>3, PlaceIsBetween
<1> DEFINE cursor2 == Longer.cursor
<1>6. /\ \A v \in net.nodes : cursor2[v] = IF v = End THEN Place(End) - 1 ELSE k.cursor[v]
      /\ cursor2 \in [net.nodes -> Nat]
  BY <1>2, <1>4, <1>5
<1> HIDE DEF cursor2
<1>7. Passed(net, flow, k.label, cursor2)
  <2> SUFFICES ASSUME NEW v \in net.nodes
               PROVE  /\ cursor2[v] \in 0 .. Len(net.outgoing[v])
                      /\ \A i \in 1 .. cursor2[v] :
                             ~(/\ Residual(net, flow, net.outgoing[v][i]) > 0
                               /\ k.label[v] = k.label[ArcTo(net, net.outgoing[v][i])] + 1)
    BY DEF Passed
  <2>1. cursor2[v] \in 0 .. Len(net.outgoing[v])
    BY <1>2, <1>5, <1>6
  <2>2. ASSUME NEW i \in 1 .. cursor2[v]
        PROVE  ~(/\ Residual(net, flow, net.outgoing[v][i]) > 0
                 /\ k.label[v] = k.label[ArcTo(net, net.outgoing[v][i])] + 1)
    <3>1. CASE i <= k.cursor[v]
      <4>1. i \in 1 .. k.cursor[v]
        BY <1>2, <3>1
      <4> QED
        BY <1>2, <4>1 DEF Passed
    <3>2. CASE ~(i <= k.cursor[v])
      <4>1. v = End /\ i \in (k.cursor[End] + 1) .. (Place(End) - 1) /\ i \in 1 .. Len(net.outgoing[v])
        BY <1>2, <1>5, <1>6, <2>1, <3>2
      <4>2. ArcFrom(net, net.outgoing[v][i]) = v
        BY <1>2, <4>1, ListedArc
      <4> QED
        BY <1>2, <1>5, <4>1, <4>2 DEF LeadsOn
    <3> QED
      BY <3>1, <3>2
  <2> QED
    BY <2>1, <2>2
<1>8. k'.label = k.label /\ k'.node = k.node /\ k'.counts = k.counts /\ k'.cursor = cursor2
      /\ InWork(net, flow, alg, k') /\ KernelFields \subseteq DOMAIN k'
  BY <1>1, <1>4 DEF cursor2
<1>9. Climbing(net, flow, alg, k')
  BY <1>2, <1>6, <1>7, <1>8 DEF Climbing
<1> QED
  BY <1>1, <1>2, <1>8, <1>9 DEF LabelInv

\* The path keeps what comes before its first saturated arc, which is passed.
LEMMA AugmentLabelStep ==
    ASSUME LabelInv, AugmentLabel
    PROVE  LabelInv'
<1> DEFINE rank == RankIn(net, alg, k.label)
           path == k.path
           cursor == k.cursor
           label == k.label
           start == net.source
           amount == Bottleneck(net, flow, k.path)
           new == flow'
           I == {j \in 1 .. Len(k.path) : R(k.path[j]) = amount}
           i == Seqs!SelectInSeq(k.path, LAMBDA a : R(a) = amount)
           w == ArcFrom(net, k.path[i])
           n == Len(k.path)
<1>1. /\ phase = "label" /\ End = net.sink /\ UNCHANGED <<net, alg, phase>>
      /\ flow' = Augment(net, flow, k.path, amount)
      /\ k' = [k EXCEPT !.path = SubSeq(@, 1, i - 1), !.cursor[w] = @ + 1]
  <2> DEFINE FirstOf(x) == Seqs!SelectInSeq(k.path, LAMBDA a : R(a) = x)
  <2>1. /\ phase = "label" /\ End = net.sink /\ UNCHANGED <<net, alg, phase>>
        /\ \E x \in {amount} : \E j \in {FirstOf(x)} :
               /\ flow' = Augment(net, flow, k.path, x)
               /\ k' = [k EXCEPT !.path = SubSeq(@, 1, j - 1),
                                 !.cursor[ArcFrom(net, k.path[j])] = @ + 1]
    BY DEF AugmentLabel, Quiet
  <2>2. i = FirstOf(amount) /\ w = ArcFrom(net, k.path[i])
    OBVIOUS
  <2> HIDE DEF amount, i, w, FirstOf
  <2> QED
    BY <2>1, <2>2
<1>2. /\ net \in Networks /\ IsNetwork(net) /\ Feasible(net, flow) /\ WithinBounds(net, flow)
      /\ alg \in Labelling /\ KernelFields \subseteq DOMAIN k /\ Climbing(net, flow, alg, k)
      /\ label \in [net.nodes -> Int] /\ cursor \in [net.nodes -> Nat]
      /\ k.node = start /\ start \in net.nodes
      /\ Descends(net, flow, label) /\ Passed(net, flow, label, cursor)
      /\ WorkPath(net, flow, path, start, rank, cursor) /\ EndOf(net, path, start) = net.sink
      /\ rank = [v \in net.nodes |-> -label[v]]
      /\ Rising(net, path, start, rank)
      /\ \A v \in net.nodes : cursor[v] \in 0 .. Len(net.outgoing[v]) /\ Len(net.outgoing[v]) \in Nat
  BY <1>1, ClimbingIs DEF InWork
<1>3. i = Earliest(I)
  BY DEF Seqs!SelectInSeq, Earliest
<1>4. /\ new = Augment(net, flow, path, amount) /\ amount = Bottleneck(net, flow, path)
      /\ w = ArcFrom(net, path[i]) /\ n = Len(path)
      /\ \A j : j \in I <=> j \in 1 .. n /\ Residual(net, flow, path[j]) = amount
  BY <1>1 DEF R
<1>5. rank \in [net.nodes -> Int] /\ \A v \in net.nodes : rank[v] = -label[v]
  BY <1>2
<1>6. /\ KernelFields \subseteq DOMAIN k' /\ k'.label = label /\ k'.node = k.node /\ k'.counts = k.counts
      /\ k'.path = SubSeq(path, 1, i - 1) /\ k'.cursor = [cursor EXCEPT ![w] = @ + 1]
  BY <1>1, <1>2 DEF KernelFields
<1>7. start = net.source
  OBVIOUS
<1> HIDE DEF rank, path, cursor, label, start, amount, new, I, i, w, n
<1>8. /\ path # <<>> /\ amount \in Nat
      /\ \A j \in 1 .. n : amount <= Residual(net, flow, path[j])
      /\ \E j \in 1 .. n : amount = Residual(net, flow, path[j])
      /\ Feasible(net, new)
  <2>1. WorkPath(net, flow, path, net.source, rank, cursor) /\ EndOf(net, path, net.source) = net.sink
    BY <1>2, <1>7
  <2>2. /\ path # <<>> /\ Bottleneck(net, flow, path) \in Nat
        /\ \A j \in 1 .. Len(path) : Bottleneck(net, flow, path) <= Residual(net, flow, path[j])
        /\ \E j \in 1 .. Len(path) : Bottleneck(net, flow, path) = Residual(net, flow, path[j])
        /\ Feasible(net, Augment(net, flow, path, Bottleneck(net, flow, path)))
    BY <1>2, <1>5, <2>1, WorkKeepsFlow
  <2> QED
    BY <1>4, <2>2
<1>9. n \in Nat /\ i \in 1 .. n /\ Residual(net, flow, path[i]) = amount
      /\ \A j \in 1 .. (i - 1) : Residual(net, flow, path[j]) # amount
  <2>1. n \in Nat
    BY <1>2, <1>4 DEF Rising
  <2>2. I \in SUBSET (1 .. n) /\ I # {}
    BY <1>4, <1>8
  <2>3. i \in I /\ \A j \in I : i <= j
    BY <1>3, <2>1, <2>2, EarliestIs
  <2> QED
    BY <1>4, <2>1, <2>2, <2>3
<1>10. /\ \A b \in Arcs(net) : Residual(net, new, b) > 0 =>
              \/ Residual(net, flow, b) > 0
              \/ rank[ArcFrom(net, b)] = rank[ArcTo(net, b)] + 1 /\ rank[start] <= rank[ArcTo(net, b)]
       /\ \A j \in 1 .. Len(path) : Residual(net, new, path[j]) = Residual(net, flow, path[j]) - amount
  <2>1. /\ \A j \in 1 .. Len(path) : amount <= Residual(net, flow, path[j])
        /\ amount \in Nat /\ path # <<>> /\ start \in net.nodes /\ rank \in [net.nodes -> Int]
        /\ new = Augment(net, flow, path, amount) /\ IsNetwork(net) /\ WithinBounds(net, flow)
        /\ WorkPath(net, flow, path, start, rank, cursor)
    BY <1>2, <1>4, <1>5, <1>8
  <2>2. \A b \in Arcs(net) : Residual(net, new, b) > 0 =>
            \/ Residual(net, flow, b) > 0
            \/ rank[ArcFrom(net, b)] = rank[ArcTo(net, b)] + 1 /\ rank[start] <= rank[ArcTo(net, b)]
    BY <2>1, WorkAugment
  <2>3. \A j \in 1 .. Len(path) : Residual(net, new, path[j]) = Residual(net, flow, path[j]) - amount
    <3>1. Lowered(net, flow, new, path, amount)
      BY <2>1, WorkAugment
    <3> QED
      BY <3>1 DEF Lowered
  <2> QED
    BY <2>2, <2>3
<1>11. \A j \in 1 .. n : /\ path[j] \in Arcs(net)
                         /\ ArcFrom(net, path[j]) \in net.nodes /\ ArcTo(net, path[j]) \in net.nodes
                         /\ rank[ArcFrom(net, path[j])] = rank[start] + j - 1
                         /\ Residual(net, flow, path[j]) \in Int
  <2>1. \A j \in 1 .. n : /\ path[j] \in Arcs(net)
                          /\ ArcFrom(net, path[j]) \in net.nodes /\ ArcTo(net, path[j]) \in net.nodes
                          /\ rank[ArcFrom(net, path[j])] = rank[start] + j - 1
    BY <1>2, <1>4 DEF Rising
  <2> QED
    BY <1>2, <2>1, ResidualIsInt
<1> DEFINE cursor2 == [cursor EXCEPT ![w] = @ + 1]
<1>12. /\ w \in net.nodes /\ cursor[w] + 1 \in 1 .. Len(net.outgoing[w])
       /\ net.outgoing[w][cursor[w] + 1] = path[i]
  BY <1>2, <1>4, <1>9, <1>11 DEF WorkPath
<1>13. /\ cursor2 \in [net.nodes -> Nat]
       /\ \A v \in net.nodes : cursor2[v] = IF v = w THEN cursor[w] + 1 ELSE cursor[v]
  BY <1>2, <1>12
<1> HIDE DEF cursor2
<1>14. \A b \in Arcs(net) : /\ ArcFrom(net, b) \in net.nodes /\ ArcTo(net, b) \in net.nodes
                            /\ label[ArcFrom(net, b)] \in Int /\ label[ArcTo(net, b)] \in Int
                            /\ Residual(net, new, b) > 0 =>
                                   \/ Residual(net, flow, b) > 0
                                   \/ label[ArcTo(net, b)] = label[ArcFrom(net, b)] + 1
  <2> TAKE b \in Arcs(net)
  <2>1. ArcFrom(net, b) \in net.nodes /\ ArcTo(net, b) \in net.nodes
    BY <1>2, ResidualIsInt
  <2>2. label[ArcFrom(net, b)] \in Int /\ label[ArcTo(net, b)] \in Int
    BY <1>2, <2>1
  <2>3. rank[ArcFrom(net, b)] = -label[ArcFrom(net, b)] /\ rank[ArcTo(net, b)] = -label[ArcTo(net, b)]
    BY <1>5, <2>1
  <2> QED
    BY <1>10, <2>1, <2>2, <2>3
<1>15. Descends(net, new, label)
  <2>1. ASSUME NEW b \in Arcs(net), Residual(net, new, b) > 0
        PROVE  label[ArcFrom(net, b)] <= label[ArcTo(net, b)] + 1
    <3>1. CASE Residual(net, flow, b) > 0
      BY <1>2, <3>1 DEF Descends
    <3>2. CASE label[ArcTo(net, b)] = label[ArcFrom(net, b)] + 1
      BY <1>14, <3>2
    <3> QED
      BY <1>14, <2>1, <3>1, <3>2
  <2> QED
    BY <1>2, <2>1 DEF Descends
<1>16. Passed(net, new, label, cursor2)
  <2> SUFFICES ASSUME NEW v \in net.nodes
               PROVE  /\ cursor2[v] \in 0 .. Len(net.outgoing[v])
                      /\ \A j \in 1 .. cursor2[v] :
                             ~(/\ Residual(net, new, net.outgoing[v][j]) > 0
                               /\ label[v] = label[ArcTo(net, net.outgoing[v][j])] + 1)
    BY DEF Passed
  <2>1. cursor2[v] \in 0 .. Len(net.outgoing[v])
    BY <1>2, <1>12, <1>13
  <2>2. ASSUME NEW j \in 1 .. cursor2[v], Residual(net, new, net.outgoing[v][j]) > 0,
               label[v] = label[ArcTo(net, net.outgoing[v][j])] + 1
        PROVE  FALSE
    <3>1. j \in 1 .. Len(net.outgoing[v])
      BY <1>2, <2>1
    <3>2. net.outgoing[v][j] \in Arcs(net) /\ ArcFrom(net, net.outgoing[v][j]) = v
      BY <1>2, <3>1, ListedArc
    <3>3. CASE j <= cursor[v]
      <4>1. j \in 1 .. cursor[v]
        BY <1>2, <3>1, <3>3
      <4>2. ~(Residual(net, flow, net.outgoing[v][j]) > 0)
        BY <1>2, <2>2, <4>1 DEF Passed
      <4>3. label[ArcTo(net, net.outgoing[v][j])] = label[v] + 1
            /\ label[v] \in Int /\ label[ArcTo(net, net.outgoing[v][j])] \in Int
        BY <1>14, <2>2, <3>2, <4>2
      <4> QED
        BY <2>2, <4>3
    <3>4. CASE ~(j <= cursor[v])
      <4>1. v = w /\ j = cursor[w] + 1
        BY <1>2, <1>13, <3>1, <3>4
      <4>2. Residual(net, new, net.outgoing[v][j]) = amount - amount
        BY <1>4, <1>9, <1>10, <1>12, <4>1
      <4> QED
        BY <1>8, <2>2, <4>2
    <3> QED
      BY <3>3, <3>4
  <2> QED
    BY <2>1, <2>2
<1>17. WorkPath(net, new, SubSeq(path, 1, i - 1), start, rank, cursor2)
  <2> DEFINE m == i - 1
  <2>1. m \in 0 .. Len(path)
    BY <1>4, <1>9
  <2>2. ASSUME NEW j \in 1 .. m
        PROVE  /\ Residual(net, new, path[j]) > 0
               /\ cursor2[ArcFrom(net, path[j])] = cursor[ArcFrom(net, path[j])]
    <3>1. j \in 1 .. n /\ j \in Int /\ j < i /\ j \in 1 .. (i - 1) /\ i \in Int
      BY <1>9
    <3>2. Residual(net, flow, path[j]) \in Int /\ amount <= Residual(net, flow, path[j])
          /\ Residual(net, flow, path[j]) # amount
          /\ Residual(net, new, path[j]) = Residual(net, flow, path[j]) - amount
      BY <1>4, <1>8, <1>9, <1>10, <1>11, <3>1
    <3>3. ArcFrom(net, path[j]) # w
      <4>1. rank[w] = rank[start] + i - 1 /\ rank[ArcFrom(net, path[j])] = rank[start] + j - 1
            /\ rank[start] \in Int
        BY <1>2, <1>4, <1>5, <1>9, <1>11, <3>1
      <4> QED
        BY <3>1, <4>1
    <3> QED
      BY <1>8, <1>11, <1>13, <3>1, <3>2, <3>3
  <2> HIDE DEF m
  <2>3. WorkPath(net, new, SubSeq(path, 1, m), start, rank, cursor2)
    BY <1>2, <2>1, <2>2, PathKept
  <2> QED
    BY <2>3 DEF m
<1>18. InWork(net, new, alg, k')
  <2>1. rank = RankIn(net, alg, k'.label)
    BY <1>6 DEF rank, label
  <2>2. k'.node = start /\ k'.path = SubSeq(path, 1, i - 1) /\ k'.cursor = cursor2
    BY <1>2, <1>6 DEF cursor2
  <2> QED
    BY <1>17, <2>1, <2>2 DEF InWork
<1>19. Climbing(net, new, alg, k')
  <2>1. /\ k'.label = k.label /\ k'.counts = k.counts /\ k'.node = k.node /\ k'.cursor = cursor2
        /\ Descends(net, new, k.label) /\ Passed(net, new, k.label, cursor2)
    BY <1>6, <1>15, <1>16 DEF label, cursor2
  <2> QED
    BY <1>2, <1>13, <1>18, <2>1 DEF Climbing
<1>20. new = flow'
  BY DEF new
<1> QED
  BY <1>1, <1>2, <1>6, <1>8, <1>19, <1>20 DEF LabelInv

LEMMA NewLabelIs ==
    ASSUME IsNetwork(net), WithinBounds(net, flow), N \in Nat, NEW v \in net.nodes,
           k.label \in [net.nodes -> 0 .. N]
    PROVE  /\ NewLabel(v) \in 0 .. N
           /\ \A a \in Arcs(net) : ArcFrom(net, a) = v /\ Residual(net, flow, a) > 0
                                       => NewLabel(v) <= k.label[ArcTo(net, a)] + 1
<1> DEFINE S == {N} \cup {d + 1 : d \in Neighbours(v)}
<1>1. \A y \in S : y = N \/ \E a \in Arcs(net) : y = k.label[ArcTo(net, a)] + 1
  BY DEF Neighbours, LiveArcs, Live, To
<1>2. \A a \in Arcs(net) : ArcFrom(net, a) = v /\ Residual(net, flow, a) > 0
                               => k.label[ArcTo(net, a)] + 1 \in S
  BY DEF Neighbours, LiveArcs, Live, To
<1>3. N \in S /\ NewLabel(v) = Finite!Min(S)
  BY DEF NewLabel
<1> HIDE DEF S
<1>4. \A y \in S : y \in 0 .. (N + 1)
  <2> TAKE y \in S
  <2>1. CASE y = N
    BY <2>1
  <2>2. CASE \E a \in Arcs(net) : y = k.label[ArcTo(net, a)] + 1
    <3>1. PICK a \in Arcs(net) : y = k.label[ArcTo(net, a)] + 1
      BY <2>2
    <3>2. ArcTo(net, a) \in net.nodes
      BY ResidualIsInt
    <3>3. k.label[ArcTo(net, a)] \in 0 .. N
      BY <3>2
    <3> QED
      BY <3>1, <3>3
  <2> QED
    BY <1>1, <2>1, <2>2
<1>5. S \subseteq Int /\ IsFiniteSet(S)
  <2>1. IsFiniteSet(0 .. (N + 1))
    BY FS_Interval
  <2>2. S \subseteq 0 .. (N + 1)
    BY <1>4
  <2>3. IsFiniteSet(S)
    BY <2>1, <2>2, FS_Subset
  <2> QED
    BY <1>4, <2>3
<1>6. Finite!Min(S) \in S /\ \A y \in S : Finite!Min(S) <= y
  BY <1>3, <1>5, MinIsLeast
<1>7. NewLabel(v) \in 0 .. (N + 1) /\ NewLabel(v) <= N
  BY <1>3, <1>4, <1>6
<1>8. NewLabel(v) \in 0 .. N
  BY <1>7
<1>9. \A y \in S : NewLabel(v) <= y
  BY <1>3, <1>6
<1> QED
  BY <1>2, <1>8, <1>9

\* The end of the path is relabelled.
LEMMA RisenLabels ==
    ASSUME LabelInv, phase = "label", End # net.sink, NEW new, new = NewLabel(End), ~(new <= k.label[End]),
           NEW label, label = [k.label EXCEPT ![End] = new],
           NEW cursor, cursor = [k.cursor EXCEPT ![End] = 0]
    PROVE  /\ label \in [net.nodes -> 0 .. N] /\ label[net.sink] = 0
           /\ new \in 0 .. N /\ label[End] = new
           /\ \A u \in net.nodes : u # End => label[u] = k.label[u]
           /\ Descends(net, flow, label)
           /\ Counted(net, label, Recount(k.counts, k.label[End], new))
           /\ cursor \in [net.nodes -> Nat] /\ \A u \in net.nodes : u # End => cursor[u] = k.cursor[u]
           /\ Passed(net, flow, label, cursor)
<1>1. /\ IsNetwork(net) /\ WithinBounds(net, flow) /\ N \in Nat
      /\ Climbing(net, flow, alg, k)
      /\ k.label \in [net.nodes -> 0 .. N] /\ k.cursor \in [net.nodes -> Nat]
      /\ net.sink \in net.nodes /\ End \in net.nodes
      /\ Descends(net, flow, k.label) /\ Passed(net, flow, k.label, k.cursor)
      /\ Counted(net, k.label, k.counts)
  BY ClimbingIs
<1> DEFINE v == End
           old == k.label
           place == k.cursor
<1>2. /\ new \in 0 .. N
      /\ \A a \in Arcs(net) : ArcFrom(net, a) = v /\ Residual(net, flow, a) > 0
                                  => new <= old[ArcTo(net, a)] + 1
  BY <1>1, NewLabelIs
<1>3. old[v] \in 0 .. N /\ old[v] < new
  BY <1>1, <1>2
<1>4. /\ label \in [net.nodes -> 0 .. N] /\ label[v] = new
      /\ \A u \in net.nodes : u # v => label[u] = old[u]
  BY <1>1, <1>2
<1>5. label[net.sink] = 0
  BY <1>1, <1>4 DEF Climbing
<1>6. Counted(net, label, Recount(k.counts, old[v], new))
  BY <1>1, Recounts
<1>7. /\ cursor \in [net.nodes -> Nat] /\ cursor[v] = 0 /\ \A u \in net.nodes : u # v => cursor[u] = place[u]
  BY <1>1
<1> HIDE DEF v, old, place
<1>8. \A u \in net.nodes : label[u] \in 0 .. N /\ old[u] \in 0 .. N /\ old[u] <= label[u]
  <2> TAKE u \in net.nodes
  <2>1. label[u] \in 0 .. N /\ old[u] \in 0 .. N
    BY <1>1, <1>4 DEF old
  <2> QED
    BY <1>1, <1>2, <1>3, <1>4, <2>1
<1>9. Descends(net, flow, label)
  <2>1. ASSUME NEW a \in Arcs(net), Residual(net, flow, a) > 0
        PROVE  label[ArcFrom(net, a)] <= label[ArcTo(net, a)] + 1
    <3>1. ArcFrom(net, a) \in net.nodes /\ ArcTo(net, a) \in net.nodes
      BY <1>1, ResidualIsInt
    <3>2. old[ArcFrom(net, a)] <= old[ArcTo(net, a)] + 1
      BY <1>1, <2>1 DEF Descends, old
    <3>3. old[ArcTo(net, a)] <= label[ArcTo(net, a)]
          /\ label[ArcTo(net, a)] \in 0 .. N /\ old[ArcTo(net, a)] \in 0 .. N
          /\ label[ArcFrom(net, a)] \in 0 .. N
      BY <1>8, <3>1
    <3>4. CASE ArcFrom(net, a) = v
      <4>1. label[ArcFrom(net, a)] <= old[ArcTo(net, a)] + 1
        BY <1>2, <1>4, <2>1, <3>4
      <4> QED
        BY <3>3, <4>1
    <3>5. CASE ArcFrom(net, a) # v
      <4>1. label[ArcFrom(net, a)] = old[ArcFrom(net, a)]
        BY <1>4, <3>1, <3>5
      <4> QED
        BY <3>2, <3>3, <4>1
    <3> QED
      BY <3>4, <3>5
  <2>2. \A u \in net.nodes : label[u] \in Int
    BY <1>1, <1>8
  <2> QED
    BY <2>1, <2>2 DEF Descends
<1>10. Passed(net, flow, label, cursor)
  <2> DEFINE S == {v}
             next == [u \in net.nodes |-> IF u \in S THEN 0 ELSE place[u]]
  <2>1. next = cursor
    <3>1. DOMAIN next = net.nodes /\ DOMAIN cursor = net.nodes /\ next = [u \in net.nodes |-> next[u]]
          /\ cursor = [u \in net.nodes |-> cursor[u]]
      BY <1>7
    <3>2. \A u \in net.nodes : next[u] = cursor[u]
      BY <1>7
    <3> HIDE DEF next
    <3> QED
      BY <3>1, <3>2
  <2>2. /\ \A u \in net.nodes : label[u] \in Int /\ old[u] <= label[u]
        /\ \A u \in net.nodes \ S : label[u] = old[u]
        /\ Descends(net, flow, old) /\ Passed(net, flow, old, place)
    BY <1>1, <1>4, <1>8 DEF old, place
  <2> HIDE DEF S
  <2>3. Passed(net, flow, label, [u \in net.nodes |-> IF u \in S THEN 0 ELSE place[u]])
    BY <1>1, <2>2, RisePasses
  <2> QED
    BY <2>1, <2>3
<1> QED
  BY <1>2, <1>4, <1>5, <1>6, <1>7, <1>9, <1>10 DEF v, old, place

\* A label nobody has cuts the source off.
LEMMA GapCuts ==
    ASSUME NEW g, IsNetwork(g), NEW fl, Feasible(g, fl), NEW label, Descends(g, fl, label),
           NEW old \in Int, \A u \in g.nodes : label[u] # old,
           label[g.source] > old, label[g.sink] <= old
    PROVE  Divergence(g, fl, g.source)
               = Finite!Min({CutBound(g, S) : S \in {T \in SUBSET g.nodes :
                                g.source \in T /\ g.sink \notin T}})
<1> DEFINE C == {u \in g.nodes : label[u] > old}
<1>1. g.source \in g.nodes /\ g.sink \in g.nodes /\ WithinBounds(g, fl)
  BY DEF IsNetwork, Feasible
<1>2. C \in SUBSET g.nodes /\ g.source \in C /\ g.sink \notin C
  <2>1. label[g.sink] \in Int
    BY <1>1 DEF Descends
  <2> QED
    BY <1>1, <2>1
<1>3. Closed(g, fl, C)
  <2> SUFFICES ASSUME NEW a \in Arcs(g), Residual(g, fl, a) > 0, ArcFrom(g, a) \in C
               PROVE  ArcTo(g, a) \in C
    BY DEF Closed
  <2>1. ArcFrom(g, a) \in g.nodes /\ ArcTo(g, a) \in g.nodes
    BY <1>1, ResidualIsInt
  <2>2. /\ label[ArcFrom(g, a)] \in Int /\ label[ArcTo(g, a)] \in Int
        /\ label[ArcFrom(g, a)] <= label[ArcTo(g, a)] + 1 /\ label[ArcTo(g, a)] # old
        /\ label[ArcFrom(g, a)] > old
    BY <2>1 DEF Descends
  <2> QED
    BY <2>1, <2>2
<1> HIDE DEF C
<1> QED
  BY <1>2, <1>3, ClosedIsLeast

LEMMA RelabelAndRetreatStep ==
    ASSUME LabelInv, RelabelAndRetreat
    PROVE  LabelInv'
<1> DEFINE v == End
           new == NewLabel(v)
           old == k.label[v]
           counts == Recount(k.counts, old, new)
           label == [k.label EXCEPT ![v] = new]
           cursor == [k.cursor EXCEPT ![v] = 0]
           up == [k EXCEPT !.label[v] = new, !.cursor[v] = 0, !.counts = counts]
           cut == [up EXCEPT !.label[net.source] = N, !.counts = Recount(@, up.label[net.source], N)]
<1>1. /\ phase = "label" /\ v # net.sink /\ UNCHANGED <<net, alg>>
      /\ IF new <= old THEN Stop("failed")
         ELSE /\ UNCHANGED flow
              /\ IF alg = "isap" /\ old < N /\ counts[old] = 0
                 THEN k' = cut /\ phase' = "certify"
                 ELSE IF k.path = <<>>
                 THEN k' = up /\ phase' = IF new < N THEN phase ELSE "certify"
                 ELSE k' = Shorter(up) /\ UNCHANGED phase
  <2> DEFINE Up(n, c) == [k EXCEPT !.label[v] = n, !.cursor[v] = 0, !.counts = c]
             CutOff(u) == [u EXCEPT !.label[net.source] = N, !.counts = Recount(@, u.label[net.source], N)]
             Result(n, o, c, u) ==
                 IF n <= o THEN Stop("failed")
                 ELSE /\ UNCHANGED flow
                      /\ IF alg = "isap" /\ o < N /\ c[o] = 0
                         THEN k' = CutOff(u) /\ phase' = "certify"
                         ELSE IF k.path = <<>>
                         THEN k' = u /\ phase' = IF n < N THEN phase ELSE "certify"
                         ELSE k' = Shorter(u) /\ UNCHANGED phase
  <2>1. /\ phase = "label" /\ v # net.sink /\ UNCHANGED <<net, alg>>
        /\ \E n \in {new} : \E o \in {old} : \E c \in {Recount(k.counts, o, n)} : \E u \in {Up(n, c)} :
               Result(n, o, c, u)
    BY DEF RelabelAndRetreat, Quiet
  <2>2. counts = Recount(k.counts, old, new) /\ up = Up(new, counts) /\ cut = CutOff(up)
    OBVIOUS
  <2> HIDE DEF new, old, counts, up, cut, Up, Result
  <2>3. Result(new, old, counts, up)
    BY <2>1, <2>2
  <2> QED
    BY <2>1, <2>2, <2>3 DEF Result
<1>2. /\ net \in Networks /\ IsNetwork(net) /\ Feasible(net, flow) /\ WithinBounds(net, flow)
      /\ alg \in Labelling /\ KernelFields \subseteq DOMAIN k /\ Climbing(net, flow, alg, k)
      /\ N = Cardinality(net.nodes) /\ N \in Nat /\ N >= 2
      /\ k.label \in [net.nodes -> 0 .. N] /\ k.label \in [net.nodes -> Int]
      /\ k.cursor \in [net.nodes -> Nat]
      /\ k.node = net.source /\ net.source \in net.nodes /\ net.sink \in net.nodes
      /\ InWork(net, flow, alg, k) /\ v \in net.nodes /\ v = EndOf(net, k.path, k.node)
      /\ RankIn(net, alg, k.label) = [u \in net.nodes |-> -k.label[u]]
      /\ Rising(net, k.path, k.node, RankIn(net, alg, k.label))
  BY <1>1, ClimbingIs
<1>3. CASE new <= old
  <2>1. UNCHANGED <<net, alg, flow, k>> /\ phase' = "failed"
    BY <1>1, <1>3 DEF Stop
  <2> QED
    BY <1>2, <2>1 DEF LabelInv
<1>4. CASE ~(new <= old)
  <2>1. /\ label \in [net.nodes -> 0 .. N] /\ label[net.sink] = 0
        /\ new \in 0 .. N /\ label[v] = new
        /\ \A u \in net.nodes : u # v => label[u] = k.label[u]
        /\ Descends(net, flow, label)
        /\ Counted(net, label, counts)
        /\ cursor \in [net.nodes -> Nat] /\ \A u \in net.nodes : u # v => cursor[u] = k.cursor[u]
        /\ Passed(net, flow, label, cursor)
    BY <1>1, <1>4, RisenLabels
  <2>2. old \in 0 .. N /\ old < new
    BY <1>2, <1>4, <2>1
  <2>3. /\ KernelFields \subseteq DOMAIN up /\ up.label = label /\ up.cursor = cursor /\ up.counts = counts
        /\ up.path = k.path /\ up.node = k.node /\ DOMAIN up = DOMAIN k
    BY <1>2 DEF KernelFields
  <2>4. /\ DOMAIN cut = DOMAIN up
    OBVIOUS
  <2>5. /\ Len(k.path) \in Nat /\ (k.path # <<>> <=> Len(k.path) > 0)
        /\ k.label[v] = k.label[net.source] - Len(k.path)
    <3>1. /\ Len(k.path) \in Nat /\ (k.path # <<>> <=> Len(k.path) > 0)
          /\ RankIn(net, alg, k.label)[v] = RankIn(net, alg, k.label)[net.source] + Len(k.path)
      BY <1>2 DEF Rising
    <3>2. -k.label[v] = -k.label[net.source] + Len(k.path)
      BY <1>2, <3>1
    <3>3. k.label[v] \in Int /\ k.label[net.source] \in Int
      BY <1>2
    <3> QED
      BY <3>1, <3>2, <3>3
  <2>6. /\ k.path = <<>> => v = net.source
        /\ k.path # <<>> => v # net.source /\ label[net.source] = k.label[net.source]
    <3>1. k.path = <<>> => v = net.source
      BY <1>2 DEF EndOf
    <3>2. k.path # <<>> => v # net.source
      BY <1>2, <2>5
    <3> QED
      BY <1>2, <2>1, <3>1, <3>2
  <2>7. label[net.source] > old
    <3>1. k.label[net.source] \in 0 .. N
      BY <1>2
    <3> QED
      BY <2>1, <2>2, <2>5, <2>6, <3>1
  <2>8. UNCHANGED <<net, alg, flow>>
    BY <1>1, <1>4
  <2> HIDE DEF new, old, counts, label, cursor, up, cut
  <2>9. CASE alg = "isap" /\ old < N /\ counts[old] = 0
    <3>1. k' = cut /\ phase' = "certify"
      BY <1>1, <1>4, <2>9
    <3>2. \A u \in net.nodes : label[u] # old
      <4> DEFINE those == {u \in net.nodes : label[u] = old}
      <4>1. old \in 0 .. (2 * Cardinality(net.nodes))
        BY <1>2, <2>2
      <4>2. Cardinality(those) = 0
        BY <2>1, <2>9, <4>1 DEF Counted
      <4>3. IsFiniteSet(those)
        BY <1>2, FS_Subset DEF IsNetwork
      <4> HIDE DEF those
      <4>4. those = {}
        BY <4>2, <4>3, FS_EmptySet
      <4> QED
        BY <4>4 DEF those
    <3>3. Value = LeastCut
      <4>1. old \in Int /\ label[net.sink] <= old
        BY <1>2, <2>1, <2>2
      <4> QED
        BY <1>2, <2>1, <2>7, <3>2, <4>1, GapCuts DEF Value, LeastCut
    <3>4. Value' = LeastCut'
      BY <2>8, <3>3 DEF Value, LeastCut
    <3> QED
      BY <1>2, <2>3, <2>4, <2>8, <3>1, <3>4 DEF LabelInv
  <2>10. CASE ~(alg = "isap" /\ old < N /\ counts[old] = 0) /\ k.path = <<>>
    <3>1. k' = up /\ phase' = IF new < N THEN "label" ELSE "certify"
      BY <1>1, <1>4, <2>10
    <3>2. v = net.source /\ label[net.source] = new
      BY <2>1, <2>6, <2>10
    <3>3. CASE new < N
      <4>1. InWork(net, flow, alg, up)
        <5>1. up.path = <<>> /\ Len(<<>>) = 0 /\ <<>> \in Seq(Arcs(net))
          BY <2>3, <2>10
        <5> QED
          BY <5>1 DEF InWork, WorkPath
      <4>2. Climbing(net, flow, alg, up)
        BY <1>2, <2>1, <2>3, <3>2, <3>3, <4>1 DEF Climbing
      <4> QED
        BY <1>2, <2>3, <2>8, <3>1, <3>3, <4>2 DEF LabelInv
    <3>4. CASE ~(new < N)
      <4>1. label[net.source] = N
        BY <1>2, <2>1, <3>2, <3>4
      <4>2. ValidHeights(net, flow, label)
        <5>1. label \in [net.nodes -> 0 .. (2 * N)]
          BY <1>2, <2>1
        <5> QED
          BY <1>2, <2>1, <4>1, <5>1 DEF ValidHeights, Descends
      <4>3. Value = LeastCut
        BY <1>2, <4>2, HeightsCertify DEF Feasible, Value, LeastCut
      <4>4. Value' = LeastCut'
        BY <2>8, <4>3 DEF Value, LeastCut
      <4> QED
        BY <1>2, <2>3, <2>8, <3>1, <3>4, <4>4 DEF LabelInv
    <3> QED
      BY <3>3, <3>4
  <2>11. CASE ~(alg = "isap" /\ old < N /\ counts[old] = 0) /\ k.path # <<>>
    <3> DEFINE last == LastOf(k.path)
               w == ArcFrom(net, last)
    <3>1. k' = Shorter(up) /\ phase' = "label"
      BY <1>1, <1>4, <2>11
    <3>2. /\ w \in net.nodes /\ w # v
          /\ k.cursor[w] + 1 \in 1 .. Len(net.outgoing[w])
          /\ net.outgoing[w][k.cursor[w] + 1] = last
          /\ ArcTo(net, last) = v
          /\ \A s : Retreated(s) => InWork(net, flow, alg, s)
      BY <1>2, <2>11, ShorterInWork
    <3> HIDE DEF w
    <3>3. /\ KernelFields \subseteq DOMAIN k' /\ k'.label = label /\ k'.counts = counts /\ k'.node = k.node
          /\ k'.path = Seqs!Front(k.path)
          /\ k'.cursor = [cursor EXCEPT ![w] = @ + 1]
      BY <2>3, <3>1 DEF Shorter, KernelFields, w
    <3>4. label[w] = k.label[w] /\ k.label[w] = old + 1 /\ cursor[w] = k.cursor[w]
      <4>1. label[w] = k.label[w] /\ cursor[w] = k.cursor[w]
        BY <2>1, <3>2
      <4>2. k.label[w] = k.label[v] + 1
        <5> DEFINE n == Len(k.path)
                   rank == RankIn(net, alg, k.label)
                   p == k.path
        <5>1. n \in 1 .. n /\ last = p[n] /\ n \in Nat
          BY <2>5, <2>11 DEF LastOf
        <5>2. /\ Residual(net, flow, p[n]) > 0
              /\ rank[ArcTo(net, p[n])] = rank[ArcFrom(net, p[n])] + 1
          BY <1>2, <5>1 DEF InWork, WorkPath
        <5>3. rank[v] = rank[w] + 1
          BY <3>2, <5>1, <5>2 DEF w
        <5>4. rank[v] = -k.label[v] /\ rank[w] = -k.label[w] /\ k.label[v] \in Int /\ k.label[w] \in Int
          BY <1>2, <3>2
        <5> HIDE DEF rank
        <5> QED
          BY <5>3, <5>4
      <4> QED
        BY <4>1, <4>2 DEF old
    <3> HIDE DEF last
    <3>5. label[w] # label[ArcTo(net, net.outgoing[w][cursor[w] + 1])] + 1
      BY <2>1, <2>2, <3>2, <3>4
    <3>6. Passed(net, flow, label, k'.cursor)
      <4> DEFINE cursor2 == k'.cursor
      <4>1. cursor[w] + 1 \in 1 .. Len(net.outgoing[w]) /\ cursor2 = [cursor EXCEPT ![w] = @ + 1]
        BY <3>2, <3>3, <3>4
      <4> HIDE DEF cursor2
      <4>2. Passed(net, flow, label, cursor2)
        BY <1>2, <2>1, <3>2, <3>5, <4>1, RetreatPasses
      <4> QED
        BY <4>2 DEF cursor2
    <3>7. k'.cursor \in [net.nodes -> Nat] /\ \A u \in net.nodes : u # w => k'.cursor[u] = cursor[u]
      BY <2>1, <3>2, <3>3
    <3>8. InWork(net, flow, alg, k')
      <4>1. Retreated(k')
        BY <2>1, <3>3, <3>7 DEF Retreated, w, last
      <4> QED
        BY <3>2, <4>1
    <3>9. Climbing(net, flow, alg, k')
      <4>1. label[net.source] < N /\ label[net.source] = k.label[net.source]
        BY <1>2, <2>6, <2>11 DEF Climbing
      <4> QED
        BY <1>2, <2>1, <3>3, <3>6, <3>7, <3>8, <4>1 DEF Climbing
    <3> QED
      BY <1>2, <2>8, <3>1, <3>3, <3>9 DEF LabelInv
  <2> QED
    BY <2>9, <2>10, <2>11
<1> QED
  BY <1>3, <1>4

PathSolvers == Searching \cup Labelling

LEMMA InitSearch ==
    ASSUME Init
    PROVE  /\ alg \in TreeSearches => SearchInv
           /\ alg = "dinic" => DinicInv
<1>1. net \in Networks /\ Feasible(net, flow) /\ phase = "start" /\ k = Kernel(net)
  BY InitIsFeasible DEF Init
<1>2. SearchShape
  BY <1>1 DEF SearchShape, Kernel, KernelFields
<1> QED
  BY <1>1, <1>2 DEF SearchInv, DinicInv

LEMMA OnlyPaths ==
    ASSUME alg \in PathSolvers, Next
    PROVE  AugmentingPathsStep \/ Certify
<1>1. ~Running
  BY DEF PathSolvers, Searching, Labelling, BreadthFirst, DepthFirst, Running, Presets
<1>2. ~PushRelabelStep
  BY <1>1 DEF PushRelabelStep, InitializePreflow, Select, Push, Relabel, EndDischarge, GlobalRelabel,
     ProcessScaledActive, NextScale, AdvancePath, RetreatPath, AugmentPath, Finish
<1> QED
  BY <1>2 DEF Next

LEMMA SearchStep ==
    ASSUME SearchInv, [Next]_vars
    PROVE  SearchInv'
<1>1. CASE UNCHANGED vars
  <2>1. UNCHANGED <<net, alg, flow, phase, k>>
    BY <1>1 DEF vars
  <2> QED
    BY <2>1 DEF SearchInv, SearchShape, Value, LeastCut
<1>2. CASE Next
  <2>1. alg \in PathSolvers /\ alg # "dinic" /\ alg \notin Labelling
    BY DEF SearchInv, TreeSearches, PathSolvers, Searching, Labelling, BreadthFirst, DepthFirst
  <2>2. \/ BeginSearch \/ ExploreBreadth \/ ExploreDepth \/ SettleWidest \/ EndSearch
        \/ AugmentSearched \/ Certify
    BY <1>2, <2>1, OnlyPaths DEF AugmentingPathsStep, AdvanceLevel, RetreatLevel, AugmentLevel,
       InitializeLabels, AdvanceLabel, AugmentLabel, RelabelAndRetreat
  <2> QED
    BY <2>2, BeginSearchStep, ExploreBreadthStep, ExploreDepthStep, SettleWidestStep, EndSearchStep,
       AugmentSearchedStep, CertifySearchStep
<1> QED
  BY <1>1, <1>2

LEMMA DinicStep ==
    ASSUME DinicInv, [Next]_vars
    PROVE  DinicInv'
<1>1. CASE UNCHANGED vars
  <2>1. UNCHANGED <<net, alg, flow, phase, k>>
    BY <1>1 DEF vars
  <2> QED
    BY <2>1 DEF DinicInv, SearchShape, Value, LeastCut
<1>2. CASE Next
  <2>1. alg = "dinic" /\ phase # "augment"
    BY DEF DinicInv
  <2>2. alg \in PathSolvers /\ alg \notin DepthFirst /\ alg # "widest" /\ alg \notin Labelling
    BY <2>1 DEF PathSolvers, Searching, Labelling, BreadthFirst, DepthFirst
  <2>3. \/ BeginSearch \/ ExploreBreadth \/ EndSearch \/ AdvanceLevel \/ RetreatLevel \/ AugmentLevel
        \/ Certify
    BY <1>2, <2>1, <2>2, OnlyPaths DEF AugmentingPathsStep, ExploreDepth, SettleWidest, AugmentSearched,
       InitializeLabels, AdvanceLabel, AugmentLabel, RelabelAndRetreat
  <2>4. CASE Certify
    <3>1. /\ UNCHANGED <<net, alg, flow, k>> /\ phase = "certify" /\ phase' \in {"done", "failed"}
      BY <2>4 DEF Certify, Stop, Quiet
    <3> QED
      BY <3>1 DEF DinicInv, SearchShape, Value, LeastCut
  <2> QED
    BY <2>3, <2>4, BeginLevels, ExploreLevels, EndLevels, AdvanceLevelStep, RetreatLevelStep,
       AugmentLevelStep
<1> QED
  BY <1>1, <1>2

\* What the four properties say of these solvers.
LEMMA SearchShows ==
    ASSUME SearchInv
    PROVE  FlowOrPreflow /\ ValidLabels /\ CurrentArcsMissNothing /\ OnlyMaximum
<1>1. /\ alg \notin Presets /\ phase \notin {"label", "level", "select", "discharge", "scale", "path"}
  BY DEF SearchInv, TreeSearches, Searching, BreadthFirst, DepthFirst, Presets
<1>2. Feasible(net, flow) /\ (phase \in {"certify", "done"} => Value = LeastCut)
  BY DEF SearchInv
<1> QED
  BY <1>1, <1>2 DEF FlowOrPreflow, ValidLabels, CurrentArcsMissNothing, OnlyMaximum, Feasible

LEMMA DinicShows ==
    ASSUME DinicInv
    PROVE  FlowOrPreflow /\ ValidLabels /\ CurrentArcsMissNothing /\ OnlyMaximum
<1>1. /\ alg = "dinic" /\ alg \notin Presets
      /\ phase \notin {"label", "select", "discharge", "scale", "path"}
      /\ net \in Networks /\ IsNetwork(net)
  BY NetworksAssumption DEF DinicInv, Presets
<1>2. Feasible(net, flow) /\ (phase \in {"certify", "done"} => Value = LeastCut)
      /\ (phase = "level" => Blocking(net, flow, k))
  BY DEF DinicInv
<1>3. FlowOrPreflow /\ OnlyMaximum
  BY <1>1, <1>2 DEF FlowOrPreflow, OnlyMaximum, Feasible
<1>4. ValidLabels
  BY <1>1, <1>2 DEF ValidLabels, Blocking, R, To
<1>5. CurrentArcsMissNothing
  <2> SUFFICES ASSUME phase = "level", NEW v \in net.nodes \ {net.sink}, NEW i \in 1..k.cursor[v]
               PROVE  \/ ~Admissible(v, net.outgoing[v][i])
                      \/ To(net.outgoing[v][i]) # net.sink /\ ~HasArc(To(net.outgoing[v][i]))
    BY <1>1 DEF CurrentArcsMissNothing
  <2> DEFINE a == net.outgoing[v][i]
  <2>1. /\ PassedLevels(net, flow, k.label, k.cursor) /\ k.cursor \in [net.nodes -> Nat]
        /\ k.label \in [net.nodes -> Nat \cup {NoLabel}] /\ WithinBounds(net, flow)
    BY <1>2 DEF Blocking, Feasible
  <2>2. /\ k.cursor[v] \in 0 .. Len(net.outgoing[v]) /\ Len(net.outgoing[v]) \in Nat
    <3>1. Len(net.outgoing[v]) \in Nat
      BY <1>1, LenProperties DEF IsNetwork
    <3> QED
      BY <2>1, <3>1 DEF PassedLevels
  <2>3. i \in 1 .. Len(net.outgoing[v])
    BY <2>2
  <2>4. a \in Arcs(net) /\ ArcFrom(net, a) = v
    BY <1>1, <2>3, ListedArc
  <2>5. ArcTo(net, a) \in net.nodes
    BY <1>1, <2>1, <2>4, ResidualIsInt
  <2>6. \/ ~LeadsOn(net, flow, "dinic", k.label, a)
        \/ ArcTo(net, a) # net.sink /\ NoWayOn(net, flow, k.label, k.cursor, ArcTo(net, a))
    BY <2>1 DEF PassedLevels
  <2>7. Admissible(v, a) => LeadsOn(net, flow, "dinic", k.label, a)
    BY <1>1, <2>4 DEF Admissible, LeadsOn, R, To
  <2>8. ASSUME NEW u \in net.nodes, NoWayOn(net, flow, k.label, k.cursor, u) PROVE ~HasArc(u)
    <3>1. k.cursor[u] \in 0 .. Len(net.outgoing[u])
      BY <2>1 DEF PassedLevels
    <3>2. /\ Place(u) \in (k.cursor[u] + 1) .. (Len(net.outgoing[u]) + 1)
          /\ HasArc(u) => /\ Place(u) \in 1 .. Len(net.outgoing[u])
                          /\ LeadsOn(net, flow, alg, k.label, net.outgoing[u][Place(u)])
      BY <1>1, <3>1, PlaceIsBetween
    <3>3. HasArc(u) => Place(u) \in (k.cursor[u] + 1) .. Len(net.outgoing[u])
      BY <3>2
    <3> QED
      BY <1>1, <2>8, <3>2, <3>3 DEF NoWayOn
  <2> HIDE DEF a
  <2>9. \/ ~Admissible(v, a)
        \/ To(a) # net.sink /\ ~HasArc(To(a))
    BY <2>5, <2>6, <2>7, <2>8 DEF To
  <2> QED
    BY <2>9 DEF a
<1> QED
  BY <1>3, <1>4, <1>5

LEMMA LabelStep ==
    ASSUME LabelInv, [Next]_vars
    PROVE  LabelInv'
<1>1. CASE UNCHANGED vars
  <2>1. UNCHANGED <<net, alg, flow, phase, k>>
    BY <1>1 DEF vars
  <2> QED
    BY <2>1 DEF LabelInv, Value, LeastCut
<1>2. CASE Next
  <2>1. alg \in Labelling
    BY DEF LabelInv
  <2>2. alg \in PathSolvers /\ alg \notin Searching
    BY <2>1 DEF PathSolvers, Searching, Labelling, BreadthFirst, DepthFirst
  <2>3. \/ InitializeLabels \/ AdvanceLabel \/ AugmentLabel \/ RelabelAndRetreat \/ Certify
    BY <1>2, <2>1, <2>2, OnlyPaths DEF AugmentingPathsStep, BeginSearch, ExploreBreadth, ExploreDepth,
       SettleWidest, EndSearch, AugmentSearched, AdvanceLevel, RetreatLevel, AugmentLevel,
       Searching, Labelling, BreadthFirst, DepthFirst
  <2>4. CASE Certify
    <3>1. /\ UNCHANGED <<net, alg, flow, k>> /\ phase = "certify" /\ phase' \in {"done", "failed"}
      BY <2>4 DEF Certify, Stop, Quiet
    <3> QED
      BY <3>1 DEF LabelInv, Value, LeastCut
  <2> QED
    BY <2>3, <2>4, InitializeLabelsStep, AdvanceLabelStep, AugmentLabelStep, RelabelAndRetreatStep
<1> QED
  BY <1>1, <1>2

LEMMA LabelShows ==
    ASSUME LabelInv
    PROVE  FlowOrPreflow /\ ValidLabels /\ CurrentArcsMissNothing /\ OnlyMaximum
<1>1. /\ alg \notin Presets /\ alg # "generic" /\ alg # "dinic"
      /\ phase \notin {"level", "select", "discharge", "scale", "path"}
  BY DEF LabelInv, Labelling, Presets
<1>2. Feasible(net, flow) /\ (phase \in {"certify", "done"} => Value = LeastCut)
  BY DEF LabelInv
<1>3. FlowOrPreflow /\ OnlyMaximum
  BY <1>1, <1>2 DEF FlowOrPreflow, OnlyMaximum, Feasible
<1>4. ValidLabels
  <2>1. phase = "label" => Climbing(net, flow, alg, k)
    BY DEF LabelInv
  <2> QED
    BY <1>1, <2>1 DEF ValidLabels, Climbing, Counted, Descends, R, To
<1>5. CurrentArcsMissNothing
  <2> SUFFICES ASSUME phase = "label", NEW v \in net.nodes \ {net.sink}, NEW i \in 1..k.cursor[v]
               PROVE  ~Admissible(v, net.outgoing[v][i])
    BY <1>1 DEF CurrentArcsMissNothing
  <2>1. Passed(net, flow, k.label, k.cursor)
    BY ClimbingIs
  <2> QED
    BY <1>1, <2>1 DEF Passed, Admissible, R, To
<1> QED
  BY <1>3, <1>4, <1>5

LEMMA InitLabel ==
    ASSUME Init, alg \in Labelling
    PROVE  LabelInv
<1>1. net \in Networks /\ Feasible(net, flow) /\ phase = "start" /\ k = Kernel(net)
  BY InitIsFeasible DEF Init
<1>2. KernelFields \subseteq DOMAIN k
  BY <1>1 DEF Kernel, KernelFields
<1> QED
  BY <1>1, <1>2 DEF LabelInv

(***************************************************************************)
(* Preflow push-relabel. Whatever comes next in the preset, the excess at a*)
(* node is what the flow leaves there, heights fall by at most one along a *)
(* live arc, the counts the gap rule reads are exact, and a search that    *)
(* resumes at a node's current arc has missed nothing.                     *)
(***************************************************************************)
Preflow(g, fl, excess) ==
    /\ excess \in [g.nodes -> Int]
    /\ \A v \in g.nodes : excess[v] = -Divergence(g, fl, v)
    /\ \A v \in Inner(g) : excess[v] >= 0

SoundPreflow(fl, s) ==
    /\ KernelFields \subseteq DOMAIN s
    /\ s.cursor \in [net.nodes -> Nat]
    /\ (\E S : s.queue \in Seq(S)) /\ s.mark \in Nat
    /\ WithinBounds(net, fl)
    /\ Preflow(net, fl, s.excess)
    /\ ValidHeights(net, fl, s.label)
    /\ Counted(net, s.label, s.counts)
    /\ alg # "generic" => Passed(net, fl, s.label, s.cursor)

\* What holds besides at one point of a preset.
AtPoint(point, fl, s) ==
    /\ point = "discharge" =>
           /\ s.node \in Inner(net)
           /\ alg = "relabel-to-front" => s.mark \in 1..Len(s.queue)
    /\ point = "scale" =>
           /\ alg = "excess-scaling" /\ s.delta \in Nat
           /\ \A v \in Inner(net) : s.excess[v] <= s.delta
    /\ point = "path" =>
           alg = "partial-augment" /\ s.node \in Inner(net) /\ InWork(net, fl, alg, s)
    /\ point \in {"certify", "done"} => \A v \in Inner(net) : s.excess[v] = 0

Points == {"global", "scale", "select", "discharge", "path", "finish", "certify", "done", "failed"}

PreflowInv ==
    /\ net \in Networks /\ alg \in Presets
    /\ phase = "start" \/ phase \in Points
    /\ phase = "start" => Feasible(net, flow) /\ k = Kernel(net)
    /\ phase # "start" => SoundPreflow(flow, k) /\ AtPoint(phase, flow, k)

LEMMA InitPreflow ==
    ASSUME Init, alg \in Presets
    PROVE  PreflowInv
BY InitIsFeasible DEF Init, PreflowInv

LEMMA Established ==
    ASSUME net \in Networks, alg \in Presets, UNCHANGED <<net, alg>>,
           phase' \in Points, SoundPreflow(flow', k'), AtPoint(phase', flow', k')
    PROVE  PreflowInv'
<1>1. phase' # "start" /\ net' = net /\ alg' = alg
  BY DEF Points
<1>2. SoundPreflow(flow, k)'
  BY <1>1 DEF SoundPreflow
<1>3. AtPoint(phase, flow, k)'
  BY <1>1 DEF AtPoint
<1> QED
  BY <1>1, <1>2, <1>3 DEF PreflowInv

\* What the steps below start from.
LEMMA PreflowIs ==
    ASSUME PreflowInv, phase # "start"
    PROVE  /\ net \in Networks /\ IsNetwork(net) /\ alg \in Presets /\ alg # "dinic"
           /\ SoundPreflow(flow, k) /\ AtPoint(phase, flow, k) /\ phase \in Points
           /\ KernelFields \subseteq DOMAIN k /\ k.cursor \in [net.nodes -> Nat]
           /\ (\E S : k.queue \in Seq(S)) /\ k.mark \in Nat
           /\ WithinBounds(net, flow) /\ Preflow(net, flow, k.excess)
           /\ ValidHeights(net, flow, k.label) /\ Counted(net, k.label, k.counts)
           /\ alg # "generic" => Passed(net, flow, k.label, k.cursor)
           /\ N = Cardinality(net.nodes) /\ N \in Nat /\ N >= 2
           /\ k.label \in [net.nodes -> 0 .. (2 * N)] /\ k.label \in [net.nodes -> Int]
           /\ Descends(net, flow, k.label)
           /\ \A v \in Inner(net) : v \in net.nodes /\ v # net.source /\ v # net.sink
           /\ \A v \in net.nodes : Len(net.outgoing[v]) \in Nat
<1>1. /\ net \in Networks /\ alg \in Presets /\ alg # "dinic" /\ phase \in Points
      /\ SoundPreflow(flow, k) /\ AtPoint(phase, flow, k)
  BY DEF PreflowInv, Presets
<1>2. IsNetwork(net)
  BY <1>1, NetworksAssumption
<1>3. N = Cardinality(net.nodes) /\ N \in Nat /\ N >= 2
  BY <1>2, NodesCount DEF N
<1>4. ValidHeights(net, flow, k.label)
  BY <1>1 DEF SoundPreflow
<1>5. k.label \in [net.nodes -> 0 .. (2 * N)]
  BY <1>3, <1>4 DEF ValidHeights
<1>6. \A v \in net.nodes : k.label[v] \in Int
  BY <1>3, <1>5
<1>7. k.label \in [net.nodes -> Int]
  BY <1>5, <1>6
<1>8. Descends(net, flow, k.label)
  BY <1>4, <1>6 DEF ValidHeights, Descends
<1>9. ASSUME NEW v \in net.nodes PROVE Len(net.outgoing[v]) \in Nat
  <2>1. net.outgoing[v] \in Seq(Arcs(net))
    BY <1>2 DEF IsNetwork
  <2> QED
    BY <2>1, LenProperties
<1> QED
  BY <1>1, <1>2, <1>3, <1>4, <1>5, <1>7, <1>8, <1>9 DEF SoundPreflow, Inner, Terminals

\* A step that changes no more than the point a preset is at, its choice of a
\* node and what it remembers keeps the preflow.
LEMMA Unmoved ==
    ASSUME PreflowInv, phase # "start", UNCHANGED <<net, alg, flow>>,
           KernelFields \subseteq DOMAIN k',
           k'.label = k.label, k'.cursor = k.cursor, k'.excess = k.excess, k'.counts = k.counts,
           \E S : k'.queue \in Seq(S), k'.mark \in Nat,
           phase' \in Points, AtPoint(phase', flow, k')
    PROVE  PreflowInv'
<1>1. net \in Networks /\ alg \in Presets /\ SoundPreflow(flow, k) /\ flow' = flow
  BY PreflowIs
<1>2. SoundPreflow(flow', k')
  BY <1>1 DEF SoundPreflow
<1> QED
  BY <1>1, <1>2, Established

\* A preset that gives up, or stops, leaves everything as it is.
LEMMA GivesUp ==
    ASSUME PreflowInv, phase # "start", UNCHANGED <<net, alg>>, Stop("failed")
    PROVE  PreflowInv'
<1>1. UNCHANGED <<net, alg, flow>> /\ k' = k /\ phase' = "failed"
  BY DEF Stop
<1>2. AtPoint("failed", flow, k) /\ "failed" \in Points
  BY DEF AtPoint, Points
<1> QED
  BY <1>1, <1>2, PreflowIs, Unmoved

(***************************************************************************)
(* The preflow: what leaves the source stays behind as excess.             *)
(***************************************************************************)
LEMMA SaturatedFlow ==
    ASSUME NEW g \in Networks, g = net, NEW fl, WithinBounds(g, fl),
           \A v \in Inner(g) : Divergence(g, fl, v) = 0,
           NEW new, new = Saturated(g.source, fl)
    PROVE  /\ WithinBounds(g, new)
           /\ \A v \in g.nodes : Divergence(g, new, v) \in Int
           /\ \A v \in Inner(g) : -Divergence(g, new, v) >= 0
           /\ \A a \in Arcs(g) : ArcFrom(g, a) = g.source /\ ArcTo(g, a) # g.source
                                     => ~(Residual(g, new, a) > 0)
<1>0. IsNetwork(g)
  BY NetworksAssumption
<1>1. \A e \in Edges(g) :
          /\ g.from[e] \in g.nodes /\ g.to[e] \in g.nodes
          /\ g.lower[e] \in Int /\ g.capacity[e] \in Int /\ fl[e] \in Int
          /\ g.lower[e] <= fl[e] /\ fl[e] <= g.capacity[e]
  BY <1>0, NetworkTypes
<1>2. \A e \in Edges(g) :
          new[e] = IF g.from[e] = g.source /\ g.to[e] # g.source THEN g.capacity[e]
                   ELSE IF g.to[e] = g.source /\ g.from[e] # g.source THEN g.lower[e]
                   ELSE fl[e]
  BY DEF Saturated
<1>3. WithinBounds(g, new)
  BY <1>1, <1>2 DEF WithinBounds
<1>4. ASSUME NEW v \in g.nodes
      PROVE  /\ Divergence(g, new, v) \in Int
             /\ v \in Inner(g) => -Divergence(g, new, v) >= 0
  <2> DEFINE From == {e \in Edges(g) : g.from[e] = v}
             Into == {e \in Edges(g) : g.to[e] = v}
  <2>1. IsFiniteSet(From) /\ IsFiniteSet(Into)
    BY <1>0, FS_Subset DEF IsNetwork
  <2>2. \A e \in Edges(g) : new[e] \in Int /\ fl[e] \in Int
    BY <1>1, <1>2
  <2>3. /\ Divergence(g, fl, v) = Total(fl, From) - Total(fl, Into)
        /\ Divergence(g, new, v) = Total(new, From) - Total(new, Into)
    BY DivergenceIsTotals
  <2>4. /\ \A e \in From : new[e] \in Int /\ fl[e] \in Int
        /\ \A e \in Into : new[e] \in Int /\ fl[e] \in Int
    BY <2>2
  <2>5. v # g.source => /\ \A e \in From : new[e] <= fl[e]
                        /\ \A e \in Into : fl[e] <= new[e]
    BY <1>1, <1>2
  <2> HIDE DEF From, Into
  <2>6. /\ Total(fl, From) \in Int /\ Total(fl, Into) \in Int
        /\ Total(new, From) \in Int /\ Total(new, Into) \in Int
    BY <2>1, <2>4, TotalType
  <2>7. ASSUME v \in Inner(g) PROVE -Divergence(g, new, v) >= 0
    <3>1. v # g.source
      BY <2>7 DEF Inner, Terminals
    <3>2. Total(new, From) <= Total(fl, From) /\ Total(fl, Into) <= Total(new, Into)
      BY <3>1, <2>1, <2>4, <2>5, TotalLeq
    <3>3. Divergence(g, fl, v) = 0
      BY <2>7
    <3> QED
      BY <3>2, <3>3, <2>3, <2>6
  <2> QED
    BY <2>3, <2>6, <2>7
<1>5. ASSUME NEW a \in Arcs(g), ArcFrom(g, a) = g.source, ArcTo(g, a) # g.source
      PROVE  ~(Residual(g, new, a) > 0)
  <2>1. a[1] \in Edges(g) /\ a[2] \in {"forward", "reverse"}
    BY DEF Arcs
  <2>2. CASE a[2] = "forward"
    BY <2>1, <2>2, <1>1, <1>2, <1>5 DEF ArcFrom, ArcTo, Residual
  <2>3. CASE a[2] = "reverse"
    BY <2>1, <2>3, <1>1, <1>2, <1>5 DEF ArcFrom, ArcTo, Residual
  <2> QED
    BY <2>1, <2>2, <2>3
<1>6. \A v \in Inner(g) : v \in g.nodes
  BY DEF Inner
<1> QED
  BY <1>3, <1>4, <1>5, <1>6

LEMMA InOrderIsSequence ==
    ASSUME NEW S, IsFiniteSet(S)
    PROVE  \E T : InOrder(S) \in Seq(T)
<1> DEFINE n == Cardinality(S)
           q == InOrder(S)
           T == {q[i] : i \in 1..n}
<1>1. n \in Nat
  BY FS_CardinalityType
<1> DEFINE e(i) == CHOOSE v \in S : Cardinality({u \in S : u < v}) = i - 1
<1>5. q = [i \in 1..n |-> e(i)]
  BY DEF InOrder
<1> HIDE DEF e, q
<1>2. q = [i \in 1..n |-> q[i]]
  BY <1>5
<1> HIDE DEF n, q
<1>3. q \in [1..n -> T]
  BY <1>2
<1> HIDE DEF T
<1>4. q \in Seq(T)
  BY <1>1, <1>3, SeqDef
<1> QED
  BY <1>4 DEF q

LEMMA CountedPreflow ==
    ASSUME NEW g, IsNetwork(g), NEW n, n = Cardinality(g.nodes),
           NEW label, label = [v \in g.nodes |-> IF v = g.source THEN n ELSE 0],
           NEW counts, counts = [i \in 0..(2 * n) |-> IF i = 0 THEN n - 1 ELSE IF i = n THEN 1 ELSE 0]
    PROVE  Counted(g, label, counts)
<1>1. n \in Nat /\ n >= 2 /\ Cardinality(g.nodes \ {g.source}) = n - 1 /\ g.source \in g.nodes
  BY NodesCount DEF IsNetwork
<1>2. ASSUME NEW i \in 0..(2 * n)
      PROVE  counts[i] = Cardinality({v \in g.nodes : label[v] = i})
  <2> DEFINE S == {v \in g.nodes : label[v] = i}
  <2>1. CASE i = 0
    <3>1. S = g.nodes \ {g.source}
      BY <1>1, <2>1
    <3>2. counts[i] = n - 1
      BY <2>1
    <3> QED
      BY <3>1, <3>2, <1>1
  <2>2. CASE i = n
    <3>1. S = {g.source}
      BY <1>1, <2>2
    <3>2. counts[i] = 1
      BY <1>1, <2>2
    <3>3. Cardinality({g.source}) = 1
      BY FS_Singleton
    <3> QED
      BY <3>1, <3>2, <3>3
  <2>3. CASE i # 0 /\ i # n
    <3>1. S = {}
      BY <1>1, <2>3
    <3>2. counts[i] = 0
      BY <2>3
    <3> QED
      BY <3>1, <3>2, FS_EmptySet
  <2> QED
    BY <2>1, <2>2, <2>3
<1>3. DOMAIN counts = 0..(2 * Cardinality(g.nodes))
  OBVIOUS
<1> QED
  BY <1>2, <1>3 DEF Counted

\* The first scale is above every excess.
LEMMA ScaleIs ==
    ASSUME IsNetwork(net), NEW excess \in [net.nodes -> Int]
    PROVE  Scale(excess) \in Nat /\ \A v \in Inner(net) : excess[v] <= Scale(excess)
<1> DEFINE S == {excess[v] : v \in Inner(net)} \cup {0}
           top == Finite!Max(S)
<1>1. IsFiniteSet(Inner(net)) /\ Inner(net) \subseteq net.nodes
  BY NodesCount DEF Inner
<1>2. IsFiniteSet(S) /\ S # {} /\ S \subseteq Int /\ 0 \in S /\ \A v \in Inner(net) : excess[v] \in S
  <2> DEFINE T == {excess[v] : v \in Inner(net)}
  <2>1. IsFiniteSet(T)
    BY <1>1, FiniteImage
  <2>2. IsFiniteSet(T \cup {0})
    BY <2>1, FS_AddElement
  <2> QED
    BY <1>1, <2>2
<1>3. Scale(excess) = IF top = 0 THEN 0
                      ELSE Power(CHOOSE i \in 0..top : /\ Power(i) >= top
                                                       /\ \A j \in 0..(i - 1) : Power(j) < top)
  BY DEF Scale
<1> HIDE DEF S
<1>4. top \in S /\ \A x \in S : top >= x
  BY <1>2, MaxIsGreatest
<1>5. top \in Nat /\ \A v \in Inner(net) : excess[v] <= top /\ excess[v] \in Int
  <2>1. top \in Int /\ top >= 0
    BY <1>2, <1>4
  <2> HIDE DEF top
  <2>2. ASSUME NEW v \in Inner(net) PROVE excess[v] <= top /\ excess[v] \in Int
    <3>1. excess[v] \in S /\ excess[v] \in Int /\ top >= excess[v]
      BY <1>1, <1>2, <1>4
    <3> QED
      BY <2>1, <3>1
  <2> QED
    BY <2>1, <2>2
<1> HIDE DEF top
<1>6. \A i \in 0 .. top : Power(i) \in Nat /\ Power(i) > i
  BY <1>5, PowersOfTwo
<1>7. CASE top = 0
  BY <1>3, <1>5, <1>7
<1>8. CASE top # 0
  <2> DEFINE Reaches(i) == /\ Power(i) >= top
                           /\ \A j \in 0..(i - 1) : Power(j) < top
             T == {i \in 0 .. top : Power(i) >= top}
             least == CHOOSE i \in 0 .. top : Reaches(i)
  <2>1. top \in T
    BY <1>5, <1>6
  <2>2. PICK i \in T : \A j \in T : i <= j
    <3>1. T \in SUBSET Nat
      OBVIOUS
    <3> HIDE DEF T
    <3> QED
      BY <2>1, <3>1, LeastNatural
  <2>3. ASSUME NEW j \in 0 .. (i - 1) PROVE Power(j) < top
    <3>1. j \in 0 .. top /\ j < i /\ i \in Nat
      BY <1>5, <2>2
    <3>2. ~(Power(j) >= top)
      BY <2>2, <3>1
    <3> QED
      BY <1>5, <1>6, <3>1, <3>2
  <2>4. i \in 0 .. top /\ Reaches(i)
    BY <2>2, <2>3
  <2> HIDE DEF Reaches
  <2>5. least \in 0 .. top /\ Reaches(least)
    BY <2>4
  <2>6. Scale(excess) = Power(least)
    BY <1>3, <1>8 DEF Reaches
  <2>7. Power(least) \in Nat /\ Power(least) >= top
    BY <1>6, <2>5 DEF Reaches
  <2> HIDE DEF least
  <2> QED
    BY <1>5, <2>6, <2>7
<1> QED
  BY <1>7, <1>8

LEMMA InitializeStep ==
    ASSUME PreflowInv, InitializePreflow
    PROVE  PreflowInv'
<1>1. /\ net \in Networks /\ alg \in Presets /\ phase = "start" /\ k = Kernel(net)
      /\ Feasible(net, flow) /\ WithinBounds(net, flow)
      /\ \A v \in Inner(net) : Divergence(net, flow, v) = 0
  BY DEF PreflowInv, InitializePreflow, Feasible
<1>2. IsNetwork(net)
  BY <1>1, NetworksAssumption
<1> DEFINE fl == Saturated(net.source, flow)
           excess == [v \in net.nodes |-> -Divergence(net, fl, v)]
           delta == IF alg = "excess-scaling" THEN Scale(excess) ELSE 0
           label == [v \in net.nodes |-> IF v = net.source THEN N ELSE 0]
           counts == [i \in DOMAIN k.counts |-> IF i = 0 THEN N - 1 ELSE IF i = N THEN 1 ELSE 0]
           queue == Scheduled(excess)
<1>3. /\ UNCHANGED <<net, alg>> /\ flow' = fl
      /\ k' = [k EXCEPT !.excess = excess, !.delta = delta, !.label = label, !.counts = counts,
                        !.queue = queue]
      /\ phase' = CASE alg = "global-relabel" -> "global"
                    [] alg = "excess-scaling" -> IF delta = 0 THEN "finish" ELSE "scale"
                    [] OTHER -> "select"
  <2> DEFINE Excess(f) == [v \in net.nodes |-> -Divergence(net, f, v)]
             Delta(e) == IF alg = "excess-scaling" THEN Scale(e) ELSE 0
             Begun(f, e, d) ==
                 /\ flow' = f
                 /\ k' = [k EXCEPT !.excess = e, !.delta = d, !.label = label, !.counts = counts,
                                   !.queue = Scheduled(e)]
                 /\ phase' = CASE alg = "global-relabel" -> "global"
                               [] alg = "excess-scaling" -> IF d = 0 THEN "finish" ELSE "scale"
                               [] OTHER -> "select"
  <2>1. /\ UNCHANGED <<net, alg>>
        /\ \E f \in {fl} : \E e \in {Excess(f)} : \E d \in {Delta(e)} : Begun(f, e, d)
    BY DEF InitializePreflow, Quiet
  <2>2. excess = Excess(fl) /\ delta = Delta(excess)
    OBVIOUS
  <2> HIDE DEF fl, excess, delta, label, counts, Excess, Delta, Begun
  <2>3. Begun(fl, excess, delta)
    BY <2>1, <2>2
  <2> QED
    BY <2>1, <2>3 DEF Begun
<1>4. queue = CASE alg = "fifo" -> InOrder({v \in Inner(net) : excess[v] > 0})
                [] alg = "relabel-to-front" -> InOrder(Inner(net))
                [] OTHER -> <<>>
  BY DEF Scheduled
<1>5. DOMAIN k.counts = 0 .. (2 * N) /\ N = Cardinality(net.nodes)
  BY <1>1 DEF Kernel, N
<1>6. counts = [i \in 0 .. (2 * N) |-> IF i = 0 THEN N - 1 ELSE IF i = N THEN 1 ELSE 0]
  BY <1>5
<1>7. /\ excess = [v \in net.nodes |-> -Divergence(net, fl, v)]
      /\ label = [v \in net.nodes |-> IF v = net.source THEN N ELSE 0]
      /\ alg = "excess-scaling" => delta = Scale(excess)
  OBVIOUS
<1> HIDE DEF fl, excess, delta, label, counts, queue
<1>8. /\ KernelFields \subseteq DOMAIN k' /\ k'.excess = excess /\ k'.delta = delta
      /\ k'.label = label /\ k'.counts = counts /\ k'.queue = queue
      /\ k'.cursor = [v \in net.nodes |-> 0] /\ k'.mark = 0
  BY <1>1, <1>3 DEF Kernel, KernelFields
<1>9. \E S : queue \in Seq(S)
  <2> DEFINE some == {v \in Inner(net) : excess[v] > 0}
  <2>1. IsFiniteSet(some) /\ IsFiniteSet(Inner(net))
    BY <1>2, NodesCount, FS_Subset
  <2>2. /\ alg = "fifo" => queue = InOrder(some)
        /\ alg = "relabel-to-front" => queue = InOrder(Inner(net))
        /\ alg # "fifo" /\ alg # "relabel-to-front" => queue = <<>>
    BY <1>4
  <2> HIDE DEF some
  <2>3. (\E S : InOrder(some) \in Seq(S)) /\ \E S : InOrder(Inner(net)) \in Seq(S)
    BY <2>1, InOrderIsSequence
  <2>4. <<>> \in Seq({})
    OBVIOUS
  <2> QED
    BY <2>2, <2>3, <2>4
<1>10. /\ WithinBounds(net, fl)
       /\ \A v \in net.nodes : Divergence(net, fl, v) \in Int
       /\ \A v \in Inner(net) : -Divergence(net, fl, v) >= 0
       /\ \A a \in Arcs(net) : ArcFrom(net, a) = net.source /\ ArcTo(net, a) # net.source
                                      => ~(Residual(net, fl, a) > 0)
  BY <1>1, SaturatedFlow DEF fl
<1>11. excess \in [net.nodes -> Int]
  BY <1>7, <1>10
<1>12. Preflow(net, fl, excess)
  <2>1. \A v \in net.nodes : excess[v] = -Divergence(net, fl, v)
    BY <1>7
  <2>2. \A v \in Inner(net) : v \in net.nodes
    BY DEF Inner
  <2> QED
    BY <1>10, <1>11, <2>1, <2>2 DEF Preflow
<1>13. N \in Nat /\ N >= 2
  BY <1>2, NodesCount DEF N
<1>14. net.source \in net.nodes /\ net.sink \in net.nodes /\ net.source # net.sink
  BY <1>2 DEF IsNetwork
<1>15. ValidHeights(net, fl, label)
  <2>1. label \in [net.nodes -> 0..(2 * N)] /\ label[net.source] = N /\ label[net.sink] = 0
    BY <1>7, <1>13, <1>14
  <2>2. ASSUME NEW a \in Arcs(net), Residual(net, fl, a) > 0
        PROVE  label[ArcFrom(net, a)] <= label[ArcTo(net, a)] + 1
    <3>1. ArcFrom(net, a) \in net.nodes /\ ArcTo(net, a) \in net.nodes
      BY <1>2 DEF Arcs, ArcFrom, ArcTo, IsNetwork
    <3>2. ArcFrom(net, a) # net.source \/ ArcTo(net, a) = net.source
      BY <1>10, <2>2
    <3> QED
      BY <3>1, <3>2, <1>7, <1>13
  <2> QED
    BY <1>5, <2>1, <2>2 DEF ValidHeights
<1>16. Counted(net, label, counts)
  BY <1>2, <1>5, <1>6, <1>7, CountedPreflow
<1>17. k'.cursor \in [net.nodes -> Nat] /\ Passed(net, fl, label, k'.cursor)
  <2>1. ASSUME NEW v \in net.nodes
        PROVE  k'.cursor[v] \in 0..Len(net.outgoing[v]) /\ 1..k'.cursor[v] = {}
    <3>1. net.outgoing[v] \in Seq(Arcs(net)) /\ k'.cursor[v] = 0
      BY <1>2, <1>8 DEF IsNetwork
    <3>2. Len(net.outgoing[v]) \in Nat
      BY <3>1, LenProperties
    <3> QED
      BY <3>1, <3>2
  <2> QED
    BY <1>8, <2>1 DEF Passed
<1>18. SoundPreflow(flow', k')
  BY <1>3, <1>8, <1>9, <1>10, <1>12, <1>15, <1>16, <1>17 DEF SoundPreflow
<1>19. phase' \in Points /\ AtPoint(phase', flow', k')
  <2>1. CASE alg = "excess-scaling" /\ delta # 0
    <3>1. phase' = "scale"
      BY <1>3, <2>1
    <3>2. delta \in Nat /\ \A v \in Inner(net) : excess[v] <= delta
      BY <1>2, <1>7, <1>11, <2>1, ScaleIs
    <3> QED
      BY <1>8, <2>1, <3>1, <3>2 DEF AtPoint, Points
  <2>2. CASE ~(alg = "excess-scaling" /\ delta # 0)
    <3>1. phase' \in {"global", "finish", "select"}
      BY <1>3, <2>2
    <3> QED
      BY <3>1 DEF AtPoint, Points
  <2> QED
    BY <2>1, <2>2
<1> QED
  BY <1>1, <1>3, <1>18, <1>19, Established

(***************************************************************************)
(* The choice of a node, the end of its discharge and the end of a preset. *)
(***************************************************************************)
LEMMA FirstIsIn ==
    ASSUME NEW S, IsFiniteSet(S), S # {}, S \subseteq Int, NEW key, \A v \in S : key[v] \in Int
    PROVE  First(S, key) \in S
<1> DEFINE Before(v, u) == key[v] < key[u] \/ (key[v] = key[u] /\ v <= u)
           good == {T \in SUBSET S : T = {} \/ \E v \in T : \A u \in T : Before(v, u)}
<1>1. {} \in good
  OBVIOUS
<1>2. ASSUME NEW T \in SUBSET S, NEW z \in S \ T, T \in good PROVE T \cup {z} \in good
  <2>0. z \in Int /\ key[z] \in Int /\ \A v \in T : v \in Int /\ key[v] \in Int
    OBVIOUS
  <2>1. CASE T = {}
    <3>1. z \in T \cup {z} /\ \A y \in T \cup {z} : Before(z, y)
      BY <2>0, <2>1
    <3> QED
      BY <3>1
  <2>2. CASE T # {}
    <3>1. PICK x \in T : \A y \in T : Before(x, y)
      BY <1>2, <2>2
    <3>2. CASE Before(x, z)
      <4>1. x \in T \cup {z} /\ \A y \in T \cup {z} : Before(x, y)
        BY <3>1, <3>2
      <4> QED
        BY <4>1
    <3>3. CASE ~Before(x, z)
      <4>1. z \in T \cup {z} /\ \A y \in T \cup {z} : Before(z, y)
        BY <2>0, <3>1, <3>3
      <4> QED
        BY <4>1
    <3> QED
      BY <3>2, <3>3
  <2> QED
    BY <2>1, <2>2
<1> HIDE DEF good
<1>3. S \in good
  BY <1>1, <1>2, SubsetInduction
<1>4. \E v \in S : \A u \in S : Before(v, u)
  BY <1>3 DEF good
<1> QED
  BY <1>4 DEF First

LEMMA SelectedNode ==
    ASSUME PreflowInv, phase = "select"
    PROVE  /\ Selected.node # 0 => /\ Active(Selected.node)
                                   /\ alg = "relabel-to-front" => Selected.mark \in 1..Len(Selected.queue)
           /\ Selected.mark \in Nat
           /\ \E S : Selected.queue \in Seq(S)
<1> DEFINE active == {v \in net.nodes : Active(v)}
           at == Seqs!SelectInSubSeq(k.queue, k.mark + 1, Len(k.queue), Active)
           first == Seqs!SelectInSeq(k.queue, Active)
           lower == [v \in active |-> -k.label[v]]
<1>1. /\ net \in Networks /\ alg \in Presets /\ k.mark \in Nat
      /\ ValidHeights(net, flow, k.label)
  BY PreflowIs
<1>2. PICK Q : k.queue \in Seq(Q)
  BY PreflowIs
<1>3. Len(k.queue) \in Nat
  BY <1>2, LenProperties
<1>4. IsNetwork(net)
  BY <1>1, NetworksAssumption
<1>5. IsFiniteSet(active) /\ active \subseteq Int
  BY <1>4, FS_Subset DEF IsNetwork
<1>6. at # 0 => at \in 1..Len(k.queue) /\ Active(k.queue[at])
  <2> DEFINE I == {i \in (k.mark + 1)..Len(k.queue) : Active(k.queue[i])}
  <2>1. at = IF I # {} THEN Seqs!Min(I) ELSE 0
    BY DEF Seqs!SelectInSubSeq
  <2>5. I \subseteq 1..Len(k.queue) /\ I \subseteq Int /\ 1 \in Int /\ Len(k.queue) \in Int
    BY <1>1, <1>3
  <2>2. I \subseteq 1..Len(k.queue) /\ IsFiniteSet(I) /\ I \subseteq Int
    <3> HIDE DEF I
    <3>1. IsFiniteSet(1..Len(k.queue))
      BY <2>5, FS_Interval
    <3> QED
      BY <2>5, <3>1, FS_Subset
  <2>3. Seqs!Min(I) = Finite!Min(I)
    BY DEF Seqs!Min, Finite!Min
  <2>4. I # {} => Finite!Min(I) \in I
    <3> HIDE DEF I
    <3> QED
      BY <2>2, MinIsLeast
  <2> QED
    BY <2>1, <2>2, <2>3, <2>4
<1>7. first # 0 => first \in 1..Len(k.queue) /\ Active(k.queue[first])
  <2> DEFINE I == {i \in 1..Len(k.queue) : Active(k.queue[i])}
  <2>1. first = IF I # {} THEN Seqs!Min(I) ELSE 0
    BY DEF Seqs!SelectInSeq
  <2>5. I \subseteq 1..Len(k.queue) /\ I \subseteq Int /\ 1 \in Int /\ Len(k.queue) \in Int
    BY <1>3
  <2>2. I \subseteq 1..Len(k.queue) /\ IsFiniteSet(I) /\ I \subseteq Int
    <3> HIDE DEF I
    <3>1. IsFiniteSet(1..Len(k.queue))
      BY <2>5, FS_Interval
    <3> QED
      BY <2>5, <3>1, FS_Subset
  <2>3. Seqs!Min(I) = Finite!Min(I)
    BY DEF Seqs!Min, Finite!Min
  <2>4. I # {} => Finite!Min(I) \in I
    <3> HIDE DEF I
    <3> QED
      BY <2>2, MinIsLeast
  <2> QED
    BY <2>1, <2>2, <2>3, <2>4
<1>8. active # {} => Finite!Min(active) \in active
  <2> HIDE DEF active
  <2> QED
    BY <1>5, MinIsLeast
<1>9. active # {} => First(active, lower) \in active
  <2>1. \A v \in active : lower[v] \in Int
    BY <1>1 DEF ValidHeights
  <2> HIDE DEF active, lower
  <2> QED
    BY <1>5, <2>1, FirstIsIn
<1>10. Selected =
         IF active = {} THEN [node |-> 0, mark |-> k.mark, queue |-> k.queue]
         ELSE CASE alg \in {"generic", "current-arc"} ->
                [node |-> Finite!Min(active), mark |-> 0, queue |-> <<>>]
         [] alg = "fifo" ->
                [node |-> IF first = 0 THEN 0 ELSE k.queue[first], mark |-> 0,
                 queue |-> IF first = 0 THEN <<>> ELSE SubSeq(k.queue, first + 1, Len(k.queue))]
         [] alg = "relabel-to-front" ->
                [node |-> IF at = 0 THEN 0 ELSE k.queue[at],
                 mark |-> IF at = 0 THEN Len(k.queue) ELSE at, queue |-> k.queue]
         [] OTHER -> [node |-> First(active, lower), mark |-> 0, queue |-> <<>>]
  BY DEF Selected
<1>11. \A v \in active : Active(v)
  OBVIOUS
<1>12. first # 0 => SubSeq(k.queue, first + 1, Len(k.queue)) \in Seq(Q)
  <2> SUFFICES ASSUME first # 0 PROVE SubSeq(k.queue, first + 1, Len(k.queue)) \in Seq(Q)
    OBVIOUS
  <2>1. first \in 1..Len(k.queue)
    BY <1>7
  <2> HIDE DEF first
  <2>2. \A i \in (first + 1)..Len(k.queue) : k.queue[i] \in Q
    BY <2>1, <1>2, <1>3, ElementOfSeq
  <2> QED
    BY <2>1, <2>2, <1>3, SubSeqProperties
<1> HIDE DEF active, at, first, lower
<1>13. CASE active = {}
  <2>1. Selected = [node |-> 0, mark |-> k.mark, queue |-> k.queue]
    BY <1>10, <1>13
  <2> QED
    BY <2>1, <1>1, <1>2
<1>14. CASE active # {} /\ alg \in {"generic", "current-arc"}
  <2>1. Selected = [node |-> Finite!Min(active), mark |-> 0, queue |-> <<>>]
    BY <1>10, <1>14
  <2>2. <<>> \in Seq({})
    OBVIOUS
  <2> QED
    BY <2>1, <2>2, <1>8, <1>11, <1>14
<1>15. CASE active # {} /\ alg = "fifo"
  <2>1. Selected = [node |-> IF first = 0 THEN 0 ELSE k.queue[first], mark |-> 0,
                    queue |-> IF first = 0 THEN <<>> ELSE SubSeq(k.queue, first + 1, Len(k.queue))]
    BY <1>10, <1>15
  <2>2. <<>> \in Seq({})
    OBVIOUS
  <2>3. CASE first = 0
    BY <2>1, <2>2, <2>3
  <2>4. CASE first # 0
    BY <2>1, <2>4, <1>7, <1>12, <1>15
  <2> QED
    BY <2>3, <2>4
<1>16. CASE active # {} /\ alg = "relabel-to-front"
  <2>1. Selected = [node |-> IF at = 0 THEN 0 ELSE k.queue[at],
                    mark |-> IF at = 0 THEN Len(k.queue) ELSE at, queue |-> k.queue]
    BY <1>10, <1>16
  <2>3. CASE at = 0
    BY <2>1, <2>3, <1>2, <1>3
  <2>4. CASE at # 0
    BY <2>1, <2>4, <1>2, <1>3, <1>6
  <2> QED
    BY <2>3, <2>4
<1>17. CASE active # {} /\ alg \notin {"generic", "current-arc", "fifo", "relabel-to-front"}
  <2>1. Selected = [node |-> First(active, lower), mark |-> 0, queue |-> <<>>]
    BY <1>10, <1>17
  <2>2. <<>> \in Seq({})
    OBVIOUS
  <2> QED
    BY <2>1, <2>2, <1>9, <1>11, <1>17
<1> QED
  BY <1>13, <1>14, <1>15, <1>16, <1>17

LEMMA SelectStep ==
    ASSUME PreflowInv, Select
    PROVE  PreflowInv'
<1> DEFINE next == Selected
<1>1. phase = "select" /\ phase # "start" /\ KernelFields \subseteq DOMAIN k
      /\ (\E S : k.queue \in Seq(S)) /\ k.mark \in Nat
  BY PreflowIs DEF Select
<1>2. /\ next.node # 0 => /\ Active(next.node)
                          /\ alg = "relabel-to-front" => next.mark \in 1..Len(next.queue)
      /\ next.mark \in Nat
      /\ \E S : next.queue \in Seq(S)
  BY <1>1, SelectedNode
<1>3. /\ UNCHANGED <<net, alg, flow>>
      /\ k' = IF next.node = 0 THEN k
              ELSE [k EXCEPT !.node = next.node, !.mark = next.mark, !.path = <<>>,
                             !.queue = next.queue, !.delta = k.label[next.node]]
      /\ phase' = IF next.node = 0 THEN "finish"
                  ELSE IF alg = "partial-augment" THEN "path" ELSE "discharge"
  BY DEF Select, Quiet
<1> HIDE DEF next
<1>4. CASE next.node = 0
  <2>1. k' = k /\ phase' = "finish"
    BY <1>3, <1>4
  <2>2. AtPoint("finish", flow, k') /\ "finish" \in Points
    BY DEF AtPoint, Points
  <2> QED
    BY <2>1, <2>2, <1>1, <1>3, Unmoved
<1>5. CASE next.node # 0
  <2>1. /\ k' = [k EXCEPT !.node = next.node, !.mark = next.mark, !.path = <<>>,
                          !.queue = next.queue, !.delta = k.label[next.node]]
        /\ phase' = IF alg = "partial-augment" THEN "path" ELSE "discharge"
    BY <1>3, <1>5
  <2>2. /\ KernelFields \subseteq DOMAIN k'
        /\ k'.label = k.label /\ k'.cursor = k.cursor /\ k'.excess = k.excess
        /\ k'.counts = k.counts /\ k'.path = <<>>
        /\ k'.node = next.node /\ k'.mark = next.mark /\ k'.queue = next.queue
    BY <2>1, <1>1 DEF KernelFields
  <2>3. k'.node \in Inner(net)
    BY <2>2, <1>2, <1>5 DEF Active
  <2>4. InWork(net, flow, alg, k')
    <3>1. k'.path = <<>> /\ Len(<<>>) = 0 /\ <<>> \in Seq(Arcs(net))
      BY <2>2
    <3> QED
      BY <3>1 DEF InWork, WorkPath
  <2>5. phase' \in Points /\ AtPoint(phase', flow, k')
    BY <2>1, <2>2, <2>3, <2>4, <1>2, <1>5 DEF AtPoint, Points
  <2>6. (\E S : k'.queue \in Seq(S)) /\ k'.mark \in Nat
    BY <2>2, <1>2
  <2> QED
    BY <2>2, <2>5, <2>6, <1>1, <1>3, Unmoved
<1> QED
  BY <1>4, <1>5

LEMMA EndDischargeStep ==
    ASSUME PreflowInv, EndDischarge
    PROVE  PreflowInv'
<1> DEFINE v == k.node
           rose == alg = "relabel-to-front" /\ k.label[v] # k.delta
           front == <<v>> \o Seqs!RemoveAt(k.queue, k.mark)
<1>1. /\ phase = "discharge" /\ phase # "start" /\ KernelFields \subseteq DOMAIN k
      /\ alg = "relabel-to-front" => k.mark \in 1..Len(k.queue)
      /\ k.mark \in Nat
  BY PreflowIs DEF EndDischarge, AtPoint
<1>2. PICK Q : k.queue \in Seq(Q)
  BY <1>1, PreflowIs
<1>3. /\ UNCHANGED <<net, alg, flow>> /\ phase' \in {"global", "select"}
      /\ k' = IF rose THEN [k EXCEPT !.queue = front, !.mark = 1] ELSE k
  BY <1>1 DEF EndDischarge, Quiet
<1>4. rose => \E S : front \in Seq(S)
  <2> SUFFICES ASSUME rose PROVE \E S : front \in Seq(S)
    OBVIOUS
  <2>1. k.mark \in 1..Len(k.queue) /\ Len(k.queue) \in Nat
    BY <1>1, <1>2, LenProperties
  <2> DEFINE a == SubSeq(k.queue, 1, k.mark - 1)
             b == SubSeq(k.queue, k.mark + 1, Len(k.queue))
             S == Q \cup {v}
  <2>2. /\ \A i \in 1..(k.mark - 1) : k.queue[i] \in Q
        /\ \A i \in (k.mark + 1)..Len(k.queue) : k.queue[i] \in Q
    BY <2>1, <1>2, ElementOfSeq
  <2>3. a \in Seq(Q) /\ b \in Seq(Q)
    BY <2>1, <2>2, SubSeqProperties
  <2>4. Seqs!RemoveAt(k.queue, k.mark) = a \o b
    BY DEF Seqs!RemoveAt
  <2> HIDE DEF a, b
  <2>5. a \o b \in Seq(Q)
    BY <2>3, ConcatProperties
  <2>6. a \o b \in Seq(S) /\ <<v>> \in Seq(S)
    BY <2>5, SeqMonotonic
  <2> HIDE DEF S
  <2>7. <<v>> \o (a \o b) \in Seq(S)
    BY <2>6, ConcatProperties
  <2> QED
    BY <2>4, <2>7
<1> HIDE DEF rose, front
<1>5. /\ KernelFields \subseteq DOMAIN k'
      /\ k'.label = k.label /\ k'.cursor = k.cursor /\ k'.excess = k.excess
      /\ k'.counts = k.counts
      /\ k'.queue = IF rose THEN front ELSE k.queue
      /\ k'.mark = IF rose THEN 1 ELSE k.mark
  BY <1>1, <1>3 DEF KernelFields
<1>6. (\E S : k'.queue \in Seq(S)) /\ k'.mark \in Nat
  BY <1>1, <1>2, <1>4, <1>5
<1>7. phase' \in Points /\ AtPoint(phase', flow, k')
  BY <1>3 DEF AtPoint, Points
<1> QED
  BY <1>1, <1>3, <1>5, <1>6, <1>7, Unmoved

LEMMA StopStep ==
    ASSUME PreflowInv, Finish \/ Certify
    PROVE  PreflowInv'
<1>1. /\ UNCHANGED <<net, alg, flow, k>> /\ phase \in {"finish", "certify"}
      /\ phase' \in {"certify", "done", "failed"} /\ phase' \in Points
      /\ phase' \in {"certify", "done"} =>
             \/ phase = "certify"
             \/ \A v \in Inner(net) : k.excess[v] = 0
  BY DEF Finish, Certify, Stop, Quiet, Points
<1>2. /\ KernelFields \subseteq DOMAIN k /\ (\E S : k.queue \in Seq(S)) /\ k.mark \in Nat
      /\ phase # "start" /\ AtPoint(phase, flow, k)
  BY <1>1, PreflowIs
<1>3. AtPoint(phase', flow, k)
  BY <1>1, <1>2 DEF AtPoint
<1> QED
  BY <1>1, <1>2, <1>3, Unmoved

(***************************************************************************)
(* A push.                                                                 *)
(***************************************************************************)
LEMMA PlaceIsAdmissible ==
    ASSUME IsNetwork(net), NEW v \in net.nodes, k.cursor \in [net.nodes -> Nat], HasArc(v)
    PROVE  /\ Place(v) \in 1..Len(net.outgoing[v])
           /\ net.outgoing[v][Place(v)] \in Arcs(net)
           /\ ArcFrom(net, net.outgoing[v][Place(v)]) = v
           /\ Admissible(v, net.outgoing[v][Place(v)])
<1> DEFINE s == net.outgoing[v]
           found == Seqs!SelectInSubSeq(s, Start(v) + 1, Len(s), LAMBDA a : Admissible(v, a))
           I == {i \in (Start(v) + 1)..Len(s) : Admissible(v, s[i])}
<1>1. s \in Seq(Arcs(net)) /\ {s[i] : i \in DOMAIN s} = {a \in Arcs(net) : ArcFrom(net, a) = v}
  BY DEF IsNetwork
<1>2. Len(s) \in Nat /\ DOMAIN s = 1..Len(s)
  BY <1>1, LenProperties
<1>3. Place(v) = IF found = 0 THEN Len(s) + 1 ELSE found
  BY DEF Place
<1>4. found = IF I # {} THEN Seqs!Min(I) ELSE 0
  BY DEF Seqs!SelectInSubSeq
<1>5. Place(v) <= Len(s)
  BY DEF HasArc
<1>6. Start(v) \in Nat
  BY DEF Start
<1>7. I \subseteq 1..Len(s) /\ I \subseteq Int
  BY <1>2, <1>6
<1>8. \A i \in I : Admissible(v, s[i])
  OBVIOUS
<1> HIDE DEF s, found, I
<1>9. IsFiniteSet(I)
  <2>1. IsFiniteSet(1..Len(s))
    BY <1>2, FS_Interval
  <2> QED
    BY <2>1, <1>7, FS_Subset
<1>10. found # 0
  BY <1>2, <1>3, <1>5
<1>11. I # {} /\ found = Finite!Min(I)
  BY <1>4, <1>10 DEF Seqs!Min, Finite!Min
<1>12. Place(v) \in I
  BY <1>3, <1>7, <1>9, <1>10, <1>11, MinIsLeast
<1>13. Place(v) \in 1..Len(s) /\ Admissible(v, s[Place(v)])
  BY <1>7, <1>8, <1>12
<1>14. s[Place(v)] \in {a \in Arcs(net) : ArcFrom(net, a) = v}
  BY <1>1, <1>2, <1>13
<1> QED
  BY <1>13, <1>14 DEF s

\* What flows down by one keeps the heights valid: only the arc back becomes live.
LEMMA PushKeepsHeights ==
    ASSUME NEW g, IsNetwork(g), NEW fl, WithinBounds(g, fl), NEW label, ValidHeights(g, fl, label),
           NEW a \in Arcs(g), NEW amount \in Nat, amount <= Residual(g, fl, a),
           Residual(g, fl, a) > 0, label[ArcFrom(g, a)] = label[ArcTo(g, a)] + 1
    PROVE  ValidHeights(g, Augment(g, fl, <<a>>, amount), label)
<1> DEFINE new == Augment(g, fl, <<a>>, amount)
<1>1. ASSUME NEW b \in Arcs(g), Residual(g, new, b) > 0
      PROVE  label[ArcFrom(g, b)] <= label[ArcTo(g, b)] + 1
  <2>1. /\ b[1] \in Edges(g) /\ b[2] \in {"forward", "reverse"} /\ b = <<b[1], b[2]>>
        /\ a[1] \in Edges(g) /\ a[2] \in {"forward", "reverse"} /\ a = <<a[1], a[2]>>
    BY DEF Arcs
  <2>2. /\ fl[b[1]] \in Int /\ g.lower[b[1]] \in Int /\ g.capacity[b[1]] \in Int
    BY <2>1, NetworkTypes
  <2>3. new[b[1]] = IF b[1] # a[1] THEN fl[b[1]]
                    ELSE IF a[2] = "forward" THEN fl[b[1]] + amount ELSE fl[b[1]] - amount
    BY <2>1, <2>2, AugmentArc
  <2> HIDE DEF new
  <2>4. CASE Residual(g, fl, b) > 0
    BY <2>4 DEF ValidHeights
  <2>5. CASE ~(Residual(g, fl, b) > 0)
    <3>1. b[1] = a[1] /\ b[2] # a[2]
      BY <2>1, <2>2, <2>3, <2>5, <1>1 DEF Residual
    <3>2. ArcFrom(g, b) = ArcTo(g, a) /\ ArcTo(g, b) = ArcFrom(g, a)
      BY <2>1, <3>1 DEF ArcFrom, ArcTo
    <3>3. label[ArcTo(g, a)] \in Int
      BY ResidualIsInt DEF ValidHeights
    <3> QED
      BY <3>2, <3>3
  <2> QED
    BY <2>4, <2>5
<1> QED
  BY <1>1 DEF ValidHeights

LEMMA PushKeepsPreflow ==
    ASSUME NEW g, IsNetwork(g), NEW fl, WithinBounds(g, fl), NEW excess, Preflow(g, fl, excess),
           NEW a \in Arcs(g), NEW amount \in Nat, amount <= excess[ArcFrom(g, a)],
           ArcFrom(g, a) # ArcTo(g, a),
           NEW new, new = [u \in g.nodes |-> excess[u] - (IF u = ArcFrom(g, a) THEN amount ELSE 0)
                                                       + (IF u = ArcTo(g, a) THEN amount ELSE 0)]
    PROVE  Preflow(g, Augment(g, fl, <<a>>, amount), new)
<1> DEFINE fl2 == Augment(g, fl, <<a>>, amount)
<1>1. \A v \in g.nodes : excess[v] \in Int /\ excess[v] = -Divergence(g, fl, v)
  BY DEF Preflow
<1>2. new \in [g.nodes -> Int]
  BY <1>1
<1>3. ASSUME NEW v \in g.nodes PROVE new[v] = -Divergence(g, fl2, v)
  <2>1. /\ Divergence(g, fl, v) \in Int
        /\ Divergence(g, fl2, v) = Divergence(g, fl, v)
                  + (IF v = ArcFrom(g, a) THEN amount ELSE 0)
                  - (IF v = ArcTo(g, a) THEN amount ELSE 0)
    BY AugmentedDivergence
  <2> HIDE DEF fl2
  <2> QED
    BY <2>1, <1>1
<1>4. ASSUME NEW v \in Inner(g) PROVE new[v] >= 0
  <2>1. v \in g.nodes /\ excess[v] >= 0
    BY DEF Inner, Preflow
  <2> QED
    BY <2>1, <1>1
<1> QED
  BY <1>2, <1>3, <1>4 DEF Preflow

\* A push down by one makes at most the arc back live, and that leads up; the
\* arc itself is passed only when it has nothing left.
LEMMA PushPasses ==
    ASSUME NEW g, IsNetwork(g), NEW fl, WithinBounds(g, fl), NEW label, ValidHeights(g, fl, label),
           NEW cursor, cursor \in [g.nodes -> Nat], Passed(g, fl, label, cursor),
           NEW v \in g.nodes, NEW i \in 1..Len(g.outgoing[v]), NEW a, a = g.outgoing[v][i],
           Residual(g, fl, a) > 0, label[v] = label[ArcTo(g, a)] + 1,
           \A j \in (cursor[v] + 1)..(i - 1) :
               LET b == g.outgoing[v][j]
               IN ~(Residual(g, fl, b) > 0 /\ label[v] = label[ArcTo(g, b)] + 1),
           NEW amount \in Nat, amount <= Residual(g, fl, a)
    PROVE  Passed(g, Augment(g, fl, <<a>>, amount), label,
                  [cursor EXCEPT ![v] = IF amount = Residual(g, fl, a) THEN i ELSE i - 1])
<1> DEFINE next == [cursor EXCEPT ![v] = IF amount = Residual(g, fl, a) THEN i ELSE i - 1]
<1> DEFINE new == Augment(g, fl, <<a>>, amount)
<1>1. a \in Arcs(g) /\ ArcFrom(g, a) = v
  BY ListedArc
<1>2. ASSUME NEW b \in Arcs(g), Residual(g, new, b) > 0, label[ArcFrom(g, b)] = label[ArcTo(g, b)] + 1
      PROVE  /\ Residual(g, fl, b) > 0
             /\ b = a => amount # Residual(g, fl, a)
  <2>1. /\ b[1] \in Edges(g) /\ b[2] \in {"forward", "reverse"} /\ b = <<b[1], b[2]>>
        /\ a[1] \in Edges(g) /\ a[2] \in {"forward", "reverse"} /\ a = <<a[1], a[2]>>
    BY <1>1 DEF Arcs
  <2>2. /\ fl[b[1]] \in Int /\ g.lower[b[1]] \in Int /\ g.capacity[b[1]] \in Int
    BY <2>1, NetworkTypes
  <2>3. new[b[1]] = IF b[1] # a[1] THEN fl[b[1]]
                    ELSE IF a[2] = "forward" THEN fl[b[1]] + amount ELSE fl[b[1]] - amount
    BY <2>1, <2>2, <1>1, AugmentArc, SMTT(30)
  <2> HIDE DEF new
  <2>4. ~(b[1] = a[1] /\ b[2] # a[2])
    <3> SUFFICES ASSUME b[1] = a[1], b[2] # a[2] PROVE FALSE
      OBVIOUS
    <3>1. ArcFrom(g, b) = ArcTo(g, a) /\ ArcTo(g, b) = ArcFrom(g, a)
      BY <2>1 DEF ArcFrom, ArcTo
    <3>2. label[ArcTo(g, a)] \in Int
      <4>1. ArcTo(g, a) \in g.nodes
        BY <1>1, ResidualIsInt
      <4>2. label \in [g.nodes -> 0..(2 * Cardinality(g.nodes))]
        BY DEF ValidHeights
      <4> QED
        BY ONLY <4>1, <4>2
    <3> QED
      BY ONLY <3>1, <3>2, <1>1, <1>2, label[v] = label[ArcTo(g, a)] + 1
  <2>5. CASE b[1] # a[1]
    <3>1. new[b[1]] = fl[b[1]]
      BY <2>3, <2>5
    <3> QED
      BY <2>1, <2>5, <3>1, <1>2 DEF Residual
  <2>6. CASE b[1] = a[1] /\ b[2] = a[2]
    <3>1. b = a
      BY <2>1, <2>6
    <3>2. Residual(g, new, b) = Residual(g, fl, b) - amount /\ Residual(g, fl, b) \in Int
      <4>1. new[b[1]] = IF b[2] = "forward" THEN fl[b[1]] + amount ELSE fl[b[1]] - amount
        BY <2>3, <2>6
      <4> DEFINE m == new[b[1]]
      <4> HIDE DEF m
      <4>2. CASE b[2] = "forward"
        <5>1. m = fl[b[1]] + amount
          BY <4>1, <4>2 DEF m
        <5>2. Residual(g, new, b) = g.capacity[b[1]] - m /\ Residual(g, fl, b) = g.capacity[b[1]] - fl[b[1]]
          BY <4>2 DEF Residual, m
        <5> QED
          BY <5>1, <5>2, <2>2
      <4>3. CASE b[2] = "reverse"
        <5>1. m = fl[b[1]] - amount
          BY <4>1, <4>3 DEF m
        <5>2. Residual(g, new, b) = m - g.lower[b[1]] /\ Residual(g, fl, b) = fl[b[1]] - g.lower[b[1]]
          BY <4>3 DEF Residual, m
        <5> QED
          BY <5>1, <5>2, <2>2
      <4> QED
        BY <2>1, <4>2, <4>3
    <3> QED
      BY <3>1, <3>2, <1>2
  <2> QED
    BY <2>4, <2>5, <2>6
<1>3. Len(g.outgoing[v]) \in Nat /\ cursor[v] \in Nat
  <2>1. g.outgoing[v] \in Seq(Arcs(g))
    BY DEF IsNetwork
  <2> QED
    BY <2>1, LenProperties
<1> HIDE DEF new
<1> SUFFICES ASSUME NEW u \in g.nodes
             PROVE  /\ next[u] \in 0..Len(g.outgoing[u])
                    /\ \A j \in 1..next[u] :
                           ~(/\ Residual(g, new, g.outgoing[u][j]) > 0
                             /\ label[u] = label[ArcTo(g, g.outgoing[u][j])] + 1)
  BY DEF Passed, new
<1>4. cursor[u] \in 0..Len(g.outgoing[u])
  BY DEF Passed
<1>5. CASE u # v
  <2>1. next[u] = cursor[u]
    BY <1>5
  <2>2. ASSUME NEW j \in 1..next[u], Residual(g, new, g.outgoing[u][j]) > 0,
               label[u] = label[ArcTo(g, g.outgoing[u][j])] + 1
        PROVE  FALSE
    <3> DEFINE b == g.outgoing[u][j]
    <3>1. j \in 1..Len(g.outgoing[u]) /\ j \in 1..cursor[u]
      BY <1>4, <2>1
    <3>2. b \in Arcs(g) /\ ArcFrom(g, b) = u
      BY <3>1, ListedArc
    <3>3. ~(Residual(g, fl, b) > 0 /\ label[u] = label[ArcTo(g, b)] + 1)
      BY <3>1 DEF Passed
    <3>4. Residual(g, new, b) > 0 /\ label[u] = label[ArcTo(g, b)] + 1
      BY <2>2
    <3> HIDE DEF b
    <3> QED
      BY <3>2, <3>3, <3>4, <1>2
  <2> QED
    BY <1>4, <2>1, <2>2
<1>6. CASE u = v
  <2>1. next[v] = IF amount = Residual(g, fl, a) THEN i ELSE i - 1
    OBVIOUS
  <2>2. next[v] \in 0..Len(g.outgoing[v]) /\ next[v] \in Int /\ next[v] <= i
    BY <1>3, <2>1
  <2>3. ASSUME NEW j \in 1..next[v], Residual(g, new, g.outgoing[v][j]) > 0,
               label[v] = label[ArcTo(g, g.outgoing[v][j])] + 1
        PROVE  FALSE
    <3> DEFINE b == g.outgoing[v][j]
    <3>1. j \in 1..Len(g.outgoing[v]) /\ j \in Int /\ j <= i
      BY <1>3, <2>2
    <3>2. b \in Arcs(g) /\ ArcFrom(g, b) = v
      BY <3>1, ListedArc
    <3>3. j \in 1..cursor[v] \/ j \in (cursor[v] + 1)..(i - 1)
              => ~(Residual(g, fl, b) > 0 /\ label[v] = label[ArcTo(g, b)] + 1)
      BY DEF Passed
    <3>4. Residual(g, new, b) > 0 /\ label[v] = label[ArcTo(g, b)] + 1
      BY <2>3
    <3>5. j = i => b = a /\ next[v] = i
      BY <1>3, <2>1, <2>2, <3>1
    <3> HIDE DEF b
    <3>6. Residual(g, fl, b) > 0 /\ (b = a => amount # Residual(g, fl, a))
      BY <3>2, <3>4, <1>2
    <3>7. j # i
      BY <3>5, <3>6, <2>1, <1>3
    <3>8. j \in 1..cursor[v] \/ j \in (cursor[v] + 1)..(i - 1)
      BY <3>1, <3>7, <1>3
    <3> QED
      BY <3>3, <3>4, <3>6, <3>8
  <2> QED
    BY <1>6, <2>2, <2>3
<1> QED
  BY <1>5, <1>6

\* What a push leaves: only the excess of its two nodes changes, one current
\* arc and maybe a queue.
AfterPush(v, a, amount) ==
    /\ SoundPreflow(flow', k')
    /\ k'.node = k.node /\ k'.mark = k.mark /\ k'.delta = k.delta
    /\ To(a) \in net.nodes /\ To(a) # v
    /\ k'.excess = [u \in net.nodes |-> k.excess[u] - (IF u = v THEN amount ELSE 0)
                                                    + (IF u = To(a) THEN amount ELSE 0)]
    /\ k'.queue = k.queue \/ (alg = "fifo" /\ k'.queue = Append(k.queue, To(a)))

LEMMA PushedIs ==
    ASSUME PreflowInv, phase # "start", UNCHANGED <<net, alg>>,
           NEW v \in Inner(net), HasArc(v), NEW i, i = Place(v), NEW a, a = net.outgoing[v][i],
           NEW amount \in Nat, amount <= k.excess[v], amount <= R(a), Pushed(v, i, a, amount)
    PROVE  AfterPush(v, a, amount)
<1>1. /\ net \in Networks /\ IsNetwork(net) /\ alg \in Presets /\ alg # "dinic"
      /\ KernelFields \subseteq DOMAIN k /\ k.cursor \in [net.nodes -> Nat] /\ k.mark \in Nat
      /\ WithinBounds(net, flow) /\ Preflow(net, flow, k.excess)
      /\ ValidHeights(net, flow, k.label) /\ Counted(net, k.label, k.counts)
      /\ alg # "generic" => Passed(net, flow, k.label, k.cursor)
      /\ v \in net.nodes /\ v # net.source /\ v # net.sink
      /\ Len(net.outgoing[v]) \in Nat
      /\ k.label \in [net.nodes -> Int]
  BY PreflowIs
<1>2. i \in 1..Len(net.outgoing[v]) /\ a \in Arcs(net) /\ ArcFrom(net, a) = v /\ Admissible(v, a)
  BY <1>1, PlaceIsAdmissible
<1>3. i \in Nat /\ i - 1 \in Nat
  BY <1>1, <1>2
<1>4. /\ R(a) > 0 /\ R(a) = Residual(net, flow, a) /\ R(a) \in Nat
      /\ ArcTo(net, a) \in net.nodes /\ To(a) = ArcTo(net, a)
      /\ k.label[v] = k.label[ArcTo(net, a)] + 1
  BY <1>1, <1>2, ResidualIsInt DEF Admissible, R, To
<1>5. v # ArcTo(net, a)
  <2>1. k.label[ArcTo(net, a)] \in Int
    BY <1>1, <1>4
  <2> QED
    BY <1>4, <2>1
<1>6. /\ flow' = Augment(net, flow, <<a>>, amount)
      /\ KernelFields \subseteq DOMAIN k'
      /\ k'.excess = [u \in net.nodes |-> k.excess[u] - (IF u = v THEN amount ELSE 0)
                                              + (IF u = To(a) THEN amount ELSE 0)]
      /\ k'.cursor = [k.cursor EXCEPT ![v] = Kept(v, IF amount = R(a) THEN i ELSE i - 1)]
      /\ k'.label = k.label /\ k'.counts = k.counts /\ k'.node = k.node /\ k'.mark = k.mark
      /\ k'.delta = k.delta
  BY <1>1 DEF Pushed, KernelFields
<1>7. k'.queue = k.queue \/ (alg = "fifo" /\ k'.queue = Append(k.queue, To(a)))
  BY <1>1 DEF Pushed, KernelFields
<1>8. k'.cursor \in [net.nodes -> Nat]
  <2>1. Kept(v, IF amount = R(a) THEN i ELSE i - 1) \in Nat
    BY <1>1, <1>3 DEF Kept
  <2> QED
    BY <2>1, <1>1, <1>6
<1>9. WithinBounds(net, flow')
  <2>1. WithinBounds(net, Augment(net, flow, <<a>>, amount))
    BY <1>1, <1>2, <1>4, AugmentKeepsBounds
  <2> QED
    BY <2>1, <1>6
<1>10. Preflow(net, flow', k'.excess)
  <2>1. Preflow(net, Augment(net, flow, <<a>>, amount), k'.excess)
    <3> DEFINE new == k'.excess
    <3>1. new = [u \in net.nodes |-> k.excess[u] - (IF u = ArcFrom(net, a) THEN amount ELSE 0)
                                                + (IF u = ArcTo(net, a) THEN amount ELSE 0)]
      BY <1>2, <1>4, <1>6
    <3> HIDE DEF new
    <3>2. amount <= k.excess[ArcFrom(net, a)] /\ ArcFrom(net, a) # ArcTo(net, a)
      BY <1>2, <1>5
    <3>3. Preflow(net, Augment(net, flow, <<a>>, amount), new)
      BY <1>1, <1>2, <3>1, <3>2, PushKeepsPreflow
    <3> QED
      BY <3>3 DEF new
  <2> QED
    BY <2>1, <1>6
<1>11. ValidHeights(net, flow', k'.label)
  <2>1. ValidHeights(net, Augment(net, flow, <<a>>, amount), k.label)
    BY <1>1, <1>2, <1>4, PushKeepsHeights
  <2> QED
    BY <2>1, <1>6
<1>12. Counted(net, k'.label, k'.counts)
  BY <1>1, <1>6
<1>13. \E S : k'.queue \in Seq(S)
  <2>1. PICK Q : k.queue \in Seq(Q)
    BY PreflowIs
  <2>2. CASE k'.queue = k.queue
    BY <2>1, <2>2
  <2>3. CASE k'.queue = Append(k.queue, To(a))
    <3> DEFINE S == Q \cup {To(a)}
    <3>1. k.queue \in Seq(S)
      BY <2>1, SeqMonotonic
    <3>2. To(a) \in S
      OBVIOUS
    <3> HIDE DEF S
    <3>3. k'.queue \in Seq(S)
      BY <3>1, <3>2, <2>3
    <3> QED
      BY <3>3
  <2> QED
    BY <2>2, <2>3, <1>7
<1>14. alg # "generic" => Passed(net, flow', k'.label, k'.cursor)
  <2> SUFFICES ASSUME alg # "generic" PROVE Passed(net, flow', k'.label, k'.cursor)
    OBVIOUS
  <2>1. k.cursor[v] \in 0 .. Len(net.outgoing[v]) /\ k.cursor[v] \in Nat
    BY <1>1 DEF Passed
  <2>2. \A j \in (k.cursor[v] + 1)..(i - 1) :
            LET b == net.outgoing[v][j]
            IN ~(Residual(net, flow, b) > 0 /\ k.label[v] = k.label[ArcTo(net, b)] + 1)
    <3> TAKE j \in (k.cursor[v] + 1)..(i - 1)
    <3>1. j \in 1 .. Len(net.outgoing[v])
      BY <1>1, <1>2, <2>1
    <3>2. ~LeadsOn(net, flow, alg, k.label, net.outgoing[v][j])
      BY <1>1, <2>1, PlaceIsBetween
    <3>3. ArcFrom(net, net.outgoing[v][j]) = v
      BY <1>1, <3>1, ListedArc
    <3> QED
      BY <1>1, <3>2, <3>3 DEF LeadsOn
  <2>3. k'.cursor = [k.cursor EXCEPT ![v] = IF amount = Residual(net, flow, a) THEN i ELSE i - 1]
    BY <1>4, <1>6 DEF Kept
  <2>4. Passed(net, Augment(net, flow, <<a>>, amount), k.label,
                [k.cursor EXCEPT ![v] = IF amount = Residual(net, flow, a) THEN i ELSE i - 1])
    <3> DEFINE fl == flow
               label == k.label
               cursor == k.cursor
    <3>1. /\ IsNetwork(net) /\ WithinBounds(net, fl) /\ ValidHeights(net, fl, label)
          /\ cursor \in [net.nodes -> Nat] /\ Passed(net, fl, label, cursor)
          /\ v \in net.nodes /\ i \in 1 .. Len(net.outgoing[v]) /\ a = net.outgoing[v][i]
          /\ Residual(net, fl, a) > 0 /\ amount <= Residual(net, fl, a) /\ amount \in Nat
          /\ label[v] = label[ArcTo(net, a)] + 1
      BY <1>1, <1>2, <1>4
    <3>2. \A j \in (cursor[v] + 1)..(i - 1) :
              LET b == net.outgoing[v][j]
              IN ~(Residual(net, fl, b) > 0 /\ label[v] = label[ArcTo(net, b)] + 1)
      BY <2>2
    <3> HIDE DEF fl, label, cursor
    <3>3. Passed(net, Augment(net, fl, <<a>>, amount), label,
                 [cursor EXCEPT ![v] = IF amount = Residual(net, fl, a) THEN i ELSE i - 1])
      BY ONLY <3>1, <3>2, PushPasses
    <3> QED
      BY <3>3 DEF fl, label, cursor
  <2> QED
    BY <1>6, <2>3, <2>4
<1> QED
  BY <1>1, <1>4, <1>5, <1>6, <1>7, <1>8, <1>9, <1>10, <1>11, <1>12, <1>13, <1>14
  DEF AfterPush, SoundPreflow

LEMMA PushStep ==
    ASSUME PreflowInv, Push
    PROVE  PreflowInv'
<1> DEFINE v == k.node
           i == Place(v)
           a == net.outgoing[v][i]
           amount == Finite!Min({k.excess[v], R(a)})
<1>1. /\ phase = "discharge" /\ phase # "start" /\ HasArc(v)
      /\ UNCHANGED <<net, alg, phase>> /\ Pushed(v, i, a, amount)
  BY DEF Push, Quiet
<1>2. /\ v \in Inner(net)
      /\ alg = "relabel-to-front" => k.mark \in 1..Len(k.queue)
      /\ net \in Networks /\ alg \in Presets /\ IsNetwork(net) /\ WithinBounds(net, flow)
      /\ v \in net.nodes /\ k.excess[v] \in Nat /\ k.cursor \in [net.nodes -> Nat]
  BY <1>1, PreflowIs DEF AtPoint, Preflow
<1>3. a \in Arcs(net)
  BY <1>1, <1>2, PlaceIsAdmissible
<1> HIDE DEF i, a
<1>4. R(a) \in Nat
  BY <1>2, <1>3, ResidualIsInt DEF R
<1>5. amount \in Nat /\ amount <= k.excess[v] /\ amount <= R(a)
  <2> DEFINE x == k.excess[v]
             r == R(a)
  <2>1. x \in Nat /\ r \in Nat
    BY <1>2, <1>4
  <2> HIDE DEF x, r
  <2>2. Finite!Min({x, r}) \in {x, r} /\ Finite!Min({x, r}) <= x /\ Finite!Min({x, r}) <= r
    BY <2>1, MinOfTwo
  <2> QED
    BY <2>1, <2>2 DEF x, r
<1>6. i = Place(v) /\ a = net.outgoing[v][i]
  BY DEF i, a
<1> HIDE DEF amount, v
<1>7. AfterPush(v, a, amount)
  BY <1>1, <1>2, <1>5, <1>6, PushedIs
<1>8. phase' \in Points /\ AtPoint(phase', flow', k')
  BY <1>1, <1>2, <1>7 DEF AtPoint, Points, AfterPush, v
<1> QED
  BY <1>1, <1>2, <1>7, <1>8, Established DEF AfterPush

(***************************************************************************)
(* A rise.                                                                 *)
(***************************************************************************)
\* One above the lowest neighbour is high enough for every live arc.
LEMMA RaiseKeepsHeights ==
    ASSUME NEW g, IsNetwork(g), NEW fl, WithinBounds(g, fl), NEW label, ValidHeights(g, fl, label),
           NEW v \in Inner(g), NEW h \in Int, h > label[v], h <= 2 * Cardinality(g.nodes),
           \A a \in Arcs(g) : ArcFrom(g, a) = v /\ Residual(g, fl, a) > 0
                                  => h <= label[ArcTo(g, a)] + 1
    PROVE  ValidHeights(g, fl, [u \in g.nodes |-> IF u = v THEN h ELSE label[u]])
<1> DEFINE new == [u \in g.nodes |-> IF u = v THEN h ELSE label[u]]
           n == Cardinality(g.nodes)
<1>1. v \in g.nodes /\ v # g.source /\ v # g.sink /\ g.source \in g.nodes /\ g.sink \in g.nodes
  BY DEF Inner, Terminals, IsNetwork
<1>2. n \in Nat
  BY NodesCount
<1>3. \A u \in g.nodes : label[u] \in 0..(2 * n)
  BY DEF ValidHeights
<1>4. new \in [g.nodes -> 0..(2 * n)]
  <2> HIDE DEF n
  <2>1. \A u \in g.nodes : (IF u = v THEN h ELSE label[u]) \in 0..(2 * n)
    BY <1>1, <1>2, <1>3 DEF n
  <2> QED
    BY <2>1
<1>5. new[g.source] = n /\ new[g.sink] = 0
  BY <1>1 DEF ValidHeights
<1>6. ASSUME NEW a \in Arcs(g), Residual(g, fl, a) > 0
      PROVE  new[ArcFrom(g, a)] <= new[ArcTo(g, a)] + 1
  <2>1. ArcFrom(g, a) \in g.nodes /\ ArcTo(g, a) \in g.nodes
    BY ResidualIsInt
  <2>2. label[ArcFrom(g, a)] <= label[ArcTo(g, a)] + 1
    BY <1>6 DEF ValidHeights
  <2>3. ArcFrom(g, a) = v => h <= label[ArcTo(g, a)] + 1
    BY <1>6
  <2>4. /\ label[ArcFrom(g, a)] \in Int /\ label[ArcTo(g, a)] \in Int /\ label[v] \in Int
        /\ new[ArcFrom(g, a)] = IF ArcFrom(g, a) = v THEN h ELSE label[ArcFrom(g, a)]
        /\ new[ArcTo(g, a)] = IF ArcTo(g, a) = v THEN h ELSE label[ArcTo(g, a)]
    BY <2>1, <1>1, <1>2, <1>3
  <2> HIDE DEF new
  <2>5. CASE ArcTo(g, a) = v
    BY <2>2, <2>3, <2>4, <2>5
  <2>6. CASE ArcTo(g, a) # v
    BY <2>2, <2>3, <2>4, <2>6
  <2> QED
    BY <2>5, <2>6
<1> QED
  BY <1>4, <1>5, <1>6 DEF ValidHeights

\* The gap rule: where no node has the height d, the nodes above it and below
\* the number of nodes may all be lifted past that number at once.
Above(g, label, d) == {u \in Inner(g) : label[u] > d /\ label[u] < Cardinality(g.nodes)}

Lifted(g, label, up) == [u \in g.nodes |-> IF u \in up THEN Cardinality(g.nodes) + 1 ELSE label[u]]

LEMMA GapKeepsHeights ==
    ASSUME NEW g, IsNetwork(g), NEW fl, WithinBounds(g, fl), NEW label, ValidHeights(g, fl, label),
           NEW d \in Nat, \A u \in g.nodes : label[u] # d,
           NEW up, up = Above(g, label, d)
    PROVE  ValidHeights(g, fl, Lifted(g, label, up))
<1> DEFINE n == Cardinality(g.nodes)
           new == [u \in g.nodes |-> IF u \in up THEN n + 1 ELSE label[u]]
<1>1. n \in Nat /\ n >= 2
  BY NodesCount
<1>2. /\ g.source \in g.nodes /\ g.sink \in g.nodes /\ g.source \notin up /\ g.sink \notin up
      /\ label[g.source] = n /\ label[g.sink] = 0
  BY DEF Inner, Terminals, IsNetwork, ValidHeights, Above
<1>3. \A u \in g.nodes : label[u] \in 0..(2 * n)
  BY DEF ValidHeights
<1>4. \A u \in g.nodes : u \in up <=> u # g.source /\ u # g.sink /\ label[u] > d /\ label[u] < n
  BY DEF Inner, Terminals, Above
<1> HIDE DEF n
<1>5. new \in [g.nodes -> 0..(2 * n)]
  <2>1. \A u \in g.nodes : (IF u \in up THEN n + 1 ELSE label[u]) \in 0..(2 * n)
    BY <1>1, <1>3
  <2> QED
    BY <2>1
<1>6. new[g.source] = n /\ new[g.sink] = 0
  BY <1>2
<1>7. ASSUME NEW a \in Arcs(g), Residual(g, fl, a) > 0
      PROVE  new[ArcFrom(g, a)] <= new[ArcTo(g, a)] + 1
  <2> DEFINE x == ArcFrom(g, a)
             y == ArcTo(g, a)
  <2>1. x \in g.nodes /\ y \in g.nodes
    BY ResidualIsInt
  <2>2. label[x] <= label[y] + 1
    BY <1>7 DEF ValidHeights
  <2> HIDE DEF x, y
  <2>3. /\ label[x] \in Int /\ label[y] \in Int /\ label[x] >= 0 /\ label[y] >= 0
        /\ label[x] # d /\ label[y] # d
    BY <2>1, <1>1, <1>3
  <2>4. /\ new[x] = IF x \in up THEN n + 1 ELSE label[x]
        /\ new[y] = IF y \in up THEN n + 1 ELSE label[y]
    BY <2>1
  <2> HIDE DEF new
  <2>5. ASSUME x \in up /\ y \notin up PROVE new[x] <= new[y] + 1
    <3>1. label[x] > d /\ label[x] < n
      BY <2>1, <2>5, <1>4
    <3>2. label[y] > d
      BY <3>1, <2>2, <2>3
    <3>3. y # g.sink
      BY <3>2, <1>2
    <3>4. label[y] >= n
      BY <3>2, <3>3, <2>1, <2>3, <2>5, <1>1, <1>2, <1>4
    <3> QED
      BY <3>4, <2>3, <2>4, <2>5, <1>1
  <2>6. ASSUME x \in up /\ y \in up PROVE new[x] <= new[y] + 1
    BY <2>4, <2>6, <1>1
  <2>7. ASSUME x \notin up /\ y \in up PROVE new[x] <= new[y] + 1
    <3>1. label[y] < n
      BY <2>1, <2>7, <1>4
    <3> QED
      BY <3>1, <2>2, <2>3, <2>4, <2>7, <1>1
  <2>8. ASSUME x \notin up /\ y \notin up PROVE new[x] <= new[y] + 1
    BY <2>2, <2>4, <2>8
  <2>9. new[x] <= new[y] + 1
    BY <2>5, <2>6, <2>7, <2>8
  <2> QED
    BY <2>9 DEF x, y
<1> QED
  BY <1>5, <1>6, <1>7 DEF ValidHeights, n, Lifted

LEMMA NewHeightIsLow ==
    ASSUME IsNetwork(net), WithinBounds(net, flow), ValidHeights(net, flow, k.label),
           NEW v \in net.nodes, MayRelabel(v, NewHeight(v))
    PROVE  /\ NewHeight(v) \in Int
           /\ \A a \in Arcs(net) : ArcFrom(net, a) = v /\ Residual(net, flow, a) > 0
                                       => NewHeight(v) <= k.label[ArcTo(net, a)] + 1
<1> DEFINE S == Neighbours(v)
<1>1. N \in Nat /\ N = Cardinality(net.nodes)
  BY NodesCount DEF N
<1>2. \A a \in Arcs(net) : k.label[ArcTo(net, a)] \in 0..(2 * N)
  BY <1>1, ResidualIsInt DEF ValidHeights
<1>3. S \subseteq 0..(2 * N)
  BY <1>2 DEF Neighbours, LiveArcs, Live, To
<1>4. \A a \in Arcs(net) : ArcFrom(net, a) = v /\ Residual(net, flow, a) > 0
                               => k.label[ArcTo(net, a)] \in S
  BY DEF Neighbours, LiveArcs, Live, To
<1>5. NewHeight(v) = IF S = {} THEN 2 * N ELSE Finite!Min(S) + 1
  BY DEF NewHeight
<1>6. NewHeight(v) < 2 * N
  BY DEF MayRelabel
<1> HIDE DEF S
<1>7. IsFiniteSet(S) /\ S \subseteq Int
  <2>1. IsFiniteSet(0..(2 * N))
    BY <1>1, FS_Interval
  <2>2. S \subseteq Int
    BY <1>1, <1>3
  <2> QED
    BY <2>1, <2>2, <1>3, FS_Subset
<1>8. S # {}
  BY <1>1, <1>5, <1>6
<1>9. Finite!Min(S) \in S /\ \A y \in S : Finite!Min(S) <= y
  BY <1>7, <1>8, MinIsLeast
<1>10. NewHeight(v) = Finite!Min(S) + 1 /\ Finite!Min(S) \in Int
  BY <1>5, <1>7, <1>8, <1>9
<1>11. ASSUME NEW a \in Arcs(net), ArcFrom(net, a) = v, Residual(net, flow, a) > 0
       PROVE  NewHeight(v) <= k.label[ArcTo(net, a)] + 1
  <2>1. k.label[ArcTo(net, a)] \in S /\ k.label[ArcTo(net, a)] \in Int
    BY <1>4, <1>7, <1>11
  <2> QED
    BY <2>1, <1>9, <1>10
<1> QED
  BY <1>10, <1>11

\* What a rise leaves: the heights and the current arcs of the nodes that rose.
AfterRise(v, h, up, s) ==
    /\ SoundPreflow(flow, s)
    /\ s.node = k.node /\ s.mark = k.mark /\ s.delta = k.delta /\ s.path = k.path
    /\ s.excess = k.excess /\ s.queue = k.queue
    /\ s.label = RaisedLabel(net, k.label, v, h, up)
    /\ s.cursor = [u \in net.nodes |-> IF u \in up \cup {v} THEN 0 ELSE k.cursor[u]]
    /\ h \in Int /\ h > k.label[v]

LEMMA RaisedIs ==
    ASSUME PreflowInv, phase # "start",
           NEW v \in Inner(net), NEW h, h = NewHeight(v), MayRelabel(v, h),
           NEW up, up = Cut(v, h) \/ up = {}, NEW s, s = Raised(v, h, up)
    PROVE  AfterRise(v, h, up, s)
<1> DEFINE n == Cardinality(net.nodes)
           raised == [u \in net.nodes |-> IF u = v THEN h ELSE k.label[u]]
           new == RaisedLabel(net, k.label, v, h, up)
<1>1. /\ net \in Networks /\ IsNetwork(net) /\ v \in net.nodes
      /\ KernelFields \subseteq DOMAIN k /\ k.cursor \in [net.nodes -> Nat] /\ k.mark \in Nat
      /\ WithinBounds(net, flow) /\ Preflow(net, flow, k.excess)
      /\ ValidHeights(net, flow, k.label) /\ Counted(net, k.label, k.counts)
      /\ alg # "generic" => Passed(net, flow, k.label, k.cursor)
      /\ \E S : k.queue \in Seq(S)
      /\ N = n /\ n \in Nat /\ k.label \in [net.nodes -> Int]
      /\ Descends(net, flow, k.label)
  BY PreflowIs
<1>2. /\ h \in Int
      /\ \A a \in Arcs(net) : ArcFrom(net, a) = v /\ Residual(net, flow, a) > 0
                                  => h <= k.label[ArcTo(net, a)] + 1
  BY <1>1, NewHeightIsLow
<1>3. h > k.label[v] /\ h < 2 * n
  BY <1>1 DEF MayRelabel
<1>4. \/ /\ alg = "gap-relabel" /\ k.label[v] < n /\ k.counts[k.label[v]] = 1
         /\ up = {u \in Inner(net) : /\ (IF u = v THEN h ELSE k.label[u]) > k.label[v]
                                     /\ (IF u = v THEN h ELSE k.label[u]) < n}
      \/ up = {}
  <2>1. Cut(v, h) = IF alg = "gap-relabel" /\ k.label[v] < n /\ k.counts[k.label[v]] = 1
                    THEN {u \in Inner(net) : LET at == IF u = v THEN h ELSE k.label[u]
                                             IN at > k.label[v] /\ at < n}
                    ELSE {}
    BY <1>1 DEF Cut
  <2> QED
    BY <2>1
<1>5. /\ s.label = new
      /\ s.cursor = [u \in net.nodes |-> IF u \in up \cup {v} THEN 0 ELSE k.cursor[u]]
      /\ s.counts = RaisedCount(net, k.label, k.counts, v, h, up)
      /\ s.excess = k.excess /\ s.queue = k.queue /\ s.mark = k.mark /\ s.node = k.node
      /\ s.delta = k.delta /\ s.path = k.path
      /\ KernelFields \subseteq DOMAIN s
  BY <1>1 DEF Raised, KernelFields, RaisedLabel, RaisedCount
<1>6. up \in SUBSET net.nodes
  BY <1>4 DEF Inner
<1>7. s.cursor \in [net.nodes -> Nat]
  BY <1>5, <1>1
<1>8. Counted(net, new, s.counts)
  BY <1>5, <1>6, <1>1, RaisedCounts
<1>9. ValidHeights(net, flow, raised)
  <2>1. h <= 2 * n
    BY <1>1, <1>2, <1>3
  <2> QED
    BY <2>1, <1>1, <1>2, <1>3, RaiseKeepsHeights, SMTT(30)
<1>10. ValidHeights(net, flow, new)
  <2>1. CASE up = {}
    <3>1. new = raised
      BY <2>1 DEF RaisedLabel
    <3> HIDE DEF new, raised
    <3> QED
      BY <3>1, <1>9
  <2>2. CASE up # {}
    <3> DEFINE d == k.label[v]
    <3>1. /\ d < n /\ k.counts[d] = 1
          /\ up = {u \in Inner(net) : /\ (IF u = v THEN h ELSE k.label[u]) > d
                                      /\ (IF u = v THEN h ELSE k.label[u]) < n}
      BY <1>4, <2>2
    <3>2. d \in 0..(2 * n) /\ d \in Nat
      BY <1>1 DEF ValidHeights
    <3>3. up = Above(net, raised, d)
      BY <3>1 DEF Inner, Above
    <3>4. \A u \in net.nodes : raised[u] # d
      <4> DEFINE D == {u \in net.nodes : k.label[u] = d}
      <4>1. Cardinality(D) = 1
        BY <3>1, <3>2, <1>1 DEF Counted
      <4>2. IsFiniteSet(D) /\ v \in D
        BY <1>1, FS_Subset DEF IsNetwork
      <4>3. PICK x : D = {x}
        <5> HIDE DEF D
        <5> QED
          BY <4>1, <4>2, FS_Singleton
      <4>4. D = {v}
        BY <4>2, <4>3
      <4>5. \A u \in net.nodes : u # v => k.label[u] # d
        BY <4>4
      <4>6. h # d
        BY <1>2, <1>3, <3>2
      <4> QED
        BY <4>5, <4>6
    <3>5. new = Lifted(net, raised, up)
      BY DEF RaisedLabel, Lifted
    <3> HIDE DEF raised, new, d
    <3>6. ValidHeights(net, flow, Lifted(net, raised, up))
      BY <3>2, <3>3, <3>4, <1>9, <1>1, GapKeepsHeights
    <3> QED
      BY <3>5, <3>6
  <2> QED
    BY <2>1, <2>2
<1> HIDE DEF raised
<1>11. alg # "generic" => Passed(net, flow, new, s.cursor)
  <2> SUFFICES ASSUME alg # "generic" PROVE Passed(net, flow, new, s.cursor)
    OBVIOUS
  <2>1. Passed(net, flow, k.label, k.cursor)
    BY <1>1
  <2>2. \A u \in net.nodes : new[u] = IF u \in up THEN n + 1 ELSE IF u = v THEN h ELSE k.label[u]
    BY DEF RaisedLabel
  <2> HIDE DEF new, n
  <2>3. \A u \in up : k.label[u] < n + 1
    <3> TAKE u \in up
    <3>1. u \in net.nodes /\ (IF u = v THEN h ELSE k.label[u]) < n
      BY <1>4 DEF Inner
    <3> QED
      BY <3>1, <1>1, <1>2, <1>3
  <2>4. \A u \in net.nodes : new[u] \in Int /\ k.label[u] <= new[u]
    BY <1>1, <1>2, <1>3, <2>2, <2>3
  <2> DEFINE S == up \cup {v}
  <2>5. /\ \A u \in net.nodes \ S : new[u] = k.label[u]
        /\ s.cursor = [u \in net.nodes |-> IF u \in S THEN 0 ELSE k.cursor[u]]
    BY <1>5, <2>2
  <2> HIDE DEF S
  <2>6. IsNetwork(net) /\ WithinBounds(net, flow) /\ Descends(net, flow, k.label)
    BY <1>1
  <2>7. Passed(net, flow, new, [u \in net.nodes |-> IF u \in S THEN 0 ELSE k.cursor[u]])
    BY ONLY <2>1, <2>4, <2>5, <2>6, RisePasses
  <2> QED
    BY <2>5, <2>7
<1> QED
  BY <1>1, <1>2, <1>3, <1>5, <1>7, <1>8, <1>10, <1>11 DEF AfterRise, SoundPreflow

\* A rise, or giving up, at a node of the point the preset is at.
LEMMA RiseStep ==
    ASSUME PreflowInv, phase # "start", phase # "path", UNCHANGED <<net, alg>>,
           NEW v \in Inner(net), Rise(v)
    PROVE  PreflowInv'
<1> DEFINE h == NewHeight(v)
           up == Cut(v, h)
<1>1. IF ~MayRelabel(v, h) THEN Stop("failed")
      ELSE k' = Raised(v, h, up) /\ UNCHANGED <<flow, phase>>
  <2> DEFINE Risen(x) == IF ~MayRelabel(v, x) THEN Stop("failed")
                         ELSE /\ \E y \in {Cut(v, x)} : k' = Raised(v, x, y)
                              /\ UNCHANGED <<flow, phase>>
  <2>1. \E x \in {h} : Risen(x)
    BY DEF Rise
  <2> HIDE DEF h, Risen
  <2>2. Risen(h)
    BY <2>1
  <2>3. ~MayRelabel(v, h) => Stop("failed")
    BY <2>2 DEF Risen
  <2>4. MayRelabel(v, h) => UNCHANGED <<flow, phase>> /\ \E y \in {up} : k' = Raised(v, h, y)
    BY <2>2 DEF Risen
  <2> HIDE DEF up
  <2> QED
    BY <2>3, <2>4
<1>2. CASE ~MayRelabel(v, h)
  BY <1>1, <1>2, GivesUp
<1>3. CASE MayRelabel(v, h)
  <2>1. k' = Raised(v, h, up) /\ UNCHANGED <<flow, phase>>
    BY <1>1, <1>3
  <2>2. h = NewHeight(v) /\ (up = Cut(v, h) \/ up = {})
    OBVIOUS
  <2> HIDE DEF h, up
  <2>3. AfterRise(v, h, up, k')
    BY <1>3, <2>1, <2>2, RaisedIs
  <2>4. SoundPreflow(flow', k')
    BY <2>1, <2>3 DEF AfterRise
  <2>5. phase' \in Points /\ AtPoint(phase', flow', k') /\ net \in Networks /\ alg \in Presets
    BY <2>1, <2>3, PreflowIs DEF AfterRise, AtPoint
  <2> QED
    BY <2>4, <2>5, Established
<1> QED
  BY <1>2, <1>3

LEMMA RelabelStep ==
    ASSUME PreflowInv, Relabel
    PROVE  PreflowInv'
<1>1. phase = "discharge" /\ phase # "start" /\ phase # "path" /\ UNCHANGED <<net, alg>> /\ Rise(k.node)
  BY DEF Relabel, Quiet
<1>2. k.node \in Inner(net)
  BY <1>1, PreflowIs DEF AtPoint
<1> DEFINE v == k.node
<1>3. v \in Inner(net) /\ Rise(v)
  BY <1>1, <1>2
<1> HIDE DEF v
<1> QED
  BY <1>1, <1>3, RiseStep

(***************************************************************************)
(* A global relabel.                                                       *)
(***************************************************************************)
\* What falls by at most one along every live arc never exceeds a distance
\* the reverse search finds.
LEMMA DistanceBounds ==
    ASSUME IsNetwork(net), WithinBounds(net, flow), NEW label \in [net.nodes -> Int],
           label[net.sink] = 0, Descends(net, flow, label),
           NEW blocked, NEW far, far = SinkDistance(blocked), NEW u \in net.nodes, far[u] # NoLabel
    PROVE  label[u] <= far[u]
<1>1. far \in [net.nodes -> NoLabel .. (N - 1)] /\ SinkDistances(far, blocked)
  BY SinkDistanceIs
<1>2. N \in Nat
  BY NodesCount DEF N
<1>3. \A v \in net.nodes : far[v] \in Int /\ (far[v] # NoLabel => far[v] \in Nat)
  BY <1>1, <1>2 DEF NoLabel
<1> SUFFICES ASSUME ~(label[u] <= far[u]) PROVE FALSE
  OBVIOUS
<1> DEFINE bad == {v \in net.nodes : far[v] # NoLabel /\ ~(label[v] <= far[v])}
           D == {far[v] : v \in bad}
<1>4. far[u] \in D /\ D \in SUBSET Nat
  BY <1>3
<1>5. PICK d \in D : \A e \in D : d <= e
  <2> HIDE DEF D
  <2> QED
    BY <1>4, LeastNatural
<1>6. PICK v \in bad : far[v] = d
  BY <1>5
<1>7. v \in net.nodes /\ v # net.sink /\ far[v] \in Nat /\ far[v] # NoLabel /\ ~(label[v] <= far[v])
  BY <1>1, <1>3, <1>6 DEF SinkDistances
<1> DEFINE S == Closer(far, v)
<1>8. far[v] = IF v \in blocked \/ S = {} THEN NoLabel ELSE Finite!Min(S) + 1
  BY <1>1, <1>7 DEF SinkDistances
<1>9. S \subseteq NoLabel .. (N - 1)
  BY <1>1, ResidualIsInt DEF Closer, LiveArcs, Live, To
<1>10. \A x \in S : \E a \in Arcs(net) : /\ ArcFrom(net, a) = v /\ Residual(net, flow, a) > 0
                                         /\ far[ArcTo(net, a)] = x /\ x # NoLabel
  BY DEF Closer, LiveArcs, Live, To
<1> HIDE DEF S, D
<1>11. IsFiniteSet(S) /\ S \subseteq Int
  <2>1. IsFiniteSet(NoLabel .. (N - 1))
    BY <1>2, FS_Interval DEF NoLabel
  <2>2. IsFiniteSet(S)
    BY <1>9, <2>1, FS_Subset
  <2>3. \A x \in NoLabel .. (N - 1) : x \in Int
    BY <1>2
  <2> QED
    BY <1>9, <2>2, <2>3
<1>12. S # {} /\ Finite!Min(S) \in S /\ far[v] = Finite!Min(S) + 1
  BY <1>7, <1>8, <1>11, MinIsLeast
<1>13. PICK a \in Arcs(net) : /\ ArcFrom(net, a) = v /\ Residual(net, flow, a) > 0
                              /\ far[ArcTo(net, a)] = Finite!Min(S) /\ Finite!Min(S) # NoLabel
  BY <1>10, <1>12
<1> DEFINE w == ArcTo(net, a)
<1>14. w \in net.nodes /\ far[w] # NoLabel /\ far[w] \in Nat /\ far[v] = far[w] + 1
  BY <1>3, <1>12, <1>13, ResidualIsInt
<1>15. label[v] <= label[w] + 1
  BY <1>13 DEF Descends
<1> HIDE DEF w
<1>16. label[w] <= far[w]
  <2> SUFFICES ASSUME ~(label[w] <= far[w]) PROVE FALSE
    OBVIOUS
  <2>1. w \in bad
    BY <1>14
  <2>2. d <= far[w]
    BY <1>5, <2>1 DEF D
  <2> QED
    BY <1>6, <1>7, <1>14, <2>2
<1>17. label[v] \in Int /\ label[w] \in Int
  BY <1>7, <1>14
<1> QED
  BY <1>7, <1>14, <1>15, <1>16, <1>17

LEMMA GlobalRelabelStep ==
    ASSUME PreflowInv, GlobalRelabel
    PROVE  PreflowInv'
<1> DEFINE blocked == {net.source}
           far == SinkDistance(blocked)
           label == [v \in net.nodes |-> IF v = net.source THEN N
                                         ELSE IF far[v] = NoLabel THEN N + 1 ELSE far[v]]
           counts == [i \in DOMAIN k.counts |-> Cardinality({v \in net.nodes : label[v] = i})]
<1>1. /\ phase = "global" /\ phase # "start" /\ phase' = "select" /\ UNCHANGED <<net, alg, flow>>
      /\ k' = [k EXCEPT !.label = label, !.cursor = [v \in net.nodes |-> 0], !.scans = 0,
                        !.counts = counts]
  <2> DEFINE Labelled(f) == [v \in net.nodes |-> IF v = net.source THEN N
                                         ELSE IF f[v] = NoLabel THEN N + 1 ELSE f[v]]
             Counts(l) == [i \in DOMAIN k.counts |-> Cardinality({v \in net.nodes : l[v] = i})]
  <2>1. /\ phase = "global" /\ phase # "start" /\ phase' = "select" /\ UNCHANGED <<net, alg, flow>>
        /\ \E f \in {far} : \E l \in {Labelled(f)} :
               k' = [k EXCEPT !.label = l, !.cursor = [v \in net.nodes |-> 0], !.scans = 0,
                              !.counts = Counts(l)]
    BY DEF GlobalRelabel, Quiet
  <2>2. label = Labelled(far) /\ counts = Counts(label)
    OBVIOUS
  <2> HIDE DEF far, label, counts, Labelled, Counts
  <2> QED
    BY <2>1, <2>2
<1>2. /\ net \in Networks /\ IsNetwork(net) /\ alg \in Presets
      /\ KernelFields \subseteq DOMAIN k /\ k.mark \in Nat /\ \E S : k.queue \in Seq(S)
      /\ WithinBounds(net, flow) /\ Preflow(net, flow, k.excess)
      /\ ValidHeights(net, flow, k.label) /\ Counted(net, k.label, k.counts)
      /\ N = Cardinality(net.nodes) /\ N \in Nat /\ N >= 2
      /\ k.label \in [net.nodes -> Int] /\ Descends(net, flow, k.label)
      /\ \A v \in net.nodes : Len(net.outgoing[v]) \in Nat
  BY <1>1, PreflowIs
<1>3. /\ net.source \in net.nodes /\ net.sink \in net.nodes /\ net.source # net.sink
      /\ k.label[net.source] = N /\ k.label[net.sink] = 0
  BY <1>2 DEF IsNetwork, ValidHeights
<1>4. /\ label = [v \in net.nodes |-> IF v = net.source THEN N
                                      ELSE IF far[v] = NoLabel THEN N + 1 ELSE far[v]]
      /\ far = SinkDistance(blocked) /\ \A u : u \in blocked <=> u = net.source
  OBVIOUS
<1>5. Counted(net, label, counts)
  BY <1>2 DEF Counted
<1> HIDE DEF far, label, counts, blocked
<1>6. /\ far \in [net.nodes -> NoLabel .. (N - 1)] /\ far[net.sink] = 0
      /\ \A a \in Arcs(net) :
             Residual(net, flow, a) > 0 /\ ArcFrom(net, a) \notin blocked /\ far[ArcTo(net, a)] # NoLabel =>
                 /\ far[ArcFrom(net, a)] # NoLabel
                 /\ far[ArcFrom(net, a)] <= far[ArcTo(net, a)] + 1
  BY <1>2, <1>4, SinkDistanceFalls
<1>7. far[net.source] = NoLabel
  <2>1. SinkDistances(far, blocked)
    BY <1>2, <1>4, SinkDistanceIs
  <2> QED
    BY <1>3, <1>4, <2>1 DEF SinkDistances
<1>8. \A v \in net.nodes : /\ far[v] \in Int /\ far[v] <= N - 1
                           /\ far[v] # NoLabel => far[v] >= 0 /\ k.label[v] <= far[v]
  <2> TAKE v \in net.nodes
  <2>1. far[v] \in Int /\ far[v] <= N - 1 /\ (far[v] # NoLabel => far[v] >= 0)
    BY <1>2, <1>6 DEF NoLabel
  <2>2. far[v] # NoLabel => k.label[v] <= far[v]
    BY <1>2, <1>3, <1>4, DistanceBounds
  <2> QED
    BY <2>1, <2>2
<1>9. \A v \in net.nodes : label[v] = IF v = net.source THEN N
                                      ELSE IF far[v] = NoLabel THEN N + 1 ELSE far[v]
  BY <1>4
<1>10. \A v \in net.nodes : label[v] \in 0 .. (2 * N)
  BY <1>2, <1>8, <1>9
<1>11. ValidHeights(net, flow, label)
  <2>1. label \in [net.nodes -> 0 .. (2 * N)]
    BY <1>4, <1>10
  <2>2. label[net.source] = N /\ label[net.sink] = 0
    BY <1>3, <1>6, <1>9 DEF NoLabel
  <2>3. ASSUME NEW a \in Arcs(net), Residual(net, flow, a) > 0
        PROVE  label[ArcFrom(net, a)] <= label[ArcTo(net, a)] + 1
    <3> DEFINE v == ArcFrom(net, a)
               w == ArcTo(net, a)
    <3>1. v \in net.nodes /\ w \in net.nodes /\ k.label[v] <= k.label[w] + 1
      BY <1>2, <2>3, ResidualIsInt DEF Descends
    <3>2. v # net.source /\ far[w] # NoLabel => far[v] # NoLabel /\ far[v] <= far[w] + 1
      BY <1>4, <1>6, <2>3
    <3> SUFFICES label[v] <= label[w] + 1
      OBVIOUS
    <3> HIDE DEF v, w
    <3>3. CASE v = net.source
      <4>1. label[v] = N /\ k.label[v] = N /\ k.label[w] \in Int
        BY <1>2, <1>3, <1>9, <3>1, <3>3
      <4>2. far[w] # NoLabel => k.label[w] <= far[w]
        BY <1>8, <3>1
      <4> QED
        BY <1>2, <1>8, <1>9, <3>1, <4>1, <4>2
    <3>4. CASE v # net.source
      <4>1. CASE w = net.source
        BY <1>2, <1>8, <1>9, <3>1, <3>4, <4>1
      <4>2. CASE w # net.source
        BY <1>2, <1>8, <1>9, <3>1, <3>2, <3>4, <4>2, SMTT(30)
      <4> QED
        BY <4>1, <4>2
    <3> QED
      BY <3>3, <3>4
  <2> QED
    BY <1>2, <2>1, <2>2, <2>3 DEF ValidHeights
<1>12. /\ KernelFields \subseteq DOMAIN k' /\ k'.label = label /\ k'.counts = counts
       /\ k'.cursor = [v \in net.nodes |-> 0] /\ k'.excess = k.excess
       /\ k'.queue = k.queue /\ k'.mark = k.mark
  BY <1>1, <1>2 DEF KernelFields
<1>13. k'.cursor \in [net.nodes -> Nat] /\ Passed(net, flow, label, k'.cursor)
  <2>1. \A v \in net.nodes : k'.cursor[v] = 0 /\ Len(net.outgoing[v]) \in Nat
    BY <1>2, <1>12
  <2>2. \A v \in net.nodes : k'.cursor[v] \in 0 .. Len(net.outgoing[v]) /\ 1 .. k'.cursor[v] = {}
    BY <2>1
  <2> QED
    BY <1>12, <2>2 DEF Passed
<1>14. SoundPreflow(flow', k')
  BY <1>1, <1>2, <1>5, <1>11, <1>12, <1>13 DEF SoundPreflow
<1>15. phase' \in Points /\ AtPoint(phase', flow', k')
  BY <1>1 DEF AtPoint, Points
<1> QED
  BY <1>1, <1>2, <1>14, <1>15, Established

(***************************************************************************)
(* Excess scaling: no excess passes the scale, and a scale ends when none  *)
(* is above half of it.                                                    *)
(***************************************************************************)
LEMMA SentIs ==
    ASSUME NEW e \in Nat, NEW r \in Nat, NEW room \in Nat, NEW x, x = {e, r} \/ x = {e, r} \cup {room},
           NEW sent, sent = Finite!Min(x)
    PROVE  /\ sent \in Nat /\ sent <= e /\ sent <= r
           /\ x = {e, r} \cup {room} => sent <= room
<1>1. IsFiniteSet(x) /\ x # {} /\ x \subseteq Int /\ x \subseteq Nat /\ e \in x /\ r \in x
  <2>1. IsFiniteSet({e}) /\ IsFiniteSet({r}) /\ IsFiniteSet({room})
    BY FS_Singleton
  <2>2. IsFiniteSet({e} \cup {r}) /\ {e} \cup {r} = {e, r}
    BY <2>1, FS_Union
  <2>3. IsFiniteSet({e, r} \cup {room})
    BY <2>1, <2>2, FS_Union
  <2> QED
    BY <2>2, <2>3
<1>2. sent \in x /\ \A y \in x : sent <= y
  BY <1>1, MinIsLeast
<1>3. x = {e, r} \cup {room} => room \in x
  OBVIOUS
<1> QED
  BY <1>1, <1>2, <1>3

LEMMA ProcessScaledStep ==
    ASSUME PreflowInv, ProcessScaledActive
    PROVE  PreflowInv'
<1> DEFINE v == First(Band, k.label)
           i == Place(v)
           a == net.outgoing[v][i]
           sent == Sent(v, a)
<1>1. /\ phase = "scale" /\ phase # "start" /\ phase # "path" /\ Band # {} /\ UNCHANGED <<net, alg>>
      /\ IF ~HasArc(v) THEN Rise(v)
         ELSE IF TooSmall(a, sent) THEN Stop("failed")
         ELSE Pushed(v, i, a, sent) /\ UNCHANGED phase
  <2> DEFINE Sends(u, p, b, s) == IF TooSmall(b, s) THEN Stop("failed")
                                  ELSE Pushed(u, p, b, s) /\ UNCHANGED phase
             Goes(u) == IF ~HasArc(u) THEN Rise(u)
                        ELSE \E p \in {Place(u)} : \E b \in {net.outgoing[u][p]} :
                                 \E s \in {Sent(u, b)} : Sends(u, p, b, s)
  <2>1. /\ phase = "scale" /\ phase # "start" /\ phase # "path" /\ Band # {} /\ UNCHANGED <<net, alg>>
        /\ \E u \in {v} : Goes(u)
    BY DEF ProcessScaledActive, Quiet
  <2> HIDE DEF Goes
  <2>2. v \in {v} /\ Goes(v)
    <3> HIDE DEF v
    <3> QED
      BY <2>1
  <2>3. ~HasArc(v) => Rise(v)
    <3> HIDE DEF v
    <3> QED
      BY <2>2 DEF Goes
  <2>4. HasArc(v) => \E p \in {i} : \E b \in {net.outgoing[v][p]} :
                         \E s \in {Sent(v, b)} : Sends(v, p, b, s)
    <3> HIDE DEF v
    <3> QED
      BY <2>2 DEF Goes
  <2> HIDE DEF Sends
  <2>5. HasArc(v) => Sends(v, i, a, sent)
    <3> HIDE DEF v
    <3> SUFFICES ASSUME HasArc(v) PROVE Sends(v, i, a, sent)
      OBVIOUS
    <3>1. \E b \in {a} : \E s \in {Sent(v, b)} : Sends(v, i, b, s)
      <4> HIDE DEF i
      <4> QED
        BY <2>4
    <3> HIDE DEF a, i
    <3> QED
      BY <3>1
  <2> HIDE DEF v, i, a, sent
  <2> QED
    BY <2>1, <2>3, <2>5 DEF Sends
<1>2. /\ net \in Networks /\ IsNetwork(net) /\ alg \in Presets /\ WithinBounds(net, flow)
      /\ k.label \in [net.nodes -> Int] /\ k.cursor \in [net.nodes -> Nat]
      /\ Preflow(net, flow, k.excess)
      /\ alg = "excess-scaling" /\ k.delta \in Nat
      /\ \A u \in Inner(net) : k.excess[u] <= k.delta
  BY <1>1, PreflowIs DEF AtPoint
<1>3. \A u \in Inner(net) : u \in net.nodes /\ k.excess[u] \in Nat
  BY <1>2 DEF Inner, Preflow
<1>4. v \in Inner(net)
  <2>1. Band \subseteq Inner(net)
    BY DEF Band
  <2>2. IsFiniteSet(Inner(net)) /\ Inner(net) \subseteq Int
    <3>1. \A u \in net.nodes : u \in Int
      BY <1>2 DEF IsNetwork
    <3>2. IsFiniteSet(Inner(net))
      BY <1>2, NodesCount
    <3> QED
      BY <1>3, <3>1, <3>2
  <2>3. IsFiniteSet(Band) /\ Band \subseteq Int
    BY <2>1, <2>2, FS_Subset
  <2>4. First(Band, k.label) \in Band
    <3> DEFINE key == k.label
    <3>1. \A u \in Band : key[u] \in Int
      BY <1>2, <1>3, <2>1
    <3> HIDE DEF key
    <3>2. First(Band, key) \in Band
      BY <1>1, <2>3, <3>1, FirstIsIn
    <3> QED
      BY <3>2 DEF key
  <2> QED
    BY <2>1, <2>4
<1>5. i = Place(v) /\ a = net.outgoing[v][i]
  OBVIOUS
<1>6. sent = Finite!Min({k.excess[v], R(a)} \cup
                  (IF To(a) \in Terminals(net) THEN {} ELSE {k.delta - k.excess[To(a)]}))
  BY DEF Sent
<1> HIDE DEF v, i, a, sent
<1>7. CASE ~HasArc(v)
  BY <1>1, <1>4, <1>7, RiseStep
<1>8. CASE HasArc(v) /\ TooSmall(a, sent)
  BY <1>1, <1>8, GivesUp
<1>9. CASE HasArc(v) /\ ~TooSmall(a, sent)
  <2>1. Pushed(v, i, a, sent) /\ UNCHANGED phase
    BY <1>1, <1>9
  <2>2. a \in Arcs(net)
    BY <1>2, <1>3, <1>4, <1>5, <1>9, PlaceIsAdmissible
  <2>3. R(a) \in Nat /\ To(a) \in net.nodes
    BY <1>2, <2>2, ResidualIsInt DEF R, To
  <2>4. /\ sent \in Nat /\ sent <= k.excess[v] /\ sent <= R(a)
        /\ To(a) \in Inner(net) => k.excess[To(a)] + sent <= k.delta
    <3> DEFINE e == k.excess[v]
               r == R(a)
               here == To(a) \in Inner(net)
               room == IF here THEN k.delta - k.excess[To(a)] ELSE 0
               x == {e, r} \cup (IF To(a) \in Terminals(net) THEN {} ELSE {k.delta - k.excess[To(a)]})
    <3>1. here <=> ~(To(a) \in Terminals(net))
      BY <2>3 DEF Inner
    <3>2. x = IF here THEN {e, r} \cup {room} ELSE {e, r}
      BY <3>1
    <3>3. here => k.excess[To(a)] \in Nat /\ k.excess[To(a)] <= k.delta
      BY <1>2, <1>3
    <3>4. e \in Nat /\ r \in Nat /\ room \in Nat
      BY <1>2, <1>3, <1>4, <2>3, <3>3
    <3>5. sent = Finite!Min(x)
      BY <1>6
    <3>6. here => room = k.delta - k.excess[To(a)]
      OBVIOUS
    <3>7. here <=> To(a) \in Inner(net)
      OBVIOUS
    <3> HIDE DEF room, x, here
    <3>8. sent \in Nat /\ sent <= e /\ sent <= r /\ (here => sent <= room)
      <4> HIDE DEF e, r
      <4> QED
        BY <3>2, <3>4, <3>5, SentIs
    <3> QED
      BY <1>2, <3>3, <3>6, <3>7, <3>8
  <2>5. AfterPush(v, a, sent)
    BY <1>1, <1>4, <1>5, <1>9, <2>1, <2>4, PushedIs
  <2>6. \A u \in Inner(net) : k'.excess[u] <= k'.delta
    <3> TAKE u \in Inner(net)
    <3>1. /\ k'.excess[u] = k.excess[u] - (IF u = v THEN sent ELSE 0) + (IF u = To(a) THEN sent ELSE 0)
          /\ k'.delta = k.delta /\ To(a) # v
      BY <1>3, <2>5 DEF AfterPush
    <3>2. k.excess[u] \in Nat /\ k.excess[u] <= k.delta
      BY <1>2, <1>3
    <3> QED
      BY <1>2, <2>4, <3>1, <3>2
  <2>7. phase' \in Points /\ AtPoint(phase', flow', k')
    BY <1>1, <1>2, <2>1, <2>5, <2>6 DEF AtPoint, Points, AfterPush
  <2> QED
    BY <1>1, <1>2, <2>5, <2>7, Established DEF AfterPush
<1> QED
  BY <1>7, <1>8, <1>9

LEMMA NextScaleStep ==
    ASSUME PreflowInv, NextScale
    PROVE  PreflowInv'
<1>1. /\ phase = "scale" /\ phase # "start" /\ Band = {} /\ UNCHANGED <<net, alg, flow>>
      /\ k' = [k EXCEPT !.delta = @ \div 2] /\ phase' \in {"finish", "scale"}
  BY DEF NextScale, Quiet
<1>2. /\ KernelFields \subseteq DOMAIN k /\ (\E S : k.queue \in Seq(S)) /\ k.mark \in Nat
      /\ Preflow(net, flow, k.excess)
      /\ alg = "excess-scaling" /\ k.delta \in Nat
  BY <1>1, PreflowIs DEF AtPoint
<1>3. /\ KernelFields \subseteq DOMAIN k' /\ k'.delta = k.delta \div 2
      /\ k'.label = k.label /\ k'.cursor = k.cursor /\ k'.excess = k.excess /\ k'.counts = k.counts
      /\ k'.queue = k.queue /\ k'.mark = k.mark
  BY <1>1, <1>2 DEF KernelFields
<1>4. \A u \in Inner(net) : k'.excess[u] <= k'.delta
  <2> TAKE u \in Inner(net)
  <2>1. ~(k.excess[u] > k.delta \div 2) /\ k.excess[u] \in Int
    BY <1>1, <1>2 DEF Band, Preflow, Inner
  <2>2. k.delta \div 2 \in Int
    BY <1>2
  <2> QED
    BY <1>3, <2>1, <2>2
<1>5. k'.delta \in Nat
  BY <1>2, <1>3
<1>6. phase' \in Points /\ AtPoint(phase', flow, k')
  BY <1>1, <1>2, <1>4, <1>5 DEF AtPoint, Points
<1> QED
  BY <1>1, <1>2, <1>3, <1>6, Unmoved

(***************************************************************************)
(* Partial augment: a path in work below its limit, or at a terminal.      *)
(***************************************************************************)
\* A search that goes on has passed what came before the arc it found.
LEMMA LongerPasses ==
    ASSUME IsNetwork(net), k.cursor \in [net.nodes -> Nat], Passed(net, flow, k.label, k.cursor),
           alg # "generic", alg # "dinic", End \in net.nodes, HasArc(End),
           NEW cursor, cursor = [k.cursor EXCEPT ![End] = Place(End) - 1]
    PROVE  cursor \in [net.nodes -> Nat] /\ Passed(net, flow, k.label, cursor)
<1>1. \A v \in net.nodes : k.cursor[v] \in 0 .. Len(net.outgoing[v]) /\ Len(net.outgoing[v]) \in Nat
  <2> TAKE v \in net.nodes
  <2>1. net.outgoing[v] \in Seq(Arcs(net))
    BY DEF IsNetwork
  <2> QED
    BY <2>1, LenProperties DEF Passed
<1>2. k.cursor[End] \in 0 .. Len(net.outgoing[End])
  BY <1>1
<1>3. /\ Place(End) \in (k.cursor[End] + 1) .. (Len(net.outgoing[End]) + 1)
      /\ \A j \in (k.cursor[End] + 1) .. (Place(End) - 1) :
             ~LeadsOn(net, flow, alg, k.label, net.outgoing[End][j])
      /\ Place(End) \in 1 .. Len(net.outgoing[End])
  BY <1>2, PlaceIsBetween
<1>4. /\ \A v \in net.nodes : cursor[v] = IF v = End THEN Place(End) - 1 ELSE k.cursor[v]
      /\ cursor \in [net.nodes -> Nat]
  BY <1>1, <1>3
<1> SUFFICES ASSUME NEW v \in net.nodes
             PROVE  /\ cursor[v] \in 0 .. Len(net.outgoing[v])
                    /\ \A i \in 1 .. cursor[v] :
                           ~(/\ Residual(net, flow, net.outgoing[v][i]) > 0
                             /\ k.label[v] = k.label[ArcTo(net, net.outgoing[v][i])] + 1)
  BY <1>4 DEF Passed
<1>5. cursor[v] \in 0 .. Len(net.outgoing[v])
  BY <1>1, <1>3, <1>4
<1>6. ASSUME NEW i \in 1 .. cursor[v]
      PROVE  ~(/\ Residual(net, flow, net.outgoing[v][i]) > 0
               /\ k.label[v] = k.label[ArcTo(net, net.outgoing[v][i])] + 1)
  <2>1. CASE i <= k.cursor[v]
    <3>1. i \in 1 .. k.cursor[v]
      BY <1>1, <2>1
    <3> QED
      BY <3>1 DEF Passed
  <2>2. CASE ~(i <= k.cursor[v])
    <3>1. v = End /\ i \in (k.cursor[End] + 1) .. (Place(End) - 1) /\ i \in 1 .. Len(net.outgoing[v])
      BY <1>1, <1>3, <1>4, <1>5, <2>2
    <3>2. ArcFrom(net, net.outgoing[v][i]) = v
      BY <3>1, ListedArc
    <3> QED
      BY <1>3, <3>1, <3>2 DEF LeadsOn
  <2> QED
    BY <2>1, <2>2
<1> QED
  BY <1>5, <1>6

LEMMA PartialIs ==
    ASSUME PreflowInv, phase = "path"
    PROVE  /\ phase # "start" /\ alg = "partial-augment" /\ k.node \in Inner(net) /\ k.node \in net.nodes
           /\ InWork(net, flow, alg, k) /\ Passed(net, flow, k.label, k.cursor)
           /\ End \in net.nodes /\ End = EndOf(net, k.path, k.node)
           /\ RankIn(net, alg, k.label) = [u \in net.nodes |-> -k.label[u]]
           /\ RankIn(net, alg, k.label) \in [net.nodes -> Int]
           /\ Rising(net, k.path, k.node, RankIn(net, alg, k.label))
           /\ (k.path = <<>> => End = k.node)
<1>1. phase # "start" /\ alg = "partial-augment" /\ k.node \in Inner(net) /\ InWork(net, flow, alg, k)
  BY PreflowIs DEF AtPoint
<1>2. /\ IsNetwork(net) /\ WithinBounds(net, flow) /\ k.label \in [net.nodes -> Int]
      /\ k.node \in net.nodes /\ Passed(net, flow, k.label, k.cursor)
  BY <1>1, PreflowIs
<1>3. /\ End \in net.nodes /\ End = EndOf(net, k.path, k.node)
      /\ RankIn(net, alg, k.label) \in [net.nodes -> Int]
      /\ Rising(net, k.path, k.node, RankIn(net, alg, k.label))
  BY <1>1, <1>2, EndIs
<1>4. RankIn(net, alg, k.label) = [u \in net.nodes |-> -k.label[u]]
  BY <1>1 DEF RankIn
<1>5. k.path = <<>> => End = k.node
  BY DEF End
<1> QED
  BY <1>1, <1>2, <1>3, <1>4, <1>5

LEMMA AdvancePathStep ==
    ASSUME PreflowInv, AdvancePath
    PROVE  PreflowInv'
<1>1. phase = "path" /\ HasArc(End) /\ k' = Longer /\ UNCHANGED <<net, alg, flow, phase>>
  BY DEF AdvancePath, Quiet
<1>2. /\ phase # "start" /\ alg = "partial-augment" /\ k.node \in Inner(net) /\ k.node \in net.nodes
      /\ InWork(net, flow, alg, k) /\ Passed(net, flow, k.label, k.cursor) /\ End \in net.nodes
  BY <1>1, PartialIs
<1>3. /\ net \in Networks /\ IsNetwork(net) /\ alg \in Presets
      /\ KernelFields \subseteq DOMAIN k /\ k.cursor \in [net.nodes -> Nat] /\ k.mark \in Nat
      /\ WithinBounds(net, flow) /\ k.label \in [net.nodes -> Int]
      /\ SoundPreflow(flow, k)
  BY <1>2, PreflowIs
<1>4. k.cursor[End] <= Len(net.outgoing[End])
  BY <1>2 DEF Passed
<1>5. /\ KernelFields \subseteq DOMAIN Longer
      /\ Longer.label = k.label /\ Longer.node = k.node /\ Longer.counts = k.counts
      /\ Longer.excess = k.excess /\ Longer.queue = k.queue
      /\ Longer.cursor = [k.cursor EXCEPT ![End] = Place(End) - 1]
      /\ InWork(net, flow, alg, Longer)
  BY <1>1, <1>2, <1>3, <1>4, LongerInWork
<1>6. Longer.mark = k.mark
  BY DEF Longer
<1> DEFINE cursor == Longer.cursor
<1>7. cursor = [k.cursor EXCEPT ![End] = Place(End) - 1]
  BY <1>5
<1> HIDE DEF cursor
<1>8. cursor \in [net.nodes -> Nat] /\ Passed(net, flow, k.label, cursor)
  BY <1>1, <1>2, <1>3, <1>7, LongerPasses
<1>9. cursor = k'.cursor
  BY <1>1 DEF cursor
<1>10. SoundPreflow(flow', k')
  BY <1>1, <1>3, <1>5, <1>6, <1>8, <1>9 DEF SoundPreflow
<1>11. phase' \in Points /\ AtPoint(phase', flow', k')
  BY <1>1, <1>2, <1>5 DEF AtPoint, Points
<1> QED
  BY <1>1, <1>3, <1>10, <1>11, Established

\* The relabelled end leaves the path; an empty path is given up.
LEMMA RetreatPathStep ==
    ASSUME PreflowInv, RetreatPath
    PROVE  PreflowInv'
<1> DEFINE v == End
           h == NewHeight(v)
           s == Raised(v, h, {})
<1>1. /\ phase = "path" /\ ~Grown /\ UNCHANGED <<net, alg>>
      /\ IF ~MayRelabel(v, h) THEN Stop("failed")
         ELSE /\ IF k.path = <<>> THEN k' = s /\ phase' = "select"
                 ELSE k' = Shorter(s) /\ UNCHANGED phase
              /\ UNCHANGED flow
  <2> DEFINE Back(x) == IF ~MayRelabel(v, x) THEN Stop("failed")
                        ELSE /\ IF k.path = <<>> THEN k' = Raised(v, x, {}) /\ phase' = "select"
                                ELSE k' = Shorter(Raised(v, x, {})) /\ UNCHANGED phase
                             /\ UNCHANGED flow
  <2>1. phase = "path" /\ ~Grown /\ UNCHANGED <<net, alg>> /\ \E x \in {h} : Back(x)
    BY DEF RetreatPath, Quiet
  <2> HIDE DEF h, Back
  <2>2. Back(h)
    BY <2>1
  <2> QED
    BY <2>1, <2>2 DEF Back
<1>2. /\ phase # "start" /\ alg = "partial-augment" /\ k.node \in Inner(net) /\ k.node \in net.nodes
      /\ InWork(net, flow, alg, k) /\ Passed(net, flow, k.label, k.cursor) /\ v \in net.nodes
      /\ RankIn(net, alg, k.label) = [u \in net.nodes |-> -k.label[u]]
      /\ Rising(net, k.path, k.node, RankIn(net, alg, k.label))
  BY <1>1, PartialIs
<1>3. v \in Inner(net)
  BY <1>1, <1>2 DEF Grown, Inner
<1>4. CASE ~MayRelabel(v, h)
  BY <1>1, <1>2, <1>4, GivesUp
<1>5. CASE MayRelabel(v, h)
  <2>1. h = NewHeight(v) /\ s = Raised(v, h, {}) /\ v = End
    OBVIOUS
  <2>2. /\ UNCHANGED flow
        /\ k.path = <<>> => k' = s /\ phase' = "select"
        /\ k.path # <<>> => k' = Shorter(s) /\ phase' = "path"
    BY <1>1, <1>5
  <2> HIDE DEF h, s, v
  <2> DEFINE none == {}
  <2>3. AfterRise(v, h, none, s)
    <3>1. s = Raised(v, h, none) /\ (none = Cut(v, h) \/ none = {})
      BY <2>1
    <3> HIDE DEF none
    <3> QED
      BY <1>2, <1>3, <1>5, <2>1, <3>1, RaisedIs
  <2>4. /\ SoundPreflow(flow, s)
        /\ s.node = k.node /\ s.mark = k.mark /\ s.path = k.path
        /\ h \in Int /\ h > k.label[v]
        /\ \A u \in net.nodes : /\ s.label[u] = IF u = v THEN h ELSE k.label[u]
                                /\ s.cursor[u] = IF u = v THEN 0 ELSE k.cursor[u]
    BY <2>3 DEF AfterRise, RaisedLabel
  <2>5. /\ net \in Networks /\ IsNetwork(net) /\ alg \in Presets /\ WithinBounds(net, flow)
        /\ k.label \in [net.nodes -> Int] /\ k.cursor \in [net.nodes -> Nat]
    BY <1>2, PreflowIs
  <2>6. CASE k.path = <<>>
    <3>1. SoundPreflow(flow', k') /\ phase' = "select"
      BY <2>2, <2>4, <2>6
    <3>2. phase' \in Points /\ AtPoint(phase', flow', k')
      BY <3>1 DEF AtPoint, Points
    <3> QED
      BY <1>1, <2>5, <3>1, <3>2, Established
  <2>7. CASE k.path # <<>>
    <3> DEFINE w == ArcFrom(net, LastOf(k.path))
    <3>1. /\ w \in net.nodes /\ w # v
          /\ k.cursor[w] + 1 \in 1 .. Len(net.outgoing[w])
          /\ net.outgoing[w][k.cursor[w] + 1] = LastOf(k.path)
          /\ ArcTo(net, LastOf(k.path)) = v
          /\ \A x : Retreated(x) => InWork(net, flow, alg, x)
      BY <1>2, <2>1, <2>5, <2>7, ShorterInWork
    <3>2. KernelFields \subseteq DOMAIN s /\ s.cursor \in [net.nodes -> Nat] /\ Passed(net, flow, s.label, s.cursor)
      BY <1>2, <2>4 DEF SoundPreflow
    <3>3. /\ KernelFields \subseteq DOMAIN k' /\ k'.label = s.label /\ k'.counts = s.counts
          /\ k'.excess = s.excess /\ k'.queue = s.queue /\ k'.mark = s.mark /\ k'.node = s.node
          /\ k'.path = Seqs!Front(k.path) /\ k'.cursor = [s.cursor EXCEPT ![w] = @ + 1]
      BY <2>2, <2>4, <2>7, <3>2 DEF Shorter, KernelFields
    <3>4. k.label[w] = k.label[v] + 1 /\ k.label[v] \in Int
      <4> DEFINE n == Len(k.path)
                 rank == RankIn(net, alg, k.label)
                 p == k.path
      <4>1. n \in 1 .. n /\ LastOf(p) = p[n] /\ n \in Nat
        BY <1>2, <2>7 DEF LastOf, Rising
      <4>2. rank[ArcTo(net, p[n])] = rank[ArcFrom(net, p[n])] + 1
        BY <1>2, <4>1 DEF InWork, WorkPath
      <4>3. rank[v] = rank[w] + 1
        BY <3>1, <4>1, <4>2
      <4>4. rank[v] = -k.label[v] /\ rank[w] = -k.label[w] /\ k.label[v] \in Int /\ k.label[w] \in Int
        BY <1>2, <2>5, <3>1
      <4> HIDE DEF rank, w
      <4> QED
        BY <4>3, <4>4
    <3>5. s.label[w] = k.label[w] /\ s.cursor[w] = k.cursor[w] /\ s.label[v] = h
      BY <1>2, <2>4, <3>1
    <3>6. Retreated(k')
      <4>1. \A u \in net.nodes \ {End} : k'.label[u] = k.label[u]
        BY <2>1, <2>4, <3>3
      <4>2. \A u \in net.nodes \ {End, w} : k'.cursor[u] = k.cursor[u]
        BY <2>1, <2>4, <3>2, <3>3
      <4> QED
        BY <2>4, <3>3, <4>1, <4>2 DEF Retreated
    <3> HIDE DEF w
    <3>7. k'.cursor \in [net.nodes -> Nat]
      BY <3>1, <3>2, <3>3
    <3>8. Passed(net, flow, s.label, k'.cursor)
      <4> DEFINE label == s.label
                 cursor == s.cursor
                 cursor2 == k'.cursor
      <4>1. label[w] # label[ArcTo(net, net.outgoing[w][cursor[w] + 1])] + 1
        BY <2>4, <3>1, <3>4, <3>5
      <4>2. /\ cursor[w] + 1 \in 1 .. Len(net.outgoing[w]) /\ cursor2 = [cursor EXCEPT ![w] = @ + 1]
            /\ cursor \in [net.nodes -> Nat] /\ Passed(net, flow, label, cursor)
        BY <3>1, <3>2, <3>3, <3>5
      <4> HIDE DEF label, cursor, cursor2
      <4>3. Passed(net, flow, label, cursor2)
        BY <2>5, <3>1, <4>1, <4>2, RetreatPasses
      <4> QED
        BY <4>3 DEF label, cursor2
    <3>9. SoundPreflow(flow', k')
      BY <2>2, <2>4, <3>3, <3>7, <3>8 DEF SoundPreflow
    <3>10. phase' \in Points /\ AtPoint(phase', flow', k')
      BY <1>2, <2>2, <2>4, <2>7, <3>1, <3>3, <3>6 DEF AtPoint, Points
    <3> QED
      BY <1>1, <2>5, <3>9, <3>10, Established
  <2> QED
    BY <2>6, <2>7
<1> QED
  BY <1>4, <1>5

(***************************************************************************)
(* Partial augment: the path carries the root's excess or its bottleneck.  *)
(***************************************************************************)
OnlyBack(g, fl, new, label) ==
    \A b \in Arcs(g) : Residual(g, new, b) > 0 =>
        \/ Residual(g, fl, b) > 0
        \/ label[ArcTo(g, b)] = label[ArcFrom(g, b)] + 1

Exhausted(g, new, cursor, filled) ==
    \A v \in filled : /\ v \in g.nodes /\ cursor[v] + 1 \in 1 .. Len(g.outgoing[v])
                      /\ ~(Residual(g, new, g.outgoing[v][cursor[v] + 1]) > 0)

PastFilled(g, cursor, filled) ==
    [v \in g.nodes |-> cursor[v] + (IF v \in filled THEN 1 ELSE 0)]

\* What flow down a path leaves: no arc it makes live leads down, and its own
\* arcs are passed only where nothing is left of them.
LEMMA CarriedPasses ==
    ASSUME NEW g, IsNetwork(g), NEW fl, NEW new, WithinBounds(g, new),
           NEW label, ValidHeights(g, fl, label),
           NEW cursor, cursor \in [g.nodes -> Nat], Passed(g, fl, label, cursor),
           OnlyBack(g, fl, new, label), NEW filled, Exhausted(g, new, cursor, filled),
           NEW next, next = PastFilled(g, cursor, filled)
    PROVE  ValidHeights(g, new, label) /\ Passed(g, new, label, next)
<1>1. \A v \in g.nodes : label[v] \in Int
  <2>1. Cardinality(g.nodes) \in Nat
    BY NodesCount
  <2> QED
    BY <2>1 DEF ValidHeights
<1>2. \A b \in Arcs(g) : ArcFrom(g, b) \in g.nodes /\ ArcTo(g, b) \in g.nodes
  BY ResidualIsInt
<1>3. ValidHeights(g, new, label)
  <2>1. ASSUME NEW b \in Arcs(g), Residual(g, new, b) > 0
        PROVE  label[ArcFrom(g, b)] <= label[ArcTo(g, b)] + 1
    <3>1. label[ArcFrom(g, b)] \in Int /\ label[ArcTo(g, b)] \in Int
      BY <1>1, <1>2
    <3>2. CASE Residual(g, fl, b) > 0
      BY <3>2 DEF ValidHeights
    <3>3. CASE label[ArcTo(g, b)] = label[ArcFrom(g, b)] + 1
      BY <3>1, <3>3
    <3> QED
      BY <2>1, <3>2, <3>3 DEF OnlyBack
  <2> QED
    BY <2>1 DEF ValidHeights
<1>4. \A v \in g.nodes : /\ next[v] = IF v \in filled THEN cursor[v] + 1 ELSE cursor[v]
                         /\ cursor[v] \in Nat
  BY DEF PastFilled
<1>6. ASSUME NEW v \in g.nodes PROVE Len(g.outgoing[v]) \in Nat
  <2>1. g.outgoing[v] \in Seq(Arcs(g))
    BY DEF IsNetwork
  <2> QED
    BY <2>1, LenProperties
<1> SUFFICES ASSUME NEW v \in g.nodes
             PROVE  /\ next[v] \in 0 .. Len(g.outgoing[v])
                    /\ \A j \in 1 .. next[v] :
                           ~(/\ Residual(g, new, g.outgoing[v][j]) > 0
                             /\ label[v] = label[ArcTo(g, g.outgoing[v][j])] + 1)
  BY <1>3 DEF Passed
<1>7. cursor[v] \in 0 .. Len(g.outgoing[v])
  BY DEF Passed
<1>8. next[v] \in 0 .. Len(g.outgoing[v])
  BY <1>4, <1>6, <1>7 DEF Exhausted
<1>9. ASSUME NEW j \in 1 .. next[v], Residual(g, new, g.outgoing[v][j]) > 0,
             label[v] = label[ArcTo(g, g.outgoing[v][j])] + 1
      PROVE  FALSE
  <2> DEFINE b == g.outgoing[v][j]
  <2>1. j \in 1 .. Len(g.outgoing[v])
    BY <1>6, <1>8
  <2>2. b \in Arcs(g) /\ ArcFrom(g, b) = v
    BY <2>1, ListedArc
  <2>3. label[v] \in Int /\ label[ArcTo(g, b)] \in Int
    BY <1>1, <1>2, <2>2
  <2>4. CASE j \in 1 .. cursor[v]
    <3>1. ~(Residual(g, fl, b) > 0 /\ label[v] = label[ArcTo(g, b)] + 1)
      BY <2>4 DEF Passed
    <3>2. Residual(g, new, b) > 0 /\ label[v] = label[ArcTo(g, b)] + 1
      BY <1>9
    <3> HIDE DEF b
    <3>3. label[ArcTo(g, b)] = label[v] + 1
      BY <2>2, <3>1, <3>2 DEF OnlyBack
    <3> QED
      BY <2>3, <3>2, <3>3
  <2>5. CASE j \notin 1 .. cursor[v]
    <3>1. v \in filled /\ j = cursor[v] + 1
      BY <1>4, <2>5
    <3> QED
      BY <1>9, <3>1 DEF Exhausted
  <2> QED
    BY <2>4, <2>5
<1> QED
  BY <1>8, <1>9

LEMMA AugmentPathStep ==
    ASSUME PreflowInv, AugmentPath
    PROVE  PreflowInv'
<1> DEFINE rank == RankIn(net, alg, k.label)
           path == k.path
           cursor == k.cursor
           label == k.label
           excess == k.excess
           start == k.node
           least == Bottleneck(net, flow, k.path)
           amount == Finite!Min({k.excess[k.node], Bottleneck(net, flow, k.path)})
           filled == Filled(amount)
           new == flow'
<1>1. /\ phase = "path" /\ Grown /\ phase' = "select" /\ UNCHANGED <<net, alg>>
      /\ flow' = Augment(net, flow, k.path, amount)
      /\ k' = [k EXCEPT
             !.excess = [u \in net.nodes |-> k.excess[u] - (IF u = k.node THEN amount ELSE 0)
                                                  + (IF u = End THEN amount ELSE 0)],
             !.cursor = [u \in net.nodes |-> k.cursor[u] + (IF u \in Filled(amount) THEN 1 ELSE 0)],
             !.path = <<>>]
  <2> DEFINE SentBy(x) ==
                 /\ flow' = Augment(net, flow, k.path, x)
                 /\ k' = [k EXCEPT
                        !.excess = [u \in net.nodes |-> k.excess[u] - (IF u = k.node THEN x ELSE 0)
                                                             + (IF u = End THEN x ELSE 0)],
                        !.cursor = [u \in net.nodes |-> k.cursor[u] + (IF u \in Filled(x) THEN 1 ELSE 0)],
                        !.path = <<>>]
  <2>1. /\ phase = "path" /\ Grown /\ phase' = "select" /\ UNCHANGED <<net, alg>>
        /\ \E x \in {amount} : SentBy(x)
    BY DEF AugmentPath, Quiet
  <2> HIDE DEF amount, filled, SentBy
  <2>2. SentBy(amount)
    BY <2>1
  <2> QED
    BY <2>1, <2>2 DEF SentBy
<1>2. /\ phase # "start" /\ alg = "partial-augment" /\ start \in Inner(net) /\ start \in net.nodes
      /\ WorkPath(net, flow, path, start, rank, cursor) /\ Passed(net, flow, label, cursor)
      /\ End \in net.nodes /\ End = EndOf(net, path, start)
      /\ rank = [u \in net.nodes |-> -label[u]] /\ rank \in [net.nodes -> Int]
      /\ Rising(net, path, start, rank)
      /\ (path = <<>> => End = start)
  BY <1>1, PartialIs DEF InWork
<1>3. /\ net \in Networks /\ IsNetwork(net) /\ alg \in Presets
      /\ KernelFields \subseteq DOMAIN k /\ cursor \in [net.nodes -> Nat]
      /\ (\E S : k.queue \in Seq(S)) /\ k.mark \in Nat
      /\ WithinBounds(net, flow) /\ Preflow(net, flow, excess)
      /\ ValidHeights(net, flow, label) /\ Counted(net, label, k.counts)
      /\ label \in [net.nodes -> Int]
  BY <1>2, PreflowIs
<1>4. path # <<>>
  <2>1. start \notin Terminals(net)
    BY <1>2 DEF Inner
  <2>2. Len(<<>>) = 0
    OBVIOUS
  <2> QED
    BY <1>1, <1>2, <2>1, <2>2, PathLimitAssumption DEF Grown
<1>5. /\ KernelFields \subseteq DOMAIN k' /\ k'.label = label /\ k'.counts = k.counts
      /\ k'.queue = k.queue /\ k'.mark = k.mark
      /\ k'.excess = [u \in net.nodes |-> excess[u] - (IF u = start THEN amount ELSE 0)
                                                    + (IF u = End THEN amount ELSE 0)]
      /\ k'.cursor = [u \in net.nodes |-> cursor[u] + (IF u \in filled THEN 1 ELSE 0)]
  BY <1>1, <1>3 DEF KernelFields
<1>6. /\ new = Augment(net, flow, path, amount) /\ amount = Finite!Min({excess[start], least})
      /\ least = Bottleneck(net, flow, path) /\ new = flow'
  BY <1>1
<1>7. \A u : u \in filled <=> \E j \in DOMAIN path : Residual(net, flow, path[j]) = amount
                                                      /\ u = ArcFrom(net, path[j])
  BY DEF Filled, R
<1>8. PathIn(net, path, Len(path)) /\ Len(path) \in Nat /\ DOMAIN path = 1 .. Len(path)
  <2>1. PathIn(net, path, Len(path)) /\ Len(path) \in Nat
    BY <1>2, <1>4 DEF Rising
  <2> QED
    BY <2>1 DEF PathIn, Listed
<1> HIDE DEF rank, path, cursor, label, excess, start, least, amount, filled, new
<1>9. least \in Nat /\ \A j \in 1 .. Len(path) : least <= Residual(net, flow, path[j])
  <2>1. /\ Bottleneck(net, flow, path) \in Nat
        /\ \A j \in 1 .. Len(path) : Bottleneck(net, flow, path) <= Residual(net, flow, path[j])
    BY <1>3, <1>8, BottleneckIs
  <2> QED
    BY <1>6, <2>1
<1>10. \A u \in net.nodes : excess[u] \in Int
  BY <1>3 DEF Preflow
<1>11. \A j \in 1 .. Len(path) : path[j] \in Arcs(net) /\ Residual(net, flow, path[j]) \in Int
                                 /\ ArcFrom(net, path[j]) \in net.nodes
  <2>1. \A j \in 1 .. Len(path) : path[j] \in Arcs(net) /\ ArcFrom(net, path[j]) \in net.nodes
    BY <1>2 DEF Rising
  <2> QED
    BY <1>3, <2>1, ResidualIsInt
<1>12. /\ amount \in Nat /\ amount <= excess[start]
       /\ \A j \in 1 .. Len(path) : amount <= Residual(net, flow, path[j])
  <2>1. excess[start] \in Nat
    BY <1>2, <1>3, <1>10 DEF Preflow
  <2>2. amount \in {excess[start], least} /\ amount <= excess[start] /\ amount <= least
    <3> DEFINE x == excess[start]
    <3>1. x \in Int /\ least \in Int /\ amount = Finite!Min({x, least})
      BY <1>6, <1>9, <2>1
    <3> HIDE DEF x
    <3>2. /\ Finite!Min({x, least}) \in {x, least}
          /\ Finite!Min({x, least}) <= x /\ Finite!Min({x, least}) <= least
      BY <3>1, MinOfTwo
    <3> QED
      BY ONLY <3>1, <3>2 DEF x
  <2>3. amount \in Nat
    BY <1>9, <2>1, <2>2
  <2> QED
    BY <1>9, <1>11, <2>2, <2>3
<1>13. /\ WithinBounds(net, new)
       /\ Moved(net, flow, new, start, EndOf(net, path, start), amount)
       /\ \A b \in Arcs(net) : Residual(net, new, b) > 0 =>
              \/ Residual(net, flow, b) > 0
              \/ rank[ArcFrom(net, b)] = rank[ArcTo(net, b)] + 1 /\ rank[start] <= rank[ArcTo(net, b)]
       /\ Lowered(net, flow, new, path, amount)
  <2>1. /\ IsNetwork(net) /\ WithinBounds(net, flow) /\ start \in net.nodes
        /\ rank \in [net.nodes -> Int] /\ WorkPath(net, flow, path, start, rank, cursor)
        /\ path # <<>> /\ amount \in Nat
        /\ \A i \in 1 .. Len(path) : amount <= Residual(net, flow, path[i])
        /\ new = Augment(net, flow, path, amount)
    BY <1>2, <1>3, <1>4, <1>6, <1>12
  <2>2. WithinBounds(net, new)
    BY ONLY <2>1, WorkAugment
  <2>3. Moved(net, flow, new, start, EndOf(net, path, start), amount)
    BY ONLY <2>1, WorkAugment
  <2>4. \A b \in Arcs(net) : Residual(net, new, b) > 0 =>
            \/ Residual(net, flow, b) > 0
            \/ rank[ArcFrom(net, b)] = rank[ArcTo(net, b)] + 1 /\ rank[start] <= rank[ArcTo(net, b)]
    BY ONLY <2>1, WorkAugment
  <2>5. Lowered(net, flow, new, path, amount)
    BY ONLY <2>1, WorkAugment
  <2> QED
    BY <2>2, <2>3, <2>4, <2>5
<1> DEFINE excess2 == k'.excess
           cursor2 == k'.cursor
<1>14. /\ excess2 = [u \in net.nodes |-> excess[u] - (IF u = start THEN amount ELSE 0)
                                                   + (IF u = End THEN amount ELSE 0)]
       /\ cursor2 = [u \in net.nodes |-> cursor[u] + (IF u \in filled THEN 1 ELSE 0)]
       /\ excess2 = k'.excess /\ cursor2 = k'.cursor
  BY <1>5
<1> HIDE DEF excess2, cursor2
<1>15. Preflow(net, new, excess2)
  <2>1. excess2 \in [net.nodes -> Int]
    BY <1>10, <1>12, <1>14
  <2>2. ASSUME NEW v \in net.nodes PROVE excess2[v] = -Divergence(net, new, v)
    <3>1. excess[v] = -Divergence(net, flow, v)
      BY <1>3 DEF Preflow
    <3>2. /\ Divergence(net, flow, v) \in Int
          /\ Divergence(net, new, v) = Divergence(net, flow, v)
                 + (IF v = start THEN amount ELSE 0) - (IF v = End THEN amount ELSE 0)
      BY <1>2, <1>13 DEF Moved
    <3> QED
      BY <1>12, <1>14, <3>1, <3>2
  <2>3. ASSUME NEW v \in Inner(net) PROVE excess2[v] >= 0
    <3>1. v \in net.nodes /\ excess[v] >= 0 /\ excess[v] \in Int
      BY <1>3, <1>10 DEF Preflow, Inner
    <3> QED
      BY <1>12, <1>14, <3>1
  <2> QED
    BY <2>1, <2>2, <2>3 DEF Preflow
<1>16. OnlyBack(net, flow, new, label)
  <2> SUFFICES ASSUME NEW b \in Arcs(net), Residual(net, new, b) > 0
               PROVE  \/ Residual(net, flow, b) > 0
                      \/ label[ArcTo(net, b)] = label[ArcFrom(net, b)] + 1
    BY DEF OnlyBack
  <2>1. ArcFrom(net, b) \in net.nodes /\ ArcTo(net, b) \in net.nodes
    BY <1>3, ResidualIsInt
  <2>2. /\ label[ArcFrom(net, b)] \in Int /\ label[ArcTo(net, b)] \in Int
        /\ rank[ArcFrom(net, b)] = -label[ArcFrom(net, b)] /\ rank[ArcTo(net, b)] = -label[ArcTo(net, b)]
    BY <1>2, <1>3, <2>1
  <2> QED
    BY <1>13, <2>2
<1>17. Exhausted(net, new, cursor, filled)
  <2> SUFFICES ASSUME NEW v \in filled
               PROVE  /\ v \in net.nodes /\ cursor[v] + 1 \in 1 .. Len(net.outgoing[v])
                      /\ ~(Residual(net, new, net.outgoing[v][cursor[v] + 1]) > 0)
    BY DEF Exhausted
  <2>1. PICK j \in 1 .. Len(path) : Residual(net, flow, path[j]) = amount /\ v = ArcFrom(net, path[j])
    BY <1>7, <1>8
  <2>2. cursor[v] + 1 \in 1 .. Len(net.outgoing[v]) /\ net.outgoing[v][cursor[v] + 1] = path[j]
    BY <1>2, <2>1 DEF WorkPath
  <2>3. Residual(net, new, path[j]) = amount - amount
    BY <1>13, <2>1 DEF Lowered
  <2>4. ~(Residual(net, new, path[j]) > 0)
    BY <1>12, <2>3
  <2> QED
    BY <1>11, <2>1, <2>2, <2>4
<1>18. /\ ValidHeights(net, new, label) /\ cursor2 \in [net.nodes -> Nat]
       /\ Passed(net, new, label, cursor2)
  <2>1. /\ IsNetwork(net) /\ WithinBounds(net, new) /\ ValidHeights(net, flow, label)
        /\ cursor \in [net.nodes -> Nat] /\ Passed(net, flow, label, cursor)
        /\ cursor2 = PastFilled(net, cursor, filled)
    BY <1>2, <1>3, <1>13, <1>14 DEF PastFilled
  <2>2. ValidHeights(net, new, label) /\ Passed(net, new, label, cursor2)
    BY ONLY <1>16, <1>17, <2>1, CarriedPasses
  <2>3. cursor2 \in [net.nodes -> Nat]
    BY <1>3, <1>14
  <2> QED
    BY <2>2, <2>3
<1>19. SoundPreflow(flow', k')
  <2>1. label = k.label /\ Counted(net, k.label, k.counts)
    BY <1>3 DEF label
  <2> QED
    BY <1>3, <1>5, <1>6, <1>13, <1>14, <1>15, <1>18, <2>1 DEF SoundPreflow
<1>20. phase' \in Points /\ AtPoint(phase', flow', k')
  BY <1>1 DEF AtPoint, Points
<1> QED
  BY <1>1, <1>3, <1>19, <1>20, Established

(***************************************************************************)
(* All of them: each solver keeps the invariant of its family.             *)
(***************************************************************************)
LEMMA OnlyPresets ==
    ASSUME alg \in Presets, Next
    PROVE  PushRelabelStep \/ Certify
<1>1. /\ alg \notin Searching /\ alg \notin Labelling /\ alg \notin BreadthFirst
      /\ alg \notin DepthFirst /\ alg # "widest" /\ alg # "dinic"
  BY DEF Searching, Labelling, BreadthFirst, DepthFirst, Presets
<1>2. ~AugmentingPathsStep
  BY <1>1 DEF AugmentingPathsStep, BeginSearch, ExploreBreadth, ExploreDepth, SettleWidest,
     EndSearch, AugmentSearched, AdvanceLevel, RetreatLevel, AugmentLevel, InitializeLabels,
     AdvanceLabel, AugmentLabel, RelabelAndRetreat
<1> QED
  BY <1>2 DEF Next

LEMMA PreflowStep ==
    ASSUME PreflowInv, [Next]_vars
    PROVE  PreflowInv'
<1>1. CASE UNCHANGED vars
  <2>1. UNCHANGED <<net, alg, flow, phase, k>>
    BY <1>1 DEF vars
  <2> QED
    BY <2>1 DEF PreflowInv, SoundPreflow, AtPoint, InWork
<1>2. CASE Next
  <2>1. alg \in Presets
    BY DEF PreflowInv
  <2>2. PushRelabelStep \/ Certify
    BY <1>2, <2>1, OnlyPresets
  <2> QED
    BY <2>2, InitializeStep, SelectStep, PushStep, RelabelStep, EndDischargeStep, GlobalRelabelStep,
       ProcessScaledStep, NextScaleStep, AdvancePathStep, RetreatPathStep, AugmentPathStep, StopStep
    DEF PushRelabelStep
<1> QED
  BY <1>1, <1>2

LEMMA PreflowShows ==
    ASSUME PreflowInv
    PROVE  FlowOrPreflow /\ ValidLabels /\ CurrentArcsMissNothing /\ OnlyMaximum
<1>1. CASE phase = "start"
  <2>1. alg \in Presets /\ Feasible(net, flow)
    BY <1>1 DEF PreflowInv
  <2> QED
    BY <1>1, <2>1 DEF Feasible, FlowOrPreflow, ValidLabels, CurrentArcsMissNothing, OnlyMaximum, Started
<1>2. CASE phase # "start"
  <2>1. /\ net \in Networks /\ IsNetwork(net) /\ alg \in Presets /\ alg # "dinic"
        /\ AtPoint(phase, flow, k) /\ phase \in Points
        /\ WithinBounds(net, flow) /\ Preflow(net, flow, k.excess)
        /\ ValidHeights(net, flow, k.label) /\ Counted(net, k.label, k.counts)
        /\ alg # "generic" => Passed(net, flow, k.label, k.cursor)
    BY <1>2, PreflowIs
  <2>2. phase # "level" /\ phase # "label"
    BY <2>1 DEF Points
  <2>3. FlowOrPreflow
    BY <2>1 DEF FlowOrPreflow, Preflow, AtPoint
  <2>4. ValidLabels
    BY <2>1, <2>2 DEF ValidLabels, ValidHeights, Counted, R, To
  <2>5. CurrentArcsMissNothing
    <3> SUFFICES ASSUME alg # "generic", NEW v \in net.nodes \ {net.sink}, NEW i \in 1..k.cursor[v]
                 PROVE  ~Admissible(v, net.outgoing[v][i])
      BY DEF CurrentArcsMissNothing
    <3> QED
      BY <2>1 DEF Passed, Admissible, R, To
  <2>6. ASSUME phase \in {"certify", "done"} PROVE Value = LeastCut
    <3>1. \A v \in Inner(net) : k.excess[v] = 0
      BY <2>1, <2>6 DEF AtPoint
    <3>2. \A v \in Inner(net) : Divergence(net, flow, v) = 0
      <4> TAKE v \in Inner(net)
      <4>1. v \in net.nodes /\ k.excess[v] = -Divergence(net, flow, v) /\ k.excess[v] = 0
        BY <2>1, <3>1 DEF Preflow, Inner
      <4>2. Divergence(net, flow, v) \in Int
        <5>1. \A u \in net.nodes : Divergences(net, flow)[u] \in Int
          BY <2>1, CrossingFlow
        <5> QED
          BY <4>1, <5>1 DEF Divergences
      <4> QED
        BY <4>1, <4>2
    <3> QED
      BY <2>1, <3>2, HeightsCertify DEF Value, LeastCut
  <2> QED
    BY <2>3, <2>4, <2>5, <2>6 DEF OnlyMaximum
<1> QED
  BY <1>1, <1>2

\* The search, the level, the label and the preflow solvers.
SolverInv == SearchInv \/ DinicInv \/ LabelInv \/ PreflowInv

LEMMA InitSolver ==
    ASSUME Init
    PROVE  SolverInv
<1>1. alg \in Searching \cup Labelling \cup Presets
  BY SolversAssumption DEF Init
<1>2. alg \in TreeSearches \/ alg = "dinic" \/ alg \in Labelling \/ alg \in Presets
  BY <1>1 DEF TreeSearches
<1> QED
  BY <1>2, InitSearch, InitLabel, InitPreflow DEF SolverInv

LEMMA SolverStep ==
    ASSUME SolverInv, [Next]_vars
    PROVE  SolverInv'
BY SearchStep, DinicStep, LabelStep, PreflowStep DEF SolverInv

LEMMA SolverShows ==
    ASSUME SolverInv
    PROVE  FlowOrPreflow /\ ValidLabels /\ CurrentArcsMissNothing /\ OnlyMaximum
BY SearchShows, DinicShows, LabelShows, PreflowShows DEF SolverInv

LEMMA SolverAlways == Spec => []SolverInv
<1>1. Init => SolverInv
  BY InitSolver
<1>2. SolverInv /\ [Next]_vars => SolverInv'
  BY SolverStep
<1> QED
  BY <1>1, <1>2, PTL DEF Spec

\* For every solver on every network, after every step: each edge stays within
\* its bounds; a path solver's flow is feasible, and under a preset a node's
\* excess is exactly what the flow leaves behind at it, never negative and,
\* under excess scaling, never above the scale.
THEOREM SolversKeepTheFlow == Spec => []FlowOrPreflow
<1>1. SolverInv => FlowOrPreflow
  BY SolverShows
<1> QED
  BY <1>1, SolverAlways, PTL

\* No live arc leads down by more than one, whatever is pushed, augmented,
\* relabelled, lifted over a gap or relabelled globally, and the counts the
\* gap rules read are exact; Dinic's levels bound the distance from the source
\* until its phase ends.
THEOREM SolversKeepTheLabels == Spec => []ValidLabels
<1>1. SolverInv => ValidLabels
  BY SolverShows
<1> QED
  BY <1>1, SolverAlways, PTL

\* No arc that a node's search has passed has become admissible again, although
\* flow went both ways and other nodes were relabelled since.
THEOREM SolversMissNothing == Spec => []CurrentArcsMissNothing
<1>1. SolverInv => CurrentArcsMissNothing
  BY SolverShows
<1> QED
  BY <1>1, SolverAlways, PTL

\* A solver that ends its work hands the certificate a flow whose value is that
\* of the least of all cuts, whichever rule it ended by.
THEOREM SolversEndAtMaximum == Spec => []OnlyMaximum
<1>1. SolverInv => OnlyMaximum
  BY SolverShows
<1> QED
  BY <1>1, SolverAlways, PTL
==============================================================================
