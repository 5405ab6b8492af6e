---------------------------- MODULE MinCostProofs ----------------------------
(***************************************************************************)
(* What the certificate that every minimum-cost solver ends with is worth,  *)
(* for every problem: potentials under which no residual arc is cheaper     *)
(* than free make the flow no dearer than any other feasible flow. What the *)
(* potentials add to the costs of the edges sums up, node by node, to the   *)
(* potential times the divergence, which is the same for all of them.       *)
(*                                                                         *)
(* And that the cost scalers end with such potentials: in a refinement the  *)
(* falling arcs descend in a rank of the nodes, so that no node is passed   *)
(* over for good, and an error of one under costs multiplied by more than   *)
(* the number of nodes is no error.                                         *)
(***************************************************************************)
EXTENDS MinCostFlow, Sums

LEMMA ProblemTypes ==
    ASSUME NEW g \in Problems, NEW fl, WithinBounds(g, fl)
    PROVE  /\ IsFiniteSet(Edges(g)) /\ IsFiniteSet(g.nodes)
           /\ \A v \in g.nodes : g.required[v] \in Int
           /\ \A e \in Edges(g) :
                 /\ g.from[e] \in g.nodes /\ g.to[e] \in g.nodes /\ g.cost[e] \in Int
                 /\ g.lower[e] \in Int /\ g.capacity[e] \in Int /\ fl[e] \in Int
                 /\ g.lower[e] <= fl[e] /\ fl[e] <= g.capacity[e]
<1>1. IsNetwork(g) /\ g.cost \in [Edges(g) -> Int] /\ g.required \in [g.nodes -> Int] BY ProblemsAssumption
<1>2. ASSUME NEW e \in Edges(g)
      PROVE  /\ g.from[e] \in g.nodes /\ g.to[e] \in g.nodes /\ g.cost[e] \in Int
             /\ g.lower[e] \in Int /\ g.capacity[e] \in Int /\ fl[e] \in Int
             /\ g.lower[e] <= fl[e] /\ fl[e] <= g.capacity[e]
  BY <1>1 DEF IsNetwork, WithinBounds
<1> QED BY <1>1, <1>2 DEF IsNetwork

Meets(g, fl) == WithinBounds(g, fl) /\ \A v \in g.nodes : Divergence(g, fl, v) = g.required[v]

\* What potentials add to the cost of a flow depends only on what it delivers.
AtFrom(g, p) == ByClass(p, g.from, Edges(g))
AtTo(g, p) == ByClass(p, g.to, Edges(g))

LEMMA PotentialsTelescope ==
    ASSUME NEW g \in Problems, NEW fl, Meets(g, fl), NEW p \in [g.nodes -> Int]
    PROVE  /\ Total(Times(p, g.required, g.nodes), g.nodes) \in Int
           /\ Total(Times(AtTo(g, p), fl, Edges(g)), Edges(g)) \in Int
           /\ Total(Times(AtFrom(g, p), fl, Edges(g)), Edges(g))
                = Total(Times(p, g.required, g.nodes), g.nodes)
                  + Total(Times(AtTo(g, p), fl, Edges(g)), Edges(g))
<1> DEFINE E == Edges(g)
           V == g.nodes
           out == [v \in V |-> Total(fl, OfClass(E, g.from, v))]
           in == [v \in V |-> Total(fl, OfClass(E, g.to, v))]
           a == Times(p, out, V)
           b == Times(p, in, V)
           d == Times(p, g.required, V)
<1>1. /\ IsFiniteSet(E) /\ IsFiniteSet(V)
      /\ \A v \in V : g.required[v] \in Int /\ p[v] \in Int
      /\ \A e \in E : g.from[e] \in V /\ g.to[e] \in V /\ fl[e] \in Int
  BY ProblemTypes DEF Meets
<1>2. /\ \A v \in V : out[v] = Total(fl, OfClass(E, g.from, v))
      /\ \A v \in V : in[v] = Total(fl, OfClass(E, g.to, v))
  OBVIOUS
<1>3. \A v \in V : g.required[v] = out[v] - in[v]
  <2> TAKE v \in V
  <2>1. Divergence(g, fl, v) = g.required[v] BY DEF Meets
  <2>2. Divergence(g, fl, v) = SumOver(fl, OfClass(E, g.from, v)) - SumOver(fl, OfClass(E, g.to, v))
    BY DEF Divergence, OfClass
  <2> QED BY <2>1, <2>2, <1>2, SumIsTotal
<1> HIDE DEF out, in, E, V
<1>4. (\A v \in V : out[v] \in Int) /\ Total(a, V) = Total(Times(ByClass(p, g.from, E), fl, E), E)
  BY <1>1, <1>2, WeightedByClass
<1>5. (\A v \in V : in[v] \in Int) /\ Total(b, V) = Total(Times(ByClass(p, g.to, E), fl, E), E)
  BY <1>1, <1>2, WeightedByClass
<1>6. \A v \in V : a[v] \in Int /\ a[v] = p[v] * out[v] BY <1>1, <1>4, TimesIsInt
<1>7. \A v \in V : b[v] \in Int /\ b[v] = p[v] * in[v] BY <1>1, <1>5, TimesIsInt
<1>8. \A v \in V : d[v] \in Int /\ d[v] = p[v] * g.required[v] BY <1>1, TimesIsInt
<1> HIDE DEF a, b, d
<1>9. \A v \in V : a[v] = d[v] + b[v]
  <2> TAKE v \in V
  <2>1. out[v] = g.required[v] + in[v] BY <1>1, <1>3, <1>4, <1>5
  <2>2. p[v] * (g.required[v] + in[v]) = p[v] * g.required[v] + p[v] * in[v] BY <1>1, <1>5, Distributes
  <2> QED BY <1>6, <1>7, <1>8, <2>1, <2>2
<1>10. Total(a, V) = Total(d, V) + Total(b, V) BY <1>1, <1>7, <1>8, <1>9, TotalPlus
<1>11. Total(d, V) \in Int /\ Total(b, V) \in Int BY <1>1, <1>7, <1>8, TotalType
<1> QED BY <1>4, <1>5, <1>10, <1>11 DEF d, E, V, AtFrom, AtTo

\* Potentials that prove a flow cheapest: no residual arc is cheaper than free.
Proves(g, fl, p) ==
    /\ p \in [g.nodes -> Int]
    /\ \A a \in Arcs(g) : Residual(g, fl, a) > 0 => ArcCost(g, a) + p[ArcFrom(g, a)] - p[ArcTo(g, a)] >= 0

\* No edge becomes cheaper by another flow on it.
LEMMA EdgeByEdge ==
    ASSUME NEW g \in Problems, NEW fl, WithinBounds(g, fl), NEW h, WithinBounds(g, h),
           NEW p, Proves(g, fl, p), NEW e \in Edges(g), NEW c, c = g.cost[e] + p[g.from[e]] - p[g.to[e]]
    PROVE  c \in Int /\ c * fl[e] <= c * h[e]
<1>1. /\ fl[e] \in Int /\ h[e] \in Int /\ g.cost[e] \in Int
      /\ g.lower[e] \in Int /\ g.capacity[e] \in Int
      /\ g.lower[e] <= fl[e] /\ fl[e] <= g.capacity[e]
      /\ g.lower[e] <= h[e] /\ h[e] <= g.capacity[e]
      /\ p[g.from[e]] \in Int /\ p[g.to[e]] \in Int
  BY ProblemTypes DEF Proves
<1>2. fl[e] < h[e] => c >= 0
  <2>1. <<e, "forward">> \in Arcs(g) BY DEF Arcs
  <2>2. fl[e] < h[e] => Residual(g, fl, <<e, "forward">>) > 0 BY <1>1 DEF Residual
  <2> QED BY <1>1, <2>1, <2>2 DEF Proves, ArcCost, ArcFrom, ArcTo
<1>3. h[e] < fl[e] => c <= 0
  <2>1. <<e, "reverse">> \in Arcs(g) BY DEF Arcs
  <2>2. h[e] < fl[e] => Residual(g, fl, <<e, "reverse">>) > 0 BY <1>1 DEF Residual
  <2> QED BY <1>1, <2>1, <2>2 DEF Proves, ArcCost, ArcFrom, ArcTo
<1> QED BY <1>1, <1>2, <1>3, Monotone

\* Weak duality: a feasible flow with such potentials costs no more than any
\* other feasible flow.
THEOREM NoFlowIsCheaper ==
    ASSUME NEW g \in Problems, NEW fl, Meets(g, fl), NEW h, Meets(g, h), NEW p, Proves(g, fl, p)
    PROVE  FlowCost(g, fl) <= FlowCost(g, h)
<1> DEFINE E == Edges(g)
           D == Total(Times(p, g.required, g.nodes), g.nodes)
           c == [e \in E |-> g.cost[e] + p[g.from[e]] - p[g.to[e]]]
           K(x) == Times(g.cost, x, E)
           A(x) == Times(AtFrom(g, p), x, E)
           B(x) == Times(AtTo(g, p), x, E)
           left == [e \in E |-> K(fl)[e] + A(fl)[e]]
           right == [e \in E |-> K(h)[e] + A(h)[e]]
           lower == [e \in E |-> left[e] + B(h)[e]]
           upper == [e \in E |-> right[e] + B(fl)[e]]
<1>1. /\ WithinBounds(g, fl) /\ WithinBounds(g, h) /\ p \in [g.nodes -> Int]
      /\ IsFiniteSet(E)
      /\ \A e \in E : /\ g.from[e] \in g.nodes /\ g.to[e] \in g.nodes /\ g.cost[e] \in Int
                      /\ fl[e] \in Int /\ h[e] \in Int
  BY ProblemTypes DEF Meets, Proves
<1>2. \A e \in E : /\ AtFrom(g, p)[e] = p[g.from[e]] /\ AtFrom(g, p)[e] \in Int
                   /\ AtTo(g, p)[e] = p[g.to[e]] /\ AtTo(g, p)[e] \in Int
  BY <1>1 DEF AtFrom, AtTo, ByClass
<1>3. \A e \in E : c[e] \in Int /\ c[e] = g.cost[e] + AtFrom(g, p)[e] - AtTo(g, p)[e]
                   /\ c[e] * fl[e] <= c[e] * h[e]
  <2> TAKE e \in E
  <2>1. c[e] = g.cost[e] + p[g.from[e]] - p[g.to[e]] OBVIOUS
  <2> HIDE DEF c
  <2>2. c[e] \in Int /\ c[e] * fl[e] <= c[e] * h[e] BY <1>1, <2>1, EdgeByEdge
  <2> QED BY <1>2, <2>1, <2>2
<1>4. ASSUME NEW x, \A e \in E : x[e] \in Int
      PROVE  \A e \in E : /\ K(x)[e] \in Int /\ K(x)[e] = g.cost[e] * x[e]
                          /\ A(x)[e] \in Int /\ A(x)[e] = AtFrom(g, p)[e] * x[e]
                          /\ B(x)[e] \in Int /\ B(x)[e] = AtTo(g, p)[e] * x[e]
  <2>1. \A e \in E : K(x)[e] \in Int /\ K(x)[e] = g.cost[e] * x[e] BY <1>1, <1>4, TimesIsInt
  <2>2. \A e \in E : A(x)[e] \in Int /\ A(x)[e] = AtFrom(g, p)[e] * x[e] BY <1>2, <1>4, TimesIsInt
  <2>3. \A e \in E : B(x)[e] \in Int /\ B(x)[e] = AtTo(g, p)[e] * x[e] BY <1>2, <1>4, TimesIsInt
  <2> QED BY <2>1, <2>2, <2>3
<1> HIDE DEF K, A, B, c
<1>5. \A e \in E : /\ K(fl)[e] \in Int /\ A(fl)[e] \in Int /\ B(fl)[e] \in Int
                   /\ K(h)[e] \in Int /\ A(h)[e] \in Int /\ B(h)[e] \in Int
                   /\ left[e] \in Int /\ left[e] = K(fl)[e] + A(fl)[e]
                   /\ right[e] \in Int /\ right[e] = K(h)[e] + A(h)[e]
  BY <1>1, <1>4
<1> HIDE DEF left, right
<1>6. \A e \in E : /\ lower[e] \in Int /\ lower[e] = left[e] + B(h)[e]
                   /\ upper[e] \in Int /\ upper[e] = right[e] + B(fl)[e]
  BY <1>5
<1> HIDE DEF lower, upper
<1>7. \A e \in E : lower[e] <= upper[e]
  <2> TAKE e \in E
  <2> DEFINE k0 == g.cost[e]
             a0 == AtFrom(g, p)[e]
             b0 == AtTo(g, p)[e]
             x == fl[e]
             y == h[e]
             c0 == c[e]
  <2>1. /\ k0 \in Int /\ a0 \in Int /\ b0 \in Int /\ x \in Int /\ y \in Int
        /\ c0 = k0 + a0 - b0 /\ c0 * x <= c0 * y
    BY <1>1, <1>2, <1>3
  <2>2. lower[e] = k0 * x + a0 * x + b0 * y /\ upper[e] = k0 * y + a0 * y + b0 * x BY <1>1, <1>4, <1>5, <1>6
  <2> HIDE DEF k0, a0, b0, x, y, c0
  <2>3. \A i, j, m, u \in Int : (i + j - m) * u = i * u + j * u - m * u OBVIOUS
  <2>4. c0 * x = k0 * x + a0 * x - b0 * x /\ c0 * y = k0 * y + a0 * y - b0 * y BY <2>1, <2>3
  <2>5. /\ k0 * x \in Int /\ a0 * x \in Int /\ b0 * x \in Int
        /\ k0 * y \in Int /\ a0 * y \in Int /\ b0 * y \in Int
    BY <2>1, Distributes
  <2> QED BY <2>1, <2>2, <2>4, <2>5
<1>8. /\ Total(left, E) = Total(K(fl), E) + Total(A(fl), E)
      /\ Total(right, E) = Total(K(h), E) + Total(A(h), E)
  BY <1>1, <1>5, TotalPlus
<1>9. /\ Total(lower, E) = Total(left, E) + Total(B(h), E)
      /\ Total(upper, E) = Total(right, E) + Total(B(fl), E)
  BY <1>1, <1>5, <1>6, TotalPlus
<1>10. Total(lower, E) <= Total(upper, E) BY <1>1, <1>6, <1>7, TotalLeq
<1>11. /\ D \in Int
       /\ Total(B(fl), E) \in Int /\ Total(A(fl), E) = D + Total(B(fl), E)
       /\ Total(B(h), E) \in Int /\ Total(A(h), E) = D + Total(B(h), E)
  BY <1>1, PotentialsTelescope DEF A, B
<1>12. Total(K(fl), E) \in Int /\ Total(K(h), E) \in Int BY <1>1, <1>5, TotalType
<1>13. FlowCost(g, fl) = Total(K(fl), E) /\ FlowCost(g, h) = Total(K(h), E)
  BY SumIsTotal DEF FlowCost, K, Times
<1> HIDE DEF D, E
<1> QED BY <1>8, <1>9, <1>10, <1>11, <1>12, <1>13

\* What the certificate accepts is such a flow, with the potentials it rebuilds.
LEMMA CertificateProves ==
    ASSUME CheckMinCostFlow
    PROVE  Meets(net, flow) /\ Proves(net, flow, ZeroPasses.dist)
<1> DEFINE p == ZeroPasses.dist
<1>1. WithinBounds(net, flow) /\ \A v \in net.nodes : Divergence(net, flow, v) = net.required[v]
  BY DEF CheckMinCostFlow
<1>2. DualFeasible(p) BY DEF CheckMinCostFlow
<1> HIDE DEF p
<1>3. Proves(net, flow, p) BY <1>2 DEF DualFeasible, Proves, R, From, To
<1> QED BY <1>1, <1>3 DEF Meets, p

\* Only a certificate ends a solver with success.
Cheapest(g, fl) == Meets(g, fl) /\ \A h : Meets(g, h) => FlowCost(g, fl) <= FlowCost(g, h)

Certified == /\ net \in Problems
             /\ phase = "done" => Cheapest(net, flow)

LEMMA CertificateSuffices ==
    ASSUME net \in Problems, CheckMinCostFlow PROVE Cheapest(net, flow)
BY CertificateProves, NoFlowIsCheaper DEF Cheapest

LEMMA OnlyCertifyIsDone ==
    ASSUME Next
    PROVE  /\ UNCHANGED <<net, alg>>
           /\ phase' = "done" => CheckMinCostFlow /\ UNCHANGED flow
<1>1. CASE Certify BY <1>1 DEF Certify, Stop, Quiet
<1>2. CASE ShortestPathStep
  <2>1. CASE BeginSuccessive BY <2>1 DEF BeginSuccessive, Admission, Quiet
  <2>2. CASE RouteImbalance BY <2>2 DEF RouteImbalance, Stop, Quiet
  <2>3. CASE NothingToRoute BY <2>3 DEF NothingToRoute, Stop, Quiet
  <2>4. CASE BeginScale BY <2>4 DEF BeginScale, Quiet
  <2>5. CASE LevelOrTighten BY <2>5 DEF LevelOrTighten, Stop, Quiet
  <2>6. CASE AdvanceBlock BY <2>6 DEF AdvanceBlock, Quiet
  <2>7. CASE RetreatBlock BY <2>7 DEF RetreatBlock, Quiet
  <2>8. CASE AugmentBlock BY <2>8 DEF AugmentBlock, Quiet
  <2> QED BY <1>2, <2>1, <2>2, <2>3, <2>4, <2>5, <2>6, <2>7, <2>8 DEF ShortestPathStep
<1>3. CASE CycleCancelingStep
  <2>1. CASE BeginImproving BY <2>1 DEF BeginImproving, Stop, Quiet
  <2>2. CASE CancelNegativeCycle BY <2>2 DEF CancelNegativeCycle, Cancel, Stop, Quiet
  <2>3. CASE CancelMinimumMean BY <2>3 DEF CancelMinimumMean, Cancel, Stop, Quiet
  <2>4. CASE SelectEdge BY <2>4 DEF SelectEdge, Stop, Quiet
  <2>5. CASE CorrectEdge BY <2>5 DEF CorrectEdge, Quiet
  <2> QED BY <1>3, <2>1, <2>2, <2>3, <2>4, <2>5 DEF CycleCancelingStep
<1>4. CASE CostScalingStep
  <2>1. CASE BeginCostScaling BY <2>1 DEF BeginCostScaling, Stop, Quiet
  <2>2. CASE StartRefine BY <2>2 DEF StartRefine, Fill, Stop, Quiet
  <2>3. CASE Push BY <2>3 DEF Push, Discharging, Quiet
  <2>4. CASE Relabel BY <2>4 DEF Relabel, Discharging, Stop, Quiet
  <2>5. CASE TakeRoot BY <2>5 DEF TakeRoot, Quiet
  <2>6. CASE ExtendPath BY <2>6 DEF ExtendPath, Searching, Quiet
  <2>7. CASE RelabelPathEnd BY <2>7 DEF RelabelPathEnd, Searching, Stop, Quiet
  <2>8. CASE PushPath BY <2>8 DEF PushPath, Searching, Quiet
  <2>9. CASE FinishRefine BY <2>9 DEF FinishRefine, Fill, Quiet
  <2> QED BY <1>4, <2>1, <2>2, <2>3, <2>4, <2>5, <2>6, <2>7, <2>8, <2>9 DEF CostScalingStep
<1> QED BY <1>1, <1>2, <1>3, <1>4 DEF Next

\* Whatever a solver does on its way and on whatever problem, when it reports
\* success (certificate.rs's check after every solver) its flow is feasible and
\* no feasible flow costs less.
THEOREM CertifiedIsCheapest == Spec => [](phase = "done" => Cheapest(net, flow))
<1>1. Init => Certified BY DEF Init, Certified
<1>2. Certified /\ [Next]_vars => Certified'
  <2> SUFFICES ASSUME Certified, [Next]_vars PROVE Certified' OBVIOUS
  <2>1. CASE Next BY <2>1, OnlyCertifyIsDone, CertificateSuffices DEF Certified
  <2>2. CASE UNCHANGED vars BY <2>2 DEF vars, Certified
  <2> QED BY <2>1, <2>2
<1>3. Certified => (phase = "done" => Cheapest(net, flow)) BY DEF Certified
<1> QED BY <1>1, <1>2, <1>3, PTL DEF Spec

(***************************************************************************)
(* Cost scaling. Slack, falling arcs and near optimality as functions of   *)
(* the state, and what flow along an arc does to them.                     *)
(***************************************************************************)

\* What stays of a scaled cost under prices, an arc of negative reduced cost that flow
\* can still use, and a flow that is optimal up to an error, as functions of the state.
Slack(g, p, a) == ArcCost(g, a) * (Cardinality(g.nodes) + 1) - p[ArcFrom(g, a)] + p[ArcTo(g, a)]
Falls(g, fl, p, fixed, a) == Residual(g, fl, a) > 0 /\ a[1] \notin fixed /\ Slack(g, p, a) < 0
NearOptimal(g, fl, p, fixed, error) ==
    \A a \in Arcs(g) : Residual(g, fl, a) > 0 /\ a[1] \notin fixed => Slack(g, p, a) >= -error
Accounts(g, fl, ex) ==
    /\ fl \in [Edges(g) -> Int] /\ ex \in [g.nodes -> Int]
    /\ WithinBounds(g, fl)
    /\ \A v \in g.nodes : Divergence(g, fl, v) + ex[v] = g.required[v]

\* The reduced cost of the model under a cost scaler is the slack.
LEMMA ScalersCost ==
    ASSUME alg \in CostScalers, NEW p, NEW a
    PROVE  ReducedCost(p, a) = Slack(net, p, a)
BY DEF ReducedCost, Slack, N, From, To

\* An arc is an edge and a direction, its ends are nodes and its cost is an integer.
LEMMA ArcEnds ==
    ASSUME NEW g \in Problems, NEW a \in Arcs(g)
    PROVE  /\ a = <<a[1], a[2]>> /\ a[1] \in Edges(g) /\ a[2] \in {"forward", "reverse"}
           /\ ArcFrom(g, a) \in g.nodes /\ ArcTo(g, a) \in g.nodes
           /\ ArcCost(g, a) \in Int /\ Cardinality(g.nodes) \in Nat
<1>1. a = <<a[1], a[2]>> /\ a[1] \in Edges(g) /\ a[2] \in {"forward", "reverse"} BY DEF Arcs
<1>2. IsNetwork(g) /\ g.cost \in [Edges(g) -> Int] BY ProblemsAssumption
<1>3. ArcFrom(g, a) \in g.nodes /\ ArcTo(g, a) \in g.nodes BY <1>1, <1>2 DEF IsNetwork, ArcFrom, ArcTo
<1>4. ArcCost(g, a) \in Int BY <1>1, <1>2 DEF ArcCost
<1>5. Cardinality(g.nodes) \in Nat BY <1>2, FS_CardinalityType DEF IsNetwork
<1> QED BY <1>1, <1>3, <1>4, <1>5

\* Slack is an integer, and the arc back has the opposite one.
LEMMA SlackOpposite ==
    ASSUME NEW g \in Problems, NEW p \in [g.nodes -> Int], NEW a \in Arcs(g)
    PROVE  /\ Slack(g, p, a) \in Int
           /\ ArcCost(g, a) * (Cardinality(g.nodes) + 1) \in Int
           /\ \A b \in Arcs(g) : b[1] = a[1] /\ b # a => Slack(g, p, b) = -Slack(g, p, a)
<1> DEFINE c(b) == ArcCost(g, b) * (Cardinality(g.nodes) + 1)
<1>1. \A b \in Arcs(g) : /\ c(b) \in Int /\ p[ArcFrom(g, b)] \in Int /\ p[ArcTo(g, b)] \in Int
                         /\ Slack(g, p, b) = c(b) - p[ArcFrom(g, b)] + p[ArcTo(g, b)]
  BY ArcEnds, Product DEF Slack
<1>2. ASSUME NEW b \in Arcs(g), b[1] = a[1], b # a PROVE Slack(g, p, b) = -Slack(g, p, a)
  <2>1. ArcFrom(g, b) = ArcTo(g, a) /\ ArcTo(g, b) = ArcFrom(g, a) /\ ArcCost(g, b) = -ArcCost(g, a)
    BY <1>2, ArcEnds, ProblemsAssumption, SMTT(30) DEF ArcFrom, ArcTo, ArcCost
  <2>2. c(b) = -c(a) BY <2>1, ArcEnds, Product
  <2> HIDE DEF c
  <2> QED BY <1>1, <2>1, <2>2
<1> QED BY <1>1, <1>2

\* Flow along an arc takes from its residual capacity and gives to that of the arc back.
LEMMA ResidualAfter ==
    ASSUME NEW g \in Problems, NEW fl \in [Edges(g) -> Int], NEW a \in Arcs(g), NEW amount \in Int,
           NEW b \in Arcs(g)
    PROVE  /\ Residual(g, fl, b) \in Int
           /\ Residual(g, Augment(g, fl, <<a>>, amount), b) =
                  IF b[1] # a[1] THEN Residual(g, fl, b)
                  ELSE IF b = a THEN Residual(g, fl, b) - amount ELSE Residual(g, fl, b) + amount
<1>1. /\ b = <<b[1], b[2]>> /\ b[1] \in Edges(g) /\ b[2] \in {"forward", "reverse"}
      /\ a = <<a[1], a[2]>> /\ a[1] \in Edges(g) /\ a[2] \in {"forward", "reverse"}
  BY ArcEnds
<1>2. fl[b[1]] \in Int /\ g.lower[b[1]] \in Int /\ g.capacity[b[1]] \in Int
  BY <1>1, ProblemsAssumption DEF IsNetwork
<1>3. Augment(g, fl, <<a>>, amount)[b[1]] =
          IF b[1] # a[1] THEN fl[b[1]]
          ELSE IF a[2] = "forward" THEN fl[b[1]] + amount ELSE fl[b[1]] - amount
  BY <1>1, <1>2, AugmentArc
<1> DEFINE next == Augment(g, fl, <<a>>, amount)
<1> HIDE DEF next
<1>5. b[1] = a[1] => (b = a <=> b[2] = a[2]) BY <1>1
<1>6. Residual(g, fl, b) = (IF b[2] = "forward" THEN g.capacity[b[1]] - fl[b[1]] ELSE fl[b[1]] - g.lower[b[1]])
      /\ Residual(g, next, b) = (IF b[2] = "forward" THEN g.capacity[b[1]] - next[b[1]] ELSE next[b[1]] - g.lower[b[1]])
  BY DEF Residual
<1>7. next[b[1]] = IF b[1] # a[1] THEN fl[b[1]]
                   ELSE IF a[2] = "forward" THEN fl[b[1]] + amount ELSE fl[b[1]] - amount
  BY <1>3 DEF next
<1>8. Residual(g, next, b) =
                  IF b[1] # a[1] THEN Residual(g, fl, b)
                  ELSE IF b = a THEN Residual(g, fl, b) - amount ELSE Residual(g, fl, b) + amount
  <2>1. CASE b[1] # a[1] BY <2>1, <1>6, <1>7
  <2>2. CASE b[1] = a[1] /\ b[2] = "forward" BY <2>2, <1>1, <1>2, <1>5, <1>6, <1>7
  <2>3. CASE b[1] = a[1] /\ b[2] = "reverse" BY <2>3, <1>1, <1>2, <1>5, <1>6, <1>7
  <2> QED BY <2>1, <2>2, <2>3, <1>1
<1> QED BY <1>2, <1>6, <1>8 DEF next

\* Moving an amount between two nodes, node by node.
LEMMA MovedIs ==
    ASSUME NEW S, NEW x \in [S -> Int], NEW u, NEW w, NEW amount \in Int
    PROVE  /\ Moved(x, u, w, amount) \in [S -> Int]
           /\ \A v \in S : Moved(x, u, w, amount)[v] =
                  x[v] - (IF v = u THEN amount ELSE 0) + (IF v = w THEN amount ELSE 0)
BY DEF Moved

\* An amount that the arc has room for is accounted for.
LEMMA PushAccounts ==
    ASSUME NEW g \in Problems, NEW fl, NEW ex, Accounts(g, fl, ex), NEW a \in Arcs(g),
           NEW amount \in Nat, amount <= Residual(g, fl, a)
    PROVE  Accounts(g, Augment(g, fl, <<a>>, amount), Moved(ex, ArcFrom(g, a), ArcTo(g, a), amount))
<1> DEFINE next == Augment(g, fl, <<a>>, amount)
           u == ArcFrom(g, a)
           w == ArcTo(g, a)
           moved == Moved(ex, u, w, amount)
<1>1. IsNetwork(g) /\ WithinBounds(g, fl) /\ fl \in [Edges(g) -> Int] /\ ex \in [g.nodes -> Int]
  BY ProblemsAssumption DEF Accounts
<1>2. WithinBounds(g, next) BY <1>1, AugmentKeepsBounds
<1>3. next \in [Edges(g) -> Int]
  <2>1. next = [e \in Edges(g) |-> next[e]] BY DEF Augment
  <2> HIDE DEF next
  <2>2. \A e \in Edges(g) : next[e] \in Int BY <1>1, <1>2, NetworkTypes
  <2> QED BY <2>1, <2>2
<1>4. u \in g.nodes /\ w \in g.nodes BY ArcEnds
<1>5. /\ moved \in [g.nodes -> Int]
      /\ \A v \in g.nodes : moved[v] = ex[v] - (IF v = u THEN amount ELSE 0) + (IF v = w THEN amount ELSE 0)
  BY <1>1, MovedIs
<1>6. ASSUME NEW v \in g.nodes PROVE Divergence(g, next, v) + moved[v] = g.required[v]
  <2> DEFINE s == IF v = u THEN amount ELSE 0
             t == IF v = w THEN amount ELSE 0
  <2>1. /\ Divergence(g, fl, v) \in Int
        /\ Divergence(g, next, v) = Divergence(g, fl, v) + s - t
    BY <1>1, AugmentedDivergence
  <2>2. moved[v] = ex[v] - s + t /\ s \in Int /\ t \in Int /\ ex[v] \in Int BY <1>1, <1>5
  <2>3. Divergence(g, fl, v) + ex[v] = g.required[v] BY DEF Accounts
  <2> HIDE DEF s, t, moved, next
  <2> QED BY <2>1, <2>2, <2>3
<1> QED BY <1>2, <1>3, <1>5, <1>6 DEF Accounts

(***************************************************************************)
(* The folds of the model as runs of one step per place.                    *)
(***************************************************************************)
LEMMA SeqsMax == ASSUME NEW s PROVE Seqs!Max(s) = Finite!Max(s)
BY DEF Seqs!Max, Finite!Max

SaturatesWithin(width, skipped, D, n, seq) ==
    \A x \in D : \A i \in 1 .. n : SaturateArc(width, skipped, x, seq[i]) \in D
SaturatingRun(h, n, D, base, width, skipped, seq) ==
    /\ h \in [0 .. n -> D] /\ h[0] = base
    /\ \A i \in 1 .. n : h[i] = SaturateArc(width, skipped, h[i - 1], seq[i])

\* Saturation as a run over the arcs.
LEMMA SaturatedRuns ==
    ASSUME NEW width, NEW skipped, NEW base, base = [flow |-> flow, excess |-> excess],
           NEW D, base \in D, NEW n \in Nat, NEW seq,
           seq = ArcOrder(Cardinality(Edges(net))), DOMAIN seq = 1 .. n,
           SaturatesWithin(width, skipped, D, n, seq)
    PROVE  \E h : SaturatingRun(h, n, D, base, width, skipped, seq) /\ h[n] = Saturated(width, skipped)
<1> DEFINE step(x, i) == SaturateArc(width, skipped, x, seq[i])
           op == [z \in D \X (1 .. n) |-> step(z[1], z[2])]
           raw(g, s) == IF s = {} THEN base ELSE
                          With(g[s \ {Seqs!Max(s)}], LAMBDA u : With(seq[Seqs!Max(s)],
                                                       LAMBDA b : SaturateArc(width, skipped, u, b)))
           E(g) == g = [s \in SUBSET (1 .. n) |-> raw(g, s)]
           c == CHOOSE g : E(g)
<1>1. Saturated(width, skipped) = c[1 .. n] BY DEF Saturated, Folded, Seqs!FoldLeft, Seqs!MapThenFoldSet
<1>2. \A g, s : raw(g, s) = IF s = {} THEN base ELSE step(g[s \ {Finite!Max(s)}], Finite!Max(s))
  BY SeqsMax DEF With
<1>3. IsStep(op, D, 1 .. n) /\ \A x \in D : \A i \in 1 .. n : op[<<x, i>>] = step(x, i)
  BY DEF IsStep, SaturatesWithin
<1> HIDE DEF raw, step, op
<1>4. PICK g : g \in [SUBSET (1 .. n) -> D] /\ Follows(g, n, D, base, op) BY <1>3, FollowerExists
<1>5. E(g) BY <1>2, <1>3, <1>4, BeforeLast DEF Follows
<1>6. \A s \in SUBSET (1 .. n) : c[s] = raw(c, s) BY <1>5
<1> HIDE DEF c
<1>7. Follows(c, n, D, base, op) BY <1>2, <1>3, <1>6, BeforeLast DEF Follows
<1>8. PICK h : IsRun(h, n, D, base, op) /\ h[n] = c[1 .. n] BY <1>3, <1>7, FollowsIsRun
<1>9. \A i \in 1 .. n : i - 1 \in 0 .. n OBVIOUS
<1>10. \A i \in 1 .. n : h[i] = step(h[i - 1], i) BY <1>3, <1>8, <1>9 DEF IsRun
<1> QED BY <1>1, <1>8, <1>10 DEF IsRun, step, SaturatingRun

RelaxesWithin(error, D, n, seq) == \A x \in D : \A i \in 1 .. n : RelaxArc(error, x, seq[i]) \in D
RelaxingRun(h, n, D, base, error, seq) ==
    /\ h \in [0 .. n -> D] /\ h[0] = base
    /\ \A i \in 1 .. n : h[i] = RelaxArc(error, h[i - 1], seq[i])

\* A pass of relaxation as a run over the arcs.
LEMMA RelaxedRuns ==
    ASSUME NEW error, NEW base, NEW D, base \in D, NEW n \in Nat, NEW seq,
           seq = ArcOrder(Cardinality(Edges(net))), DOMAIN seq = 1 .. n,
           RelaxesWithin(error, D, n, seq)
    PROVE  \E h : RelaxingRun(h, n, D, base, error, seq) /\ h[n] = Relaxed(error, base)
<1> DEFINE step(x, i) == RelaxArc(error, x, seq[i])
           op == [z \in D \X (1 .. n) |-> step(z[1], z[2])]
           raw(g, s) == IF s = {} THEN base ELSE
                          With(g[s \ {Seqs!Max(s)}], LAMBDA u : With(seq[Seqs!Max(s)],
                                                       LAMBDA b : RelaxArc(error, u, b)))
           E(g) == g = [s \in SUBSET (1 .. n) |-> raw(g, s)]
           c == CHOOSE g : E(g)
<1>1. Relaxed(error, base) = c[1 .. n] BY DEF Relaxed, Folded, Seqs!FoldLeft, Seqs!MapThenFoldSet
<1>2. \A g, s : raw(g, s) = IF s = {} THEN base ELSE step(g[s \ {Finite!Max(s)}], Finite!Max(s))
  BY SeqsMax DEF With
<1>3. IsStep(op, D, 1 .. n) /\ \A x \in D : \A i \in 1 .. n : op[<<x, i>>] = step(x, i)
  BY DEF IsStep, RelaxesWithin
<1> HIDE DEF raw, step, op
<1>4. PICK g : g \in [SUBSET (1 .. n) -> D] /\ Follows(g, n, D, base, op) BY <1>3, FollowerExists
<1>5. E(g) BY <1>2, <1>3, <1>4, BeforeLast DEF Follows
<1>6. \A s \in SUBSET (1 .. n) : c[s] = raw(c, s) BY <1>5
<1> HIDE DEF c
<1>7. Follows(c, n, D, base, op) BY <1>2, <1>3, <1>6, BeforeLast DEF Follows
<1>8. PICK h : IsRun(h, n, D, base, op) /\ h[n] = c[1 .. n] BY <1>3, <1>7, FollowsIsRun
<1>9. \A i \in 1 .. n : i - 1 \in 0 .. n OBVIOUS
<1>10. \A i \in 1 .. n : h[i] = step(h[i - 1], i) BY <1>3, <1>8, <1>9 DEF IsRun
<1> QED BY <1>1, <1>8, <1>10 DEF IsRun, step, RelaxingRun

PushesWithin(D, n, seq) == \A x \in D : \A i \in 1 .. n : PushArc(x, seq[i]) \in D

\* A push along a path as a run over its arcs.
LEMMA PushedRuns ==
    ASSUME NEW base, NEW D, base \in D, NEW n \in Nat, NEW seq,
           DOMAIN seq = 1 .. n,
           PushesWithin(D, n, seq)
    PROVE  Folded(PushArc, base, seq) \in D
<1> DEFINE step(x, i) == PushArc(x, seq[i])
           op == [z \in D \X (1 .. n) |-> step(z[1], z[2])]
           raw(g, s) == IF s = {} THEN base ELSE
                          With(g[s \ {Seqs!Max(s)}], LAMBDA u : With(seq[Seqs!Max(s)],
                                                       LAMBDA b : PushArc(u, b)))
           E(g) == g = [s \in SUBSET (1 .. n) |-> raw(g, s)]
           c == CHOOSE g : E(g)
<1>1. Folded(PushArc, base, seq) = c[1 .. n] BY DEF Folded, Seqs!FoldLeft, Seqs!MapThenFoldSet
<1>2. \A g, s : raw(g, s) = IF s = {} THEN base ELSE step(g[s \ {Finite!Max(s)}], Finite!Max(s))
  BY SeqsMax DEF With
<1>3. IsStep(op, D, 1 .. n) /\ \A x \in D : \A i \in 1 .. n : op[<<x, i>>] = step(x, i)
  BY DEF IsStep, PushesWithin
<1> HIDE DEF raw, step, op
<1>4. PICK g : g \in [SUBSET (1 .. n) -> D] /\ Follows(g, n, D, base, op) BY <1>3, FollowerExists
<1>5. E(g) BY <1>2, <1>3, <1>4, BeforeLast DEF Follows
<1>6. \A s \in SUBSET (1 .. n) : c[s] = raw(c, s) BY <1>5
<1> HIDE DEF c
<1>7. Follows(c, n, D, base, op) BY <1>2, <1>3, <1>6, BeforeLast DEF Follows
<1>8. PICK h : IsRun(h, n, D, base, op) /\ h[n] = c[1 .. n] BY <1>3, <1>7, FollowsIsRun
<1>9. h[n] \in D BY <1>8 DEF IsRun
<1> QED BY <1>1, <1>8, <1>9

\* The arcs in the order of their identities are the arcs.
LEMMA ArcOrderLists ==
    ASSUME NEW g \in Problems, NEW m, m = Cardinality(Edges(g)), NEW s, s = ArcOrder(m)
    PROVE  /\ m \in Nat /\ DOMAIN s = 1 .. (2 * m)
           /\ \A i \in 1 .. (2 * m) : s[i] \in Arcs(g)
           /\ \A a \in Arcs(g) : \E i \in 1 .. (2 * m) : s[i] = a
<1>1. m \in Nat /\ Edges(g) = 1 .. m BY ProblemsAssumption, FS_CardinalityType DEF IsNetwork
<1>2. s = [i \in 1 .. (2 * m) |-> <<(i + 1) \div 2, IF i % 2 = 1 THEN "forward" ELSE "reverse">>]
  BY DEF ArcOrder
<1>3. ASSUME NEW i \in 1 .. (2 * m) PROVE s[i] \in Arcs(g)
  <2>1. (i + 1) \div 2 \in 1 .. m BY <1>1
  <2> DEFINE e == (i + 1) \div 2
             d == IF i % 2 = 1 THEN "forward" ELSE "reverse"
  <2>2. s[i] = <<e, d>> /\ d \in {"forward", "reverse"} BY <1>2
  <2> HIDE DEF e, d
  <2>3. e \in Edges(g) BY <1>1, <2>1 DEF e
  <2>4. <<e, d>> \in Edges(g) \X {"forward", "reverse"} BY ONLY <2>2, <2>3
  <2> QED BY ONLY <2>2, <2>4 DEF Arcs
<1>4. ASSUME NEW a \in Arcs(g) PROVE \E i \in 1 .. (2 * m) : s[i] = a
  <2>1. a = <<a[1], a[2]>> /\ a[1] \in 1 .. m /\ a[2] \in {"forward", "reverse"} BY <1>1, ArcEnds
  <2>2. CASE a[2] = "forward"
    <3> DEFINE i == 2 * a[1] - 1
    <3>1. i \in 1 .. (2 * m) /\ i % 2 = 1 /\ (i + 1) \div 2 = a[1] BY <1>1, <2>1
    <3> HIDE DEF i
    <3>2. s[i] = a BY <1>2, <2>1, <2>2, <3>1
    <3> QED BY <3>1, <3>2
  <2>3. CASE a[2] = "reverse"
    <3> DEFINE i == 2 * a[1]
    <3>1. i \in 1 .. (2 * m) /\ i % 2 # 1 /\ (i + 1) \div 2 = a[1] BY <1>1, <2>1
    <3> HIDE DEF i
    <3>2. s[i] = a BY <1>2, <2>1, <2>3, <3>1
    <3> QED BY <3>1, <3>2
  <2> QED BY <2>1, <2>2, <2>3
<1> QED BY <1>1, <1>2, <1>3, <1>4

(***************************************************************************)
(* Saturation shuts every arc that counts.                                 *)
(***************************************************************************)

\* Flows and what is left at the nodes, taken together.
States(g) == {x \in [flow : [Edges(g) -> Int], excess : [g.nodes -> Int]] : Accounts(g, x.flow, x.excess)}

\* An arc that counts has no negative reduced cost or is full.
Shut(width, fl, skipped, a) ==
    a[1] \notin skipped /\ Residual(net, fl, a) >= width => ReducedCost(price, a) >= 0

\* Reduced costs, counted either way, are integers, and the arc back has the opposite one.
LEMMA ReducedOpposite ==
    ASSUME net \in Problems, price \in [net.nodes -> Int], NEW a \in Arcs(net)
    PROVE  /\ ReducedCost(price, a) \in Int
           /\ \A b \in Arcs(net) : b[1] = a[1] /\ b # a => ReducedCost(price, b) = -ReducedCost(price, a)
<1>1. CASE alg \in CostScalers BY <1>1, ScalersCost, SlackOpposite
<1>2. CASE alg \notin CostScalers
  <2>1. \A b \in Arcs(net) : /\ ArcCost(net, b) \in Int /\ price[From(b)] \in Int /\ price[To(b)] \in Int
                             /\ ReducedCost(price, b) = ArcCost(net, b) + price[From(b)] - price[To(b)]
    BY <1>2, ArcEnds DEF ReducedCost, From, To
  <2>2. ASSUME NEW b \in Arcs(net), b[1] = a[1], b # a PROVE ReducedCost(price, b) = -ReducedCost(price, a)
    <3>1. From(b) = To(a) /\ To(b) = From(a) /\ ArcCost(net, b) = -ArcCost(net, a)
      BY <2>2, ArcEnds, ProblemsAssumption, SMTT(30) DEF ArcFrom, ArcTo, ArcCost, From, To
    <3> QED BY <2>1, <3>1
  <2> QED BY <2>1, <2>2
<1> QED BY <1>1, <1>2

\* What filling one arc does.
ShutsOne(x, y, width, skipped, a) ==
    /\ y \in States(net)
    /\ \A b \in Arcs(net) :
           /\ b = a \/ Shut(width, x.flow, skipped, b) => Shut(width, y.flow, skipped, b)
           /\ b[1] \in skipped => Residual(net, y.flow, b) = Residual(net, x.flow, b)

\* Filling one arc.
LEMMA SaturateOne ==
    ASSUME net \in Problems, price \in [net.nodes -> Int],
           NEW width \in Nat \ {0}, NEW skipped, NEW x \in States(net), NEW a \in Arcs(net)
    PROVE  ShutsOne(x, SaturateArc(width, skipped, x, a), width, skipped, a)
<1> DEFINE all == Residual(net, x.flow, a)
           y == SaturateArc(width, skipped, x, a)
<1>1. /\ Accounts(net, x.flow, x.excess) /\ x.flow \in [Edges(net) -> Int]
      /\ x.excess \in [net.nodes -> Int]
  BY DEF States
<1>2. all \in Int /\ ReducedCost(price, a) \in Int BY <1>1, ResidualAfter, ReducedOpposite
<1> HIDE DEF all
<1>3. CASE a[1] \in skipped \/ all < width \/ ReducedCost(price, a) >= 0
  <2>1. y = x BY <1>2, <1>3 DEF SaturateArc, all
  <2> HIDE DEF y
  <2>2. Shut(width, x.flow, skipped, a) BY <1>2, <1>3 DEF Shut, all
  <2> QED BY <2>1, <2>2 DEF ShutsOne, y
<1>4. CASE ~(a[1] \in skipped \/ all < width \/ ReducedCost(price, a) >= 0)
  <2> DEFINE next == Augment(net, x.flow, <<a>>, all)
             moved == Moved(x.excess, ArcFrom(net, a), ArcTo(net, a), all)
  <2>1. y = [flow |-> next, excess |-> moved] BY <1>2, <1>4 DEF SaturateArc, all, From, To
  <2> HIDE DEF y
  <2>2. all \in Nat /\ all <= Residual(net, x.flow, a) BY <1>2, <1>4 DEF all
  <2>3. Accounts(net, next, moved) BY <1>1, <2>2, PushAccounts
  <2>4. y.flow = next /\ y.excess = moved BY <2>1
  <2>5. y \in States(net) BY <2>1, <2>3, <2>4 DEF Accounts, States
  <2>6. ASSUME NEW b \in Arcs(net)
        PROVE  /\ b = a \/ Shut(width, x.flow, skipped, b) => Shut(width, y.flow, skipped, b)
               /\ b[1] \in skipped => Residual(net, y.flow, b) = Residual(net, x.flow, b)
    <3>1. /\ Residual(net, x.flow, b) \in Int
          /\ Residual(net, next, b) = IF b[1] # a[1] THEN Residual(net, x.flow, b)
                                      ELSE IF b = a THEN Residual(net, x.flow, b) - all
                                      ELSE Residual(net, x.flow, b) + all
      BY <1>1, <1>2, ResidualAfter
    <3>2. b[1] = a[1] /\ b # a => ReducedCost(price, b) = -ReducedCost(price, a) BY ReducedOpposite
    <3> HIDE DEF next, moved
    <3>3. b = a => Residual(net, next, b) = 0 BY <3>1, <1>2 DEF all
    <3> QED BY <2>4, <3>1, <3>2, <3>3, <1>2, <1>4 DEF Shut
  <2> QED BY <2>5, <2>6 DEF ShutsOne, y
<1> QED BY <1>3, <1>4

\* Saturating leaves no arc that counts below zero, and edges that are skipped alone.
LEMMA SaturatedFills ==
    ASSUME net \in Problems, price \in [net.nodes -> Int],
           Accounts(net, flow, excess), NEW width \in Nat \ {0}, NEW skipped, NEW x, x = Saturated(width, skipped)
    PROVE  /\ x \in States(net)
           /\ \A a \in Arcs(net) :
                 /\ Shut(width, x.flow, skipped, a)
                 /\ a[1] \in skipped => Residual(net, x.flow, a) = Residual(net, flow, a)
<1> DEFINE m == Cardinality(Edges(net))
           n == 2 * m
           s == ArcOrder(m)
           base == [flow |-> flow, excess |-> excess]
<1>1. /\ n \in Nat /\ DOMAIN s = 1 .. n /\ \A i \in 1 .. n : s[i] \in Arcs(net)
      /\ \A a \in Arcs(net) : \E i \in 1 .. n : s[i] = a
  <2>1. m \in Nat BY ArcOrderLists
  <2> QED BY <2>1, ArcOrderLists
<1>2. base \in States(net) /\ base.flow = flow BY DEF Accounts, States
<1>3. \A z \in States(net) : \A a \in Arcs(net) :
          ShutsOne(z, SaturateArc(width, skipped, z, a), width, skipped, a)
  BY SaturateOne
<1>4. s = ArcOrder(Cardinality(Edges(net))) /\ base = [flow |-> flow, excess |-> excess] OBVIOUS
<1> HIDE DEF n, s, base, m
<1>5. PICK h : SaturatingRun(h, n, States(net), base, width, skipped, s) /\ h[n] = Saturated(width, skipped)
  <2>1. SaturatesWithin(width, skipped, States(net), n, s) BY <1>1, <1>3 DEF SaturatesWithin, ShutsOne
  <2> QED BY <1>1, <1>2, <1>4, <2>1, SaturatedRuns
<1> DEFINE good == {i \in 0 .. n : /\ \A j \in 1 .. i : Shut(width, h[i].flow, skipped, s[j])
                                   /\ \A a \in Arcs(net) : a[1] \in skipped =>
                                          Residual(net, h[i].flow, a) = Residual(net, flow, a)}
<1>6. 0 \in good BY <1>1, <1>2, <1>5 DEF SaturatingRun
<1>7. ASSUME NEW i \in 0 .. n, i > 0, i - 1 \in good PROVE i \in good
  <2>1. i \in 1 .. n /\ i - 1 \in 0 .. n BY <1>1, <1>7
  <2>2. h[i - 1] \in States(net) /\ h[i] = SaturateArc(width, skipped, h[i - 1], s[i]) /\ s[i] \in Arcs(net)
    BY <1>1, <1>5, <2>1 DEF SaturatingRun
  <2>3. \A b \in Arcs(net) :
            /\ b = s[i] \/ Shut(width, h[i - 1].flow, skipped, b) => Shut(width, h[i].flow, skipped, b)
            /\ b[1] \in skipped => Residual(net, h[i].flow, b) = Residual(net, h[i - 1].flow, b)
    BY <2>2, <1>3 DEF ShutsOne
  <2>4. \A j \in 1 .. i : Shut(width, h[i].flow, skipped, s[j])
    <3> SUFFICES ASSUME NEW j \in 1 .. i PROVE Shut(width, h[i].flow, skipped, s[j]) OBVIOUS
    <3>1. s[j] \in Arcs(net) BY <1>1, <2>1
    <3>2. j = i \/ j \in 1 .. (i - 1) BY <2>1
    <3>3. j \in 1 .. (i - 1) => Shut(width, h[i - 1].flow, skipped, s[j]) BY <1>7
    <3> HIDE DEF good
    <3> QED BY <2>3, <3>1, <3>2, <3>3
  <2>5. \A a \in Arcs(net) : a[1] \in skipped => Residual(net, h[i].flow, a) = Residual(net, flow, a)
    BY <2>3, <1>7
  <2> QED BY <2>4, <2>5
<1> HIDE DEF good
<1>8. n \in good BY <1>1, <1>6, <1>7, UpToInduction
<1>9. x = h[n] /\ x \in States(net) BY <1>1, <1>5 DEF SaturatingRun
<1> QED BY <1>1, <1>8, <1>9 DEF good

(***************************************************************************)
(* The repeated passes, the first error and the queue of active nodes.     *)
(***************************************************************************)

RepeatsWithin(error, D) == \A x \in D : Relaxed(error, x) \in D

\* Prices relaxed again and again stay what relaxing makes of them.
LEMMA RepeatedRelaxing ==
    ASSUME NEW error, NEW base, NEW D, base \in D, NEW n \in Nat, NEW seq,
           seq = [i \in 1 .. n |-> i],
           n = N - 1, base = [v \in net.nodes |-> 0],
           DOMAIN seq = 1 .. n, RepeatsWithin(error, D)
    PROVE  Adjusted(error) \in D
<1> DEFINE step(x, i) == Relaxed(error, x)
           op == [z \in D \X (1 .. n) |-> step(z[1], z[2])]
           raw(g, s) == IF s = {} THEN base ELSE
                          With(g[s \ {Seqs!Max(s)}], LAMBDA u : With(seq[Seqs!Max(s)],
                                                       LAMBDA b : Relaxed(error, u)))
           E(g) == g = [s \in SUBSET (1 .. n) |-> raw(g, s)]
           c == CHOOSE g : E(g)
<1>1. Adjusted(error) = c[1 .. n] BY DEF Adjusted, Repeat, Folded, Seqs!FoldLeft, Seqs!MapThenFoldSet
<1>2. \A g, s : raw(g, s) = IF s = {} THEN base ELSE step(g[s \ {Finite!Max(s)}], Finite!Max(s))
  BY SeqsMax DEF With
<1>3. IsStep(op, D, 1 .. n) /\ \A x \in D : \A i \in 1 .. n : op[<<x, i>>] = step(x, i)
  BY DEF IsStep, RepeatsWithin
<1> HIDE DEF raw, step, op
<1>4. PICK g : g \in [SUBSET (1 .. n) -> D] /\ Follows(g, n, D, base, op) BY <1>3, FollowerExists
<1>5. E(g) BY <1>2, <1>3, <1>4, BeforeLast DEF Follows
<1>6. \A s \in SUBSET (1 .. n) : c[s] = raw(c, s) BY <1>5
<1> HIDE DEF c
<1>7. Follows(c, n, D, base, op) BY <1>2, <1>3, <1>6, BeforeLast DEF Follows
<1>8. PICK h : IsRun(h, n, D, base, op) /\ h[n] = c[1 .. n] BY <1>3, <1>7, FollowsIsRun
<1>9. h[n] \in D BY <1>8 DEF IsRun
<1> QED BY <1>1, <1>8, <1>9

DoublesWithin(D) == \A x \in D : Doubled(x) \in D
DoublingRun(h, n, D, base) ==
    /\ h \in [0 .. n -> D] /\ h[0] = base
    /\ \A i \in 1 .. n : h[i] = Doubled(h[i - 1])

\* The first error as a run.
LEMMA DoubledError ==
    ASSUME NEW base, NEW D, base \in D, NEW n \in Nat, NEW seq,
           seq = [i \in 1 .. n |-> i],
           DOMAIN seq = 1 .. n, DoublesWithin(D)
    PROVE  \E h : DoublingRun(h, n, D, base) /\ h[n] = Repeat(Doubled, n, base)
<1> DEFINE step(x, i) == Doubled(x)
           op == [z \in D \X (1 .. n) |-> step(z[1], z[2])]
           raw(g, s) == IF s = {} THEN base ELSE
                          With(g[s \ {Seqs!Max(s)}], LAMBDA u : With(seq[Seqs!Max(s)],
                                                       LAMBDA b : Doubled(u)))
           E(g) == g = [s \in SUBSET (1 .. n) |-> raw(g, s)]
           c == CHOOSE g : E(g)
<1>1. Repeat(Doubled, n, base) = c[1 .. n] BY DEF Repeat, Folded, Seqs!FoldLeft, Seqs!MapThenFoldSet
<1>2. \A g, s : raw(g, s) = IF s = {} THEN base ELSE step(g[s \ {Finite!Max(s)}], Finite!Max(s))
  BY SeqsMax DEF With
<1>3. IsStep(op, D, 1 .. n) /\ \A x \in D : \A i \in 1 .. n : op[<<x, i>>] = step(x, i)
  BY DEF IsStep, DoublesWithin
<1> HIDE DEF raw, step, op
<1>4. PICK g : g \in [SUBSET (1 .. n) -> D] /\ Follows(g, n, D, base, op) BY <1>3, FollowerExists
<1>5. E(g) BY <1>2, <1>3, <1>4, BeforeLast DEF Follows
<1>6. \A s \in SUBSET (1 .. n) : c[s] = raw(c, s) BY <1>5
<1> HIDE DEF c
<1>7. Follows(c, n, D, base, op) BY <1>2, <1>3, <1>6, BeforeLast DEF Follows
<1>8. PICK h : IsRun(h, n, D, base, op) /\ h[n] = c[1 .. n] BY <1>3, <1>7, FollowsIsRun
<1>9. \A i \in 1 .. n : i - 1 \in 0 .. n OBVIOUS
<1>10. \A i \in 1 .. n : h[i] = step(h[i - 1], i) BY <1>3, <1>8, <1>9 DEF IsRun
<1> QED BY <1>1, <1>8, <1>10 DEF IsRun, step, DoublingRun

QueuesWithin(x, D, n, seq) ==
    \A q \in D : \A i \in 1 .. n : (IF x[seq[i]] > 0 THEN Append(q, seq[i]) ELSE q) \in D

\* The active nodes as a run.
LEMMA QueuedNodes ==
    ASSUME NEW x0, NEW base, NEW D, base \in D, NEW n \in Nat, NEW seq,
           DOMAIN seq = 1 .. n, QueuesWithin(x0, D, n, seq)
    PROVE  Folded(LAMBDA queue, v : IF x0[v] > 0 THEN Append(queue, v) ELSE queue, base, seq) \in D
<1> DEFINE step(x, i) == IF x0[seq[i]] > 0 THEN Append(x, seq[i]) ELSE x
           op == [z \in D \X (1 .. n) |-> step(z[1], z[2])]
           raw(g, s) == IF s = {} THEN base ELSE
                          With(g[s \ {Seqs!Max(s)}], LAMBDA u : With(seq[Seqs!Max(s)],
                                                       LAMBDA b : IF x0[b] > 0 THEN Append(u, b) ELSE u))
           E(g) == g = [s \in SUBSET (1 .. n) |-> raw(g, s)]
           c == CHOOSE g : E(g)
<1>1. Folded(LAMBDA queue, v : IF x0[v] > 0 THEN Append(queue, v) ELSE queue, base, seq) = c[1 .. n]
  BY DEF Folded, Seqs!FoldLeft, Seqs!MapThenFoldSet
<1>2. \A g, s : raw(g, s) = IF s = {} THEN base ELSE step(g[s \ {Finite!Max(s)}], Finite!Max(s))
  BY SeqsMax DEF With
<1>3. IsStep(op, D, 1 .. n) /\ \A x \in D : \A i \in 1 .. n : op[<<x, i>>] = step(x, i)
  BY DEF IsStep, QueuesWithin
<1> HIDE DEF raw, step, op
<1>4. PICK g : g \in [SUBSET (1 .. n) -> D] /\ Follows(g, n, D, base, op) BY <1>3, FollowerExists
<1>5. E(g) BY <1>2, <1>3, <1>4, BeforeLast DEF Follows
<1>6. \A s \in SUBSET (1 .. n) : c[s] = raw(c, s) BY <1>5
<1> HIDE DEF c
<1>7. Follows(c, n, D, base, op) BY <1>2, <1>3, <1>6, BeforeLast DEF Follows
<1>8. PICK h : IsRun(h, n, D, base, op) /\ h[n] = c[1 .. n] BY <1>3, <1>7, FollowsIsRun
<1>9. h[n] \in D BY <1>8 DEF IsRun
<1> QED BY <1>1, <1>8, <1>9

\* The arcs of a problem are finitely many.
LEMMA FiniteArcs == ASSUME NEW g \in Problems PROVE IsFiniteSet(Arcs(g))
<1>1. {"forward", "reverse"} = {"forward"} \cup {"reverse"} /\ IsFiniteSet({"forward"}) BY FS_Singleton
<1>2. IsFiniteSet({"forward"} \cup {"reverse"}) BY <1>1, FS_AddElement
<1>3. IsFiniteSet(Edges(g)) /\ IsFiniteSet({"forward", "reverse"})
  BY <1>1, <1>2, ProblemsAssumption DEF IsNetwork
<1> QED BY <1>3, FS_Product DEF Arcs

\* The active nodes are a queue of nodes.
LEMMA ActiveIsQueue ==
    ASSUME net \in Problems, NEW x
    PROVE  Active(x) \in Seq(net.nodes)
<1> DEFINE s == [i \in 1 .. N |-> i]
           D == Seq(net.nodes)
<1>1. N \in Nat /\ net.nodes = 1 .. N BY ProblemsAssumption, FS_CardinalityType DEF IsNetwork, N
<1>2. <<>> \in D /\ DOMAIN s = 1 .. N OBVIOUS
<1>3. QueuesWithin(x, D, N, s)
  <2>1. ASSUME NEW q \in D, NEW i \in 1 .. N
        PROVE  (IF x[s[i]] > 0 THEN Append(q, s[i]) ELSE q) \in D
    <3>1. s[i] = i /\ i \in net.nodes BY <1>1
    <3> HIDE DEF s
    <3>2. Append(q, s[i]) \in D BY <3>1
    <3> HIDE DEF D
    <3> QED BY <3>2
  <2> HIDE DEF s, D
  <2> QED BY <2>1 DEF QueuesWithin
<1>4. Active(x) = Folded(LAMBDA queue, v : IF x[v] > 0 THEN Append(queue, v) ELSE queue, <<>>, s)
  BY DEF Active
<1> HIDE DEF s, D
<1>5. Folded(LAMBDA queue, v : IF x[v] > 0 THEN Append(queue, v) ELSE queue, <<>>, s) \in D
  BY <1>1, <1>2, <1>3, QueuedNodes
<1> QED BY <1>4, <1>5 DEF D

\* The first error is a positive number that no cost exceeds.
LEMMA FirstError ==
    ASSUME net \in Problems
    PROVE  /\ InitialError \in Nat \ {0}
           /\ \A a \in Arcs(net) : ArcCost(net, a) * (N + 1) \in Int
                                    /\ ArcCost(net, a) * (N + 1) <= InitialError
<1> DEFINE c == [a \in Arcs(net) |-> ArcCost(net, a) * (N + 1)]
           costs == {0} \cup {c[a] : a \in Arcs(net)}
           n == MostCost
           D == Nat \ {0}
<1>1. \A a \in Arcs(net) : c[a] = ArcCost(net, a) * (N + 1) /\ c[a] \in Int BY ArcEnds, Product DEF N
<1>2. IsFiniteSet(Arcs(net)) BY FiniteArcs
<1>3. {0} \cup {ArcCost(net, a) * (N + 1) : a \in Arcs(net)} = costs BY <1>1
<1>4. IsFiniteSet(costs) /\ costs # {} /\ costs \subseteq Int
  <2>1. IsFiniteSet({c[a] : a \in Arcs(net)}) BY <1>2, FiniteImage
  <2> QED BY <1>1, <2>1, FS_AddElement
<1>5. n = Finite!Max(costs) BY <1>3 DEF MostCost
<1> HIDE DEF costs
<1>6. n \in costs /\ \A y \in costs : n >= y BY <1>4, <1>5, MaxIsGreatest
<1>7. n \in Nat /\ \A a \in Arcs(net) : c[a] <= n BY <1>1, <1>4, <1>6 DEF costs
<1> HIDE DEF n, c
<1>8. DoublesWithin(D) BY <1>7 DEF DoublesWithin, Doubled, n
<1>9. PICK h : DoublingRun(h, n, D, 1) /\ h[n] = InitialError
  <2>1. 1 \in D OBVIOUS
  <2>2. InitialError = Repeat(Doubled, n, 1) BY DEF InitialError, n
  <2> DEFINE s == [i \in 1 .. n |-> i]
  <2>3. s = [i \in 1 .. n |-> i] /\ DOMAIN s = 1 .. n OBVIOUS
  <2> HIDE DEF D, s
  <2> QED BY <1>7, <1>8, <2>1, <2>2, <2>3, DoubledError
<1> DEFINE good == {i \in 0 .. n : h[i] >= n \/ h[i] >= i + 1}
<1>10. 0 \in good BY <1>7, <1>9 DEF DoublingRun
<1>11. ASSUME NEW i \in 0 .. n, i > 0, i - 1 \in good PROVE i \in good
  <2>1. i \in 1 .. n /\ i - 1 \in 0 .. n BY <1>7, <1>11
  <2>2. h[i - 1] \in D /\ h[i] = IF h[i - 1] < n THEN 2 * h[i - 1] ELSE h[i - 1]
    BY <1>9, <2>1 DEF DoublingRun, Doubled, n
  <2>3. h[i - 1] >= n \/ h[i - 1] >= i BY <1>11
  <2> QED BY <1>7, <2>1, <2>2, <2>3
<1>12. n \in good
  <2> HIDE DEF good
  <2>1. 0 .. n \subseteq good BY <1>7, <1>10, <1>11, UpToInduction
  <2> QED BY <1>7, <2>1
<1>13. InitialError \in D /\ InitialError >= n BY <1>7, <1>9, <1>12 DEF DoublingRun
<1> QED BY <1>1, <1>7, <1>13

(***************************************************************************)
(* Relaxation towards prices that need no flow to move.                    *)
(***************************************************************************)

\* What relaxing one arc does to prices, and an arc that asks for no change.
Lowers(x, y) == \A v \in net.nodes : y[v] <= x[v]
Settled(error, x, a) == R(a) > 0 => x[From(a)] <= x[To(a)] + ReducedCost(price, a) + error
RelaxesOne(error, x, y, a) ==
    /\ y \in [net.nodes -> Int] /\ Lowers(x, y)
    /\ y = x => Settled(error, x, a)

\* Relaxing one arc.
LEMMA RelaxOne ==
    ASSUME net \in Problems, alg \in CostScalers, price \in [net.nodes -> Int],
           NEW error \in Int, NEW x \in [net.nodes -> Int], NEW a \in Arcs(net)
    PROVE  RelaxesOne(error, x, RelaxArc(error, x, a), a)
<1> DEFINE d == x[To(a)] + ReducedCost(price, a) + error
           y == RelaxArc(error, x, a)
<1>1. From(a) \in net.nodes /\ To(a) \in net.nodes BY ArcEnds DEF From, To
<1>2. ReducedCost(price, a) \in Int BY ScalersCost, SlackOpposite
<1>3. d \in Int BY <1>1, <1>2
<1>4. y = IF R(a) > 0 /\ d < x[From(a)] THEN [x EXCEPT ![From(a)] = d] ELSE x BY DEF RelaxArc
<1>5. Settled(error, x, a) <=> (R(a) > 0 => x[From(a)] <= d) BY DEF Settled
<1> HIDE DEF d, y
<1>6. CASE R(a) > 0 /\ d < x[From(a)] BY <1>1, <1>3, <1>4, <1>6 DEF RelaxesOne, Lowers, y
<1>7. CASE ~(R(a) > 0 /\ d < x[From(a)]) BY <1>1, <1>3, <1>4, <1>5, <1>7 DEF Lowers, RelaxesOne, y
<1> QED BY <1>6, <1>7

\* Relaxing every arc lowers prices, and changes none only if none asks for it.
LEMMA RelaxAll ==
    ASSUME net \in Problems, alg \in CostScalers, price \in [net.nodes -> Int],
           NEW error \in Int, NEW x \in [net.nodes -> Int]
    PROVE  /\ Relaxed(error, x) \in [net.nodes -> Int]
           /\ Relaxed(error, x) = x => \A a \in Arcs(net) : Settled(error, x, a)
<1> DEFINE m == Cardinality(Edges(net))
           n == 2 * m
           s == ArcOrder(m)
           D == [net.nodes -> Int]
<1>1. /\ n \in Nat /\ DOMAIN s = 1 .. n /\ \A i \in 1 .. n : s[i] \in Arcs(net)
      /\ \A a \in Arcs(net) : \E i \in 1 .. n : s[i] = a
  BY ArcOrderLists
<1>2. s = ArcOrder(Cardinality(Edges(net))) OBVIOUS
<1> HIDE DEF n, s, m
<1>3. \A z \in D : \A a \in Arcs(net) : RelaxesOne(error, z, RelaxArc(error, z, a), a) BY RelaxOne
<1>4. RelaxesWithin(error, D, n, s) BY <1>1, <1>3 DEF RelaxesWithin, RelaxesOne
<1>5. PICK h : RelaxingRun(h, n, D, x, error, s) /\ h[n] = Relaxed(error, x)
  <2> HIDE DEF D
  <2>1. x \in D BY DEF D
  <2> QED BY <1>1, <1>2, <1>4, <2>1, RelaxedRuns, SMTT(30)
<1>6. h[0] = x /\ \A i \in 0 .. n : h[i] \in D BY <1>5 DEF RelaxingRun
<1>7. ASSUME NEW i \in 1 .. n
      PROVE  /\ i - 1 \in 0 .. n /\ h[i - 1] \in D
             /\ RelaxesOne(error, h[i - 1], h[i], s[i])
  <2>1. i - 1 \in 0 .. n /\ h[i - 1] \in D BY <1>1, <1>6
  <2>2. h[i] = RelaxArc(error, h[i - 1], s[i]) /\ s[i] \in Arcs(net) BY <1>1, <1>5 DEF RelaxingRun
  <2> QED BY <1>3, <2>1, <2>2
<1> DEFINE good == {i \in 0 .. n : \A j \in 0 .. i : Lowers(h[j], h[i])}
<1>8. 0 \in good BY <1>1, <1>6 DEF Lowers
<1>9. ASSUME NEW i \in 0 .. n, i > 0, i - 1 \in good PROVE i \in good
  <2>1. i \in 1 .. n BY <1>1, <1>9
  <2>2. Lowers(h[i - 1], h[i]) /\ h[i - 1] \in D /\ h[i] \in D BY <1>6, <1>7, <2>1 DEF RelaxesOne
  <2>3. \A j \in 0 .. i : Lowers(h[j], h[i])
    <3> TAKE j \in 0 .. i
    <3>1. j = i \/ j \in 0 .. (i - 1) BY <2>1
    <3>2. j \in 0 .. n /\ h[j] \in D BY <1>1, <1>6, <2>1
    <3>3. j \in 0 .. (i - 1) => Lowers(h[j], h[i - 1]) BY <1>9
    <3>4. CASE j = i BY <2>2, <3>4 DEF Lowers
    <3>5. CASE j \in 0 .. (i - 1) BY <2>2, <3>2, <3>3, <3>5 DEF Lowers
    <3> QED BY <3>1, <3>4, <3>5
  <2> QED BY <2>3
<1>10. \A i \in 0 .. n : i \in good BY <1>1, <1>8, <1>9, UpToInduction
<1>11. ASSUME h[n] = x PROVE \A a \in Arcs(net) : Settled(error, x, a)
  <2>1. ASSUME NEW i \in 0 .. n PROVE h[i] = x
    <3>1. 0 \in 0 .. i /\ i \in 0 .. n /\ n \in 0 .. n /\ i \in 0 .. n BY <1>1
    <3>2. Lowers(h[0], h[i]) /\ Lowers(h[i], h[n]) BY <1>10, <3>1
    <3>3. h[i] \in D BY <1>6
    <3> HIDE DEF good
    <3>4. \A v \in net.nodes : h[i][v] <= x[v] /\ x[v] <= h[i][v] /\ h[i][v] \in Int /\ x[v] \in Int
      BY <1>6, <1>11, <3>2, <3>3 DEF Lowers
    <3>5. \A v \in net.nodes : h[i][v] = x[v] BY <3>4
    <3> QED BY <3>3, <3>5
  <2> TAKE a \in Arcs(net)
  <2>2. PICK i \in 1 .. n : s[i] = a BY <1>1
  <2>3. h[i] = x /\ h[i - 1] = x BY <1>7, <2>1
  <2>4. RelaxesOne(error, x, x, a) BY <1>7, <2>2, <2>3
  <2> QED BY <2>4 DEF RelaxesOne
<1>12. h[n] \in D BY <1>1, <1>6
<1> QED BY <1>5, <1>11, <1>12

\* The adjustment is one integer per node.
LEMMA AdjustedType ==
    ASSUME net \in Problems, alg \in CostScalers, price \in [net.nodes -> Int], NEW error \in Int
    PROVE  Adjusted(error) \in [net.nodes -> Int]
<1> DEFINE D == [net.nodes -> Int]
           base == [v \in net.nodes |-> 0]
           n == N - 1
           s == [i \in 1 .. n |-> i]
<1>1. n \in Nat BY ProblemsAssumption, FS_CardinalityType DEF IsNetwork, N
<1>2. base \in D /\ s = [i \in 1 .. n |-> i] /\ DOMAIN s = 1 .. n /\ error \in Int OBVIOUS
<1>3. RepeatsWithin(error, D) BY <1>2, RelaxAll DEF RepeatsWithin
<1>4. base = [v \in net.nodes |-> 0] /\ n = N - 1 OBVIOUS
<1> HIDE DEF base, s, n, D
<1>5. Adjusted(error) \in D BY <1>1, <1>2, <1>3, <1>4, RepeatedRelaxing
<1> QED BY <1>5 DEF D

\* Prices that settle under relaxation are adjustments after which the flow is optimal
\* up to the error.
LEMMA SettledPrices ==
    ASSUME net \in Problems, alg \in CostScalers, price \in [net.nodes -> Int],
           flow \in [Edges(net) -> Int], NEW error \in Nat \ {0},
           NEW x \in [net.nodes -> Int],
           Relaxed(error, x) = x, NEW p, p = [v \in net.nodes |-> price[v] + x[v]]
    PROVE  p \in [net.nodes -> Int] /\ NearOptimal(net, flow, p, {}, error)
<1>7. \A a \in Arcs(net) : Settled(error, x, a) BY RelaxAll
<1>8. p \in [net.nodes -> Int] /\ \A v \in net.nodes : p[v] = price[v] + x[v] OBVIOUS
<1>9. ASSUME NEW a \in Arcs(net), Residual(net, flow, a) > 0 PROVE Slack(net, p, a) >= -error
  <2> DEFINE c == ArcCost(net, a) * (Cardinality(net.nodes) + 1)
             u == ArcFrom(net, a)
             w == ArcTo(net, a)
  <2>1. u \in net.nodes /\ w \in net.nodes BY ArcEnds
  <2>2. c \in Int BY <1>8, SlackOpposite
  <2>3. Slack(net, p, a) = c - p[u] + p[w] /\ ReducedCost(price, a) = c - price[u] + price[w]
    BY ScalersCost DEF Slack
  <2>4. x[u] <= x[w] + ReducedCost(price, a) + error BY <1>7, <1>9 DEF Settled, R, From, To
  <2> HIDE DEF c, u, w
  <2>5. /\ p[u] = price[u] + x[u] /\ p[w] = price[w] + x[w]
        /\ price[u] \in Int /\ price[w] \in Int /\ x[u] \in Int /\ x[w] \in Int
    BY <1>8, <2>1
  <2> QED BY <2>2, <2>3, <2>4, <2>5
<1> QED BY <1>8, <1>9 DEF NearOptimal

(***************************************************************************)
(* What a refinement keeps.                                                *)
(***************************************************************************)

\* What a refinement keeps: a node's cursor passes only arcs that do not fall, falling
\* arcs descend in some rank of the nodes, and a path in work is a walk along them.
Passed(g, fl, p, kk) == \A v \in g.nodes :
    /\ kk.cursor[v] \in 0 .. Len(g.outgoing[v])
    /\ \A i \in 1 .. kk.cursor[v] : ~Falls(g, fl, p, kk.fixed, g.outgoing[v][i])
Descends(g, fl, p, fixed, rank) ==
    /\ rank \in [g.nodes -> Int]
    /\ \A a \in Arcs(g) : Falls(g, fl, p, fixed, a) => rank[ArcFrom(g, a)] > rank[ArcTo(g, a)]
WalksDown(g, fl, p, fixed, path, rank) == \A i \in 1 .. Len(path) :
    /\ Falls(g, fl, p, fixed, path[i])
    /\ i < Len(path) => ArcTo(g, path[i]) = ArcFrom(g, path[i + 1])
    /\ \A j \in 1 .. Len(path) : i < j => rank[ArcFrom(g, path[i])] > rank[ArcFrom(g, path[j])]

\* Flow that changes without making an arc usable that could fall.
NoNewFalls(g, p, fl, next) == \A b \in Arcs(g) :
    Residual(g, next, b) > 0 => Residual(g, fl, b) > 0 \/ Slack(g, p, b) > 0

\* Flow along an arc of negative cost opens only the arc back, which could not fall.
LEMMA PushOpensNothing ==
    ASSUME NEW g \in Problems, NEW fl \in [Edges(g) -> Int], NEW p \in [g.nodes -> Int],
           NEW a \in Arcs(g), Slack(g, p, a) < 0, NEW amount \in Nat
    PROVE  NoNewFalls(g, p, fl, Augment(g, fl, <<a>>, amount))
<1> DEFINE next == Augment(g, fl, <<a>>, amount)
<1> SUFFICES ASSUME NEW b \in Arcs(g), Residual(g, next, b) > 0
             PROVE  Residual(g, fl, b) > 0 \/ Slack(g, p, b) > 0
  BY DEF NoNewFalls
<1>1. /\ Residual(g, fl, b) \in Int
      /\ Residual(g, next, b) = IF b[1] # a[1] THEN Residual(g, fl, b)
                                ELSE IF b = a THEN Residual(g, fl, b) - amount
                                ELSE Residual(g, fl, b) + amount
  BY ResidualAfter
<1>2. b[1] = a[1] /\ b # a => Slack(g, p, b) = -Slack(g, p, a) BY SlackOpposite
<1>3. Slack(g, p, a) \in Int BY SlackOpposite
<1> HIDE DEF next
<1> QED BY <1>1, <1>2, <1>3

\* Where nothing that could fall opens, no arc begins to fall and the error stays.
LEMMA OpensNothing ==
    ASSUME NEW g \in Problems, NEW p \in [g.nodes -> Int], NEW fl, NEW next, NoNewFalls(g, p, fl, next)
    PROVE  /\ \A fixed : \A b \in Arcs(g) : Falls(g, next, p, fixed, b) => Falls(g, fl, p, fixed, b)
           /\ \A fixed : \A error \in Nat :
                  NearOptimal(g, fl, p, fixed, error) => NearOptimal(g, next, p, fixed, error)
<1>1. \A b \in Arcs(g) : Slack(g, p, b) \in Int BY SlackOpposite
<1> QED BY <1>1 DEF NoNewFalls, Falls, NearOptimal

\* What the arcs of a node that its cursor leaves to try hold.
FoundArc(v, found) ==
    /\ found \in 0 .. Len(net.outgoing[v])
    /\ \A i \in 1 .. (found - 1) : ~Falls(net, flow, price, k.fixed, net.outgoing[v][i])
    /\ found # 0 => \E a \in Arcs(net) : /\ a = net.outgoing[v][found] /\ ArcFrom(net, a) = v
                                        /\ Falls(net, flow, price, k.fixed, a)
    /\ found = 0 => \A a \in Arcs(net) : ArcFrom(net, a) = v => ~Falls(net, flow, price, k.fixed, a)

\* The falling arcs of the model.
LEMMA FallingIs ==
    ASSUME alg \in CostScalers, NEW a \in Arcs(net)
    PROVE  Falling(a) <=> Falls(net, flow, price, k.fixed, a)
BY ScalersCost DEF Falling, Loose, Falls

\* The current arc is the first falling one, and the cursor has passed the others.
LEMMA CurrentArcIs ==
    ASSUME net \in Problems, alg \in CostScalers, Passed(net, flow, price, k), NEW v \in net.nodes
    PROVE  FoundArc(v, CurrentArc(v))
<1> DEFINE s == net.outgoing[v]
           c == k.cursor[v]
           I == {i \in c + 1 .. Len(s) : Falling(s[i])}
           found == CurrentArc(v)
<1>1. /\ s \in Seq(Arcs(net)) /\ Len(s) \in Nat
      /\ {s[i] : i \in DOMAIN s} = {a \in Arcs(net) : ArcFrom(net, a) = v}
  BY ProblemsAssumption DEF IsNetwork
<1>2. c \in 0 .. Len(s) /\ \A i \in 1 .. c : ~Falls(net, flow, price, k.fixed, s[i]) BY DEF Passed
<1>3. found = IF I # {} THEN Seqs!Min(I) ELSE 0 BY DEF CurrentArc, Seqs!SelectInSubSeq
<1>4. DOMAIN s = 1 .. Len(s) BY <1>1
<1> HIDE DEF s, c
<1>5. \A i \in 1 .. Len(s) : s[i] \in Arcs(net) /\ ArcFrom(net, s[i]) = v BY <1>1, <1>4
<1>6. \A i \in 1 .. Len(s) : Falling(s[i]) <=> Falls(net, flow, price, k.fixed, s[i]) BY <1>5, FallingIs
<1>7. CASE I = {}
  <2>1. found = 0 BY <1>3, <1>7
  <2>2. \A i \in 1 .. Len(s) : ~Falls(net, flow, price, k.fixed, s[i]) BY <1>1, <1>2, <1>6, <1>7
  <2>3. \A a \in Arcs(net) : ArcFrom(net, a) = v => ~Falls(net, flow, price, k.fixed, a) BY <1>1, <1>4, <2>2
  <2> HIDE DEF found
  <2> QED BY <1>1, <2>1, <2>3 DEF FoundArc, s, found
<1>8. CASE I # {}
  <2>1. I \subseteq 1 .. Len(s) /\ I \subseteq Int BY <1>1, <1>2
  <2>2. IsFiniteSet(I)
    <3>1. IsFiniteSet(1 .. Len(s)) BY <1>1, FS_Interval
    <3> HIDE DEF I
    <3> QED BY <2>1, <3>1, FS_Subset
  <2>3. found = Finite!Min(I) BY <1>3, <1>8 DEF Seqs!Min, Finite!Min
  <2> HIDE DEF found
  <2>4. found \in I /\ \A i \in I : found <= i BY <1>8, <2>1, <2>2, <2>3, MinIsLeast
  <2>5. \A i \in 1 .. (found - 1) : ~Falls(net, flow, price, k.fixed, s[i]) BY <1>1, <1>2, <1>6, <2>4
  <2>6. found \in 1 .. Len(s) /\ Falls(net, flow, price, k.fixed, s[found]) BY <1>6, <2>1, <2>4
  <2> QED BY <1>1, <1>5, <2>5, <2>6 DEF FoundArc, s, found
<1> QED BY <1>7, <1>8

\* What raising the price of a node does that no falling arc leaves: it may open arcs
\* that leave it, and shuts every arc that enters it.
Raises(v, p) ==
    /\ p \in [net.nodes -> Int]
    /\ NearOptimal(net, flow, p, k.fixed, k.scale)
    /\ \A a \in Arcs(net) : Falls(net, flow, p, k.fixed, a) =>
           /\ ArcTo(net, a) # v
           /\ ArcFrom(net, a) = v \/ Falls(net, flow, price, k.fixed, a)
    /\ \A a \in Arcs(net) : ArcFrom(net, a) # v /\ ArcTo(net, a) # v =>
           Slack(net, p, a) = Slack(net, price, a)

\* A node is raised by the scale at least, and to no more than its arcs allow.
LEMMA OffersBound ==
    ASSUME net \in Problems, price \in [net.nodes -> Int], k.scale \in Nat \ {0}, NEW v \in net.nodes,
           \A a \in Arcs(net) : ArcFrom(net, a) = v => ~Falls(net, flow, price, k.fixed, a)
    PROVE  /\ Raised(v) \in Int /\ Raised(v) >= price[v] + k.scale
           /\ \A a \in Loose(flow, k.fixed) : ArcFrom(net, a) = v =>
                  Raised(v) <= price[ArcTo(net, a)] + ArcCost(net, a) * (N + 1) + k.scale
<1> DEFINE S == {b \in Loose(flow, k.fixed) : From(b) = v}
           f == [a \in Arcs(net) |-> price[To(a)] + ArcCost(net, a) * (N + 1) + k.scale]
           T == {f[a] : a \in S}
<1>1. S \subseteq Arcs(net) /\ \A a \in S : ArcFrom(net, a) = v /\ Residual(net, flow, a) > 0 /\ a[1] \notin k.fixed
  BY DEF Loose, From
<1>2. Offers(v) = T BY <1>1 DEF Offers
<1>3. \A a \in Arcs(net) : /\ ArcTo(net, a) \in net.nodes
                           /\ ArcCost(net, a) * (N + 1) \in Int
                           /\ f[a] = price[ArcTo(net, a)] + ArcCost(net, a) * (N + 1) + k.scale
                           /\ Slack(net, price, a) = ArcCost(net, a) * (N + 1) - price[ArcFrom(net, a)] + price[ArcTo(net, a)]
  BY ArcEnds, Product DEF To, N, Slack
<1>4. IsFiniteSet(T)
  <2>1. IsFiniteSet(S) BY <1>1, FiniteArcs, FS_Subset
  <2> HIDE DEF S, f
  <2> QED BY <2>1, FiniteImage
<1>5. \A a \in S : a \in Arcs(net) /\ f[a] \in Int /\ f[a] >= price[v] + k.scale
  <2> SUFFICES ASSUME NEW a \in S PROVE a \in Arcs(net) /\ f[a] \in Int /\ f[a] >= price[v] + k.scale OBVIOUS
  <2>1. a \in Arcs(net) /\ ArcFrom(net, a) = v /\ ~Falls(net, flow, price, k.fixed, a) BY <1>1
  <2>2. ~(Slack(net, price, a) < 0) BY <1>1, <2>1 DEF Falls
  <2> DEFINE c == ArcCost(net, a) * (N + 1)
             w == price[ArcTo(net, a)]
  <2>3. c \in Int /\ w \in Int /\ f[a] = w + c + k.scale /\ Slack(net, price, a) = c - price[v] + w
    BY <1>3, <2>1
  <2> HIDE DEF c, w, f
  <2> QED BY <2>1, <2>2, <2>3
<1>6. Raised(v) = IF T = {} THEN price[v] + k.scale ELSE Finite!Min(T) BY <1>2 DEF Raised
<1>7. \A a \in Loose(flow, k.fixed) : ArcFrom(net, a) = v => a \in S BY DEF Loose, From
<1> HIDE DEF S, f
<1>8. T \subseteq Int /\ \A y \in T : y >= price[v] + k.scale BY <1>5
<1>9. \A a \in S : f[a] \in T OBVIOUS
<1> HIDE DEF T
<1>10. T # {} => Finite!Min(T) \in T /\ \A y \in T : Finite!Min(T) <= y BY <1>4, <1>8, MinIsLeast
<1>11. Raised(v) \in Int /\ Raised(v) >= price[v] + k.scale /\ \A y \in T : Raised(v) <= y
  <2> DEFINE low == price[v] + k.scale
  <2>1. low \in Int /\ low >= price[v] + k.scale OBVIOUS
  <2> HIDE DEF low
  <2>2. CASE T = {} BY <1>6, <2>1, <2>2 DEF low
  <2>3. CASE T # {} BY <1>6, <1>8, <1>10, <2>3
  <2> QED BY <2>2, <2>3
<1>12. ASSUME NEW a \in Loose(flow, k.fixed), ArcFrom(net, a) = v
       PROVE  Raised(v) <= price[ArcTo(net, a)] + ArcCost(net, a) * (N + 1) + k.scale
  BY <1>3, <1>5, <1>7, <1>9, <1>11, <1>12
<1> QED BY <1>11, <1>12

\* Relabelling a node without a falling arc raises its price and keeps the error.
LEMMA RelabelRaises ==
    ASSUME net \in Problems, price \in [net.nodes -> Int], k.scale \in Nat \ {0}, NEW v \in net.nodes,
           \A a \in Arcs(net) : ArcFrom(net, a) = v => ~Falls(net, flow, price, k.fixed, a),
           NearOptimal(net, flow, price, k.fixed, k.scale),
           NEW p, p = [price EXCEPT ![v] = Raised(v)]
    PROVE  Raises(v, p)
<1> DEFINE r == Raised(v)
           d == r - price[v]
<1>1. r \in Int /\ d \in Int /\ d >= k.scale /\ k.scale \in Nat \ {0} BY OffersBound
<1>2. /\ p \in [net.nodes -> Int] /\ p[v] = price[v] + d
      /\ \A u \in net.nodes : u # v => p[u] = price[u]
  BY <1>1
<1>3. ASSUME NEW a \in Arcs(net)
      PROVE  /\ Slack(net, price, a) \in Int /\ Slack(net, p, a) \in Int
             /\ Slack(net, p, a) = Slack(net, price, a) - (IF ArcFrom(net, a) = v THEN d ELSE 0)
                                                        + (IF ArcTo(net, a) = v THEN d ELSE 0)
  <2> DEFINE c == ArcCost(net, a) * (Cardinality(net.nodes) + 1)
             u == ArcFrom(net, a)
             w == ArcTo(net, a)
  <2>1. c \in Int /\ u \in net.nodes /\ w \in net.nodes BY SlackOpposite, ArcEnds
  <2>2. Slack(net, p, a) = c - p[u] + p[w] /\ Slack(net, price, a) = c - price[u] + price[w] BY DEF Slack
  <2> HIDE DEF c, u, w, d
  <2>3. /\ price[u] \in Int /\ price[w] \in Int
        /\ p[u] = price[u] + (IF u = v THEN d ELSE 0) /\ p[w] = price[w] + (IF w = v THEN d ELSE 0)
    BY <1>1, <1>2, <2>1
  <2>4. Slack(net, p, a) = Slack(net, price, a) - (IF u = v THEN d ELSE 0) + (IF w = v THEN d ELSE 0)
        /\ Slack(net, price, a) \in Int
    BY <1>1, <2>1, <2>2, <2>3
  <2> QED BY <1>2, <2>4, SlackOpposite DEF u, w
<1>4. ASSUME NEW a \in Arcs(net), Residual(net, flow, a) > 0, a[1] \notin k.fixed
      PROVE  /\ Slack(net, price, a) >= -k.scale
             /\ ArcFrom(net, a) = v => Slack(net, price, a) >= 0
             /\ ArcFrom(net, a) = v /\ ArcTo(net, a) # v => Slack(net, p, a) >= -k.scale
  <2>1. Slack(net, price, a) >= -k.scale BY <1>4 DEF NearOptimal
  <2>2. ArcFrom(net, a) = v => Slack(net, price, a) >= 0 BY <1>3, <1>4 DEF Falls
  <2>3. ASSUME ArcFrom(net, a) = v, ArcTo(net, a) # v PROVE Slack(net, p, a) >= -k.scale
    <3> DEFINE c == ArcCost(net, a) * (Cardinality(net.nodes) + 1)
               w == ArcTo(net, a)
    <3>1. c \in Int /\ w \in net.nodes BY SlackOpposite, ArcEnds
    <3>2. a \in Loose(flow, k.fixed) BY <1>4 DEF Loose
    <3>3. r <= price[w] + c + k.scale BY <2>3, <3>2, OffersBound DEF N
    <3>4. Slack(net, p, a) = c - p[v] + p[w] BY <2>3 DEF Slack
    <3>5. p[v] = r /\ p[w] = price[w] /\ price[w] \in Int BY <1>1, <1>2, <2>3, <3>1
    <3> HIDE DEF c, w, r
    <3> QED BY <1>1, <3>1, <3>3, <3>4, <3>5
  <2> QED BY <2>1, <2>2, <2>3
<1> HIDE DEF r, d
<1>8. ASSUME NEW a \in Arcs(net)
      PROVE  /\ ArcFrom(net, a) = v /\ ArcTo(net, a) = v => Slack(net, p, a) = Slack(net, price, a)
             /\ ArcFrom(net, a) # v /\ ArcTo(net, a) = v => Slack(net, p, a) >= Slack(net, price, a) + k.scale
             /\ ArcFrom(net, a) # v /\ ArcTo(net, a) # v => Slack(net, p, a) = Slack(net, price, a)
  <2> DEFINE s0 == Slack(net, price, a)
             s1 == Slack(net, p, a)
             sc == k.scale
  <2>1. s0 \in Int /\ s1 = s0 - (IF ArcFrom(net, a) = v THEN d ELSE 0) + (IF ArcTo(net, a) = v THEN d ELSE 0)
    BY <1>3
  <2>2. d \in Int /\ sc \in Nat /\ d >= sc BY <1>1
  <2> HIDE DEF s0, s1, sc
  <2>3. CASE ArcFrom(net, a) = v /\ ArcTo(net, a) = v BY <2>1, <2>2, <2>3 DEF s0, s1
  <2>4. CASE ArcFrom(net, a) # v /\ ArcTo(net, a) = v BY <2>1, <2>2, <2>4 DEF s0, s1, sc
  <2>5. CASE ArcFrom(net, a) # v /\ ArcTo(net, a) # v BY <2>1, <2>5 DEF s0, s1
  <2>6. CASE ArcFrom(net, a) = v /\ ArcTo(net, a) # v BY <2>6
  <2> QED BY <2>3, <2>4, <2>5, <2>6
<1>5. NearOptimal(net, flow, p, k.fixed, k.scale)
  <2> SUFFICES ASSUME NEW a \in Arcs(net), Residual(net, flow, a) > 0, a[1] \notin k.fixed
               PROVE  Slack(net, p, a) >= -k.scale
    BY DEF NearOptimal
  <2> QED
    <3>1. CASE ArcFrom(net, a) = v /\ ArcTo(net, a) # v BY <1>4, <3>1
    <3>2. CASE ArcTo(net, a) = v
      <4> DEFINE s0 == Slack(net, price, a)
                 s1 == Slack(net, p, a)
                 sc == k.scale
      <4>1. s0 \in Int /\ sc \in Nat /\ s0 >= -sc /\ (s1 = s0 \/ s1 >= s0 + sc)
        BY <1>1, <1>3, <1>4, <1>8, <3>2
      <4> HIDE DEF s0, s1, sc
      <4>2. s1 >= -sc
        <5>1. CASE s1 = s0 BY <4>1, <5>1
        <5>2. CASE s1 >= s0 + sc
          <6>1. s1 \in Int BY <1>3 DEF s1
          <6> QED BY <4>1, <5>2, <6>1
        <5> QED BY <4>1, <5>1, <5>2
      <4> QED BY <4>2 DEF s1, sc
    <3>3. CASE ArcFrom(net, a) # v /\ ArcTo(net, a) # v BY <1>4, <1>8, <3>3
    <3> QED BY <3>1, <3>2, <3>3
<1>6. ASSUME NEW a \in Arcs(net), Falls(net, flow, p, k.fixed, a)
      PROVE  /\ ArcTo(net, a) # v
             /\ ArcFrom(net, a) = v \/ Falls(net, flow, price, k.fixed, a)
  <2>1. Residual(net, flow, a) > 0 /\ a[1] \notin k.fixed /\ Slack(net, p, a) < 0 BY <1>6 DEF Falls
  <2>2. ArcTo(net, a) # v BY <1>1, <1>3, <1>4, <2>1
  <2>3. ArcFrom(net, a) # v => Slack(net, price, a) < 0 BY <1>3, <2>1, <2>2
  <2> QED BY <2>1, <2>2, <2>3 DEF Falls
<1>7. \A a \in Arcs(net) : ArcFrom(net, a) # v /\ ArcTo(net, a) # v => Slack(net, p, a) = Slack(net, price, a)
  BY <1>8
<1> QED BY <1>2, <1>5, <1>6, <1>7 DEF Raises

(***************************************************************************)
(* The inductive invariant of the cost scalers, and how it survives the    *)
(* raising of a price.                                                     *)
(***************************************************************************)

ScalerKernel(g, kk) ==
    kk \in [scale : Nat \ {0}, node : g.nodes \cup {0}, path : Seq(Arcs(g)), cursor : [g.nodes -> Nat],
            level : {<<>>}, target : {0}, sent : {0}, queue : Seq(g.nodes), fixed : SUBSET Edges(g)]
ScalerPhases == {"start", "infeasible", "scale", "refine", "failed", "certify", "done"}
Ranked(g, fl, p, kk) == \E rank : /\ Descends(g, fl, p, kk.fixed, rank)
                                  /\ WalksDown(g, fl, p, kk.fixed, kk.path, rank)

\* The inductive invariant of the cost scalers: flow accounted for, near optimal at every
\* scale; and in a refinement cursors, ranks and the path that bear each other out.
ScalerKeeps(g, al, fl, ex, p, ph, kk) ==
    /\ Accounts(g, fl, ex) /\ p \in [g.nodes -> Int] /\ ScalerKernel(g, kk) /\ ph \in ScalerPhases
    /\ al # "arc-fixing" => kk.fixed = {}
    /\ al \notin AlongPaths => kk.path = <<>>
    /\ ph = "start" => p = [v \in g.nodes |-> 0] /\ kk = Kernel(g)
    /\ ph \notin {"start", "infeasible"} => NearOptimal(g, fl, p, kk.fixed, kk.scale)
    /\ ph = "refine" => Passed(g, fl, p, kk) /\ Ranked(g, fl, p, kk)

\* A cursor put at a place that passes only arcs that do not fall, while no arc that
\* leaves another node has begun to fall.
CursorAt(g, kk, ll, v, c) ==
    /\ ScalerKernel(g, ll) /\ ll.scale = kk.scale /\ ll.fixed = kk.fixed
    /\ ll.cursor = [kk.cursor EXCEPT ![v] = c]
ClearTo(g, fl, p, fixed, v, c) == \A i \in 1 .. c : ~Falls(g, fl, p, fixed, g.outgoing[v][i])
OnlyFrom(g, fl, p, next, q, fixed, v) == \A b \in Arcs(g) :
    Falls(g, next, q, fixed, b) => ArcFrom(g, b) = v \/ Falls(g, fl, p, fixed, b)

\* A cursor so placed has passed only arcs that do not fall.
LEMMA CursorPlaced ==
    ASSUME NEW g \in Problems, NEW fl, NEW p, NEW kk, Passed(g, fl, p, kk), ScalerKernel(g, kk),
           NEW v \in g.nodes, NEW c \in 0 .. Len(g.outgoing[v]), NEW next, NEW q, NEW ll,
           CursorAt(g, kk, ll, v, c), ClearTo(g, next, q, kk.fixed, v, c),
           OnlyFrom(g, fl, p, next, q, kk.fixed, v)
    PROVE  Passed(g, next, q, ll)
<1>1. /\ kk.cursor \in [g.nodes -> Nat] /\ ll.cursor = [kk.cursor EXCEPT ![v] = c] /\ ll.fixed = kk.fixed
      /\ \A i \in 1 .. c : ~Falls(g, next, q, kk.fixed, g.outgoing[v][i])
  BY DEF ScalerKernel, CursorAt, ClearTo
<1> SUFFICES ASSUME NEW u \in g.nodes
             PROVE  /\ ll.cursor[u] \in 0 .. Len(g.outgoing[u])
                    /\ \A i \in 1 .. ll.cursor[u] : ~Falls(g, next, q, kk.fixed, g.outgoing[u][i])
  BY <1>1 DEF Passed
<1>2. CASE u = v BY <1>1, <1>2
<1>3. CASE u # v
  <2>1. ll.cursor[u] = kk.cursor[u] BY <1>1, <1>3
  <2>2. /\ kk.cursor[u] \in 0 .. Len(g.outgoing[u])
        /\ \A i \in 1 .. kk.cursor[u] : ~Falls(g, fl, p, kk.fixed, g.outgoing[u][i])
    BY DEF Passed
  <2>3. ASSUME NEW i \in 1 .. kk.cursor[u] PROVE ~Falls(g, next, q, kk.fixed, g.outgoing[u][i])
    <3>1. /\ g.outgoing[u] \in Seq(Arcs(g))
          /\ {g.outgoing[u][j] : j \in DOMAIN g.outgoing[u]} = {a \in Arcs(g) : ArcFrom(g, a) = u}
      BY ProblemsAssumption DEF IsNetwork
    <3>2. i \in DOMAIN g.outgoing[u] BY <2>2, <3>1
    <3>3. g.outgoing[u][i] \in Arcs(g) /\ ArcFrom(g, g.outgoing[u][i]) = u BY <3>1, <3>2
    <3> QED BY <1>3, <2>2, <3>3 DEF OnlyFrom
  <2> QED BY <2>1, <2>2, <2>3
<1> QED BY <1>2, <1>3

\* The empty path is a walk.
LEMMA WalksNowhere ==
    ASSUME NEW g, NEW fl, NEW p, NEW fixed, NEW rank
    PROVE  WalksDown(g, fl, p, fixed, <<>>, rank)
BY DEF WalksDown

\* A rank above all others.
LEMMA TopRank ==
    ASSUME NEW g \in Problems, NEW rank \in [g.nodes -> Int]
    PROVE  \E top \in Int : \A v \in g.nodes : rank[v] < top
<1>1. IsFiniteSet(g.nodes) /\ g.nodes # {} BY ProblemsAssumption DEF IsNetwork
<1> DEFINE S == {rank[v] : v \in g.nodes}
<1>2. IsFiniteSet(S) BY <1>1, FiniteImage
<1>3. S # {} /\ S \subseteq Int BY <1>1
<1>4. \A v \in g.nodes : rank[v] \in S OBVIOUS
<1> HIDE DEF S
<1>5. PICK x \in S : \A y \in S : x >= y BY <1>2, <1>3, GreatestExists
<1>6. x + 1 \in Int /\ \A v \in g.nodes : rank[v] < x + 1 BY <1>3, <1>4, <1>5
<1> QED BY <1>6

\* A node whose price was raised ranks above all others from then on.
LEMMA RaisedRanks ==
    ASSUME net \in Problems, NEW v \in net.nodes, NEW p, Raises(v, p), NEW rank,
           Descends(net, flow, price, k.fixed, rank),
           NEW path \in Seq(Arcs(net)), WalksDown(net, flow, price, k.fixed, path, rank),
           \A i \in 1 .. Len(path) : ArcFrom(net, path[i]) # v /\ ArcTo(net, path[i]) # v
    PROVE  \E r : Descends(net, flow, p, k.fixed, r) /\ WalksDown(net, flow, p, k.fixed, path, r)
<1>1. rank \in [net.nodes -> Int] BY DEF Descends
<1>2. PICK top \in Int : \A u \in net.nodes : rank[u] < top BY <1>1, TopRank
<1> DEFINE r == [rank EXCEPT ![v] = top]
<1>3. /\ r \in [net.nodes -> Int] /\ r[v] = top
      /\ \A u \in net.nodes : u # v => r[u] = rank[u]
  BY <1>1
<1> HIDE DEF r
<1>4. ASSUME NEW a \in Arcs(net), Falls(net, flow, p, k.fixed, a)
      PROVE  r[ArcFrom(net, a)] > r[ArcTo(net, a)]
  <2>1. ArcFrom(net, a) \in net.nodes /\ ArcTo(net, a) \in net.nodes BY ArcEnds
  <2>2. ArcTo(net, a) # v /\ (ArcFrom(net, a) = v \/ Falls(net, flow, price, k.fixed, a)) BY <1>4 DEF Raises
  <2>3. CASE ArcFrom(net, a) = v BY <1>1, <1>2, <1>3, <2>1, <2>2, <2>3
  <2>4. CASE ArcFrom(net, a) # v BY <1>3, <2>1, <2>2, <2>4 DEF Descends
  <2> QED BY <2>3, <2>4
<1>5. WalksDown(net, flow, p, k.fixed, path, r)
  <2> SUFFICES ASSUME NEW i \in 1 .. Len(path)
               PROVE  /\ Falls(net, flow, p, k.fixed, path[i])
                      /\ i < Len(path) => ArcTo(net, path[i]) = ArcFrom(net, path[i + 1])
                      /\ \A j \in 1 .. Len(path) : i < j => r[ArcFrom(net, path[i])] > r[ArcFrom(net, path[j])]
    BY DEF WalksDown
  <2>1. \A j \in 1 .. Len(path) : path[j] \in Arcs(net) /\ ArcFrom(net, path[j]) \in net.nodes BY ArcEnds
  <2>2. /\ Falls(net, flow, price, k.fixed, path[i])
        /\ i < Len(path) => ArcTo(net, path[i]) = ArcFrom(net, path[i + 1])
        /\ \A j \in 1 .. Len(path) : i < j => rank[ArcFrom(net, path[i])] > rank[ArcFrom(net, path[j])]
    BY DEF WalksDown
  <2>3. Slack(net, p, path[i]) = Slack(net, price, path[i]) BY <2>1 DEF Raises
  <2>4. Falls(net, flow, p, k.fixed, path[i]) BY <2>2, <2>3 DEF Falls
  <2>5. \A j \in 1 .. Len(path) : r[ArcFrom(net, path[j])] = rank[ArcFrom(net, path[j])] BY <1>3, <2>1
  <2> QED BY <2>2, <2>4, <2>5
<1> QED BY <1>3, <1>4, <1>5 DEF Descends

\* The types of the kernel of a cost scaler.
LEMMA ScalerTypes ==
    ASSUME ScalerKeeps(net, alg, flow, excess, price, phase, k)
    PROVE  /\ flow \in [Edges(net) -> Int] /\ excess \in [net.nodes -> Int] /\ price \in [net.nodes -> Int]
           /\ k.scale \in Nat \ {0} /\ k.node \in net.nodes \cup {0} /\ k.path \in Seq(Arcs(net))
           /\ k.cursor \in [net.nodes -> Nat] /\ k.queue \in Seq(net.nodes) /\ k.fixed \in SUBSET Edges(net)
BY DEF ScalerKeeps, ScalerKernel, Accounts

\* The node that is discharged has something to send.
LEMMA DischargedIs ==
    ASSUME net \in Problems, ScalerKeeps(net, alg, flow, excess, price, phase, k), Actives # {}
    PROVE  Discharged \in net.nodes /\ excess[Discharged] > 0
<1>1. k.node \in net.nodes \cup {0} /\ excess \in [net.nodes -> Int] BY ScalerTypes
<1>2. IsFiniteSet(net.nodes) /\ net.nodes \subseteq Int BY ProblemsAssumption DEF IsNetwork
<1>3. CASE k.node # 0 /\ excess[k.node] > 0 BY <1>1, <1>3 DEF Discharged
<1>4. CASE ~(k.node # 0 /\ excess[k.node] > 0)
  <2>1. Discharged = Finite!Min(Actives) BY <1>4 DEF Discharged
  <2>2. IsFiniteSet(Actives) /\ Actives \subseteq Int BY <1>2, FS_Subset DEF Actives
  <2>3. Finite!Min(Actives) \in Actives BY <2>2, MinIsLeast
  <2> QED BY <2>1, <2>3 DEF Actives
<1> QED BY <1>3, <1>4

(***************************************************************************)
(* One lemma per action of the cost scalers.                               *)
(***************************************************************************)

ScalerNow == ScalerKeeps(net, alg, flow, excess, price, phase, k)
ScalerNext == ScalerKeeps(net, alg, flow', excess', price', phase', k')

KernelAt(kk, w, v, c) == [kk EXCEPT !.node = w, !.cursor[v] = c]

\* Moving one node's cursor moves no other, and not the path in work.
LEMMA KernelMoves ==
    ASSUME NEW g, NEW kk, ScalerKernel(g, kk), NEW v \in g.nodes, NEW w \in g.nodes, NEW c \in Nat
    PROVE  /\ CursorAt(g, kk, KernelAt(kk, w, v, c), v, c)
           /\ KernelAt(kk, w, v, c).path = kk.path
BY DEF ScalerKernel, KernelAt, CursorAt

\* Giving a refinement up.
LEMMA FailingKeeps ==
    ASSUME ScalerNow, phase = "refine", Stop("failed") PROVE ScalerNext
BY DEF ScalerNow, ScalerNext, ScalerKeeps, Stop, ScalerPhases

\* A push keeps what a refinement keeps.
LEMMA PushKeeps ==
    ASSUME net \in Problems, ScalerNow, Push PROVE ScalerNext
<1> DEFINE v == Discharged
           found == CurrentArc(v)
           a == net.outgoing[v][found]
           amount == Finite!Min({excess[v], R(a)})
<1>1. /\ alg \in CostScalers /\ alg \notin AlongPaths /\ phase = "refine" /\ Actives # {} /\ found # 0
      /\ flow' = Augment(net, flow, <<a>>, amount) /\ excess' = Moved(excess, v, To(a), amount)
      /\ k' = [k EXCEPT !.node = v, !.cursor[v] = found - 1]
      /\ UNCHANGED <<price, phase>>
  BY DEF Push, Discharging
<1>2. v \in net.nodes /\ excess[v] > 0 BY <1>1, DischargedIs DEF ScalerNow
<1>3. /\ Passed(net, flow, price, k) /\ Ranked(net, flow, price, k)
      /\ NearOptimal(net, flow, price, k.fixed, k.scale) /\ Accounts(net, flow, excess)
      /\ ScalerKernel(net, k) /\ k.path = <<>> /\ (alg # "arc-fixing" => k.fixed = {})
  BY <1>1 DEF ScalerNow, ScalerKeeps
<1>4. /\ flow \in [Edges(net) -> Int] /\ excess \in [net.nodes -> Int] /\ price \in [net.nodes -> Int]
      /\ k.scale \in Nat
  BY ScalerTypes DEF ScalerNow
<1> HIDE DEF v
<1>5. FoundArc(v, found) BY <1>1, <1>2, <1>3, CurrentArcIs
<1> HIDE DEF found
<1>6. a \in Arcs(net) /\ ArcFrom(net, a) = v /\ Falls(net, flow, price, k.fixed, a) BY <1>1, <1>5 DEF FoundArc
<1> HIDE DEF a
<1>7. amount \in Nat /\ amount <= Residual(net, flow, a)
  <2>1. Residual(net, flow, a) \in Int /\ Residual(net, flow, a) > 0 /\ excess[v] \in Int
    BY <1>2, <1>4, <1>6, ResidualAfter DEF Falls
  <2> DEFINE x == excess[v]
             y == Residual(net, flow, a)
  <2>2. amount = Finite!Min({x, y}) BY DEF R
  <2>3. x \in Int /\ y \in Int /\ x > 0 /\ y > 0 BY <1>2, <2>1
  <2> HIDE DEF amount, x, y
  <2>4. amount \in {x, y} /\ amount <= y BY <2>2, <2>3, MinOfTwo
  <2> QED BY <2>3, <2>4 DEF y
<1> HIDE DEF amount
<1>8. Accounts(net, flow', excess') BY <1>1, <1>3, <1>6, <1>7, PushAccounts DEF To
<1>9. NoNewFalls(net, price, flow, flow') BY <1>1, <1>4, <1>6, <1>7, PushOpensNothing DEF Falls
<1>10. /\ \A b \in Arcs(net) : Falls(net, flow', price, k.fixed, b) => Falls(net, flow, price, k.fixed, b)
       /\ NearOptimal(net, flow', price, k.fixed, k.scale)
  BY <1>3, <1>4, <1>9, OpensNothing
<1>11. found - 1 \in 0 .. Len(net.outgoing[v]) /\ found - 1 \in Nat BY <1>1, <1>5 DEF FoundArc
<1>12. CursorAt(net, k, k', v, found - 1) /\ k'.path = k.path
  <2>1. k' = KernelAt(k, v, v, found - 1) BY <1>1 DEF KernelAt
  <2> QED BY <1>2, <1>3, <1>11, <2>1, KernelMoves
<1>15. ScalerKernel(net, k') /\ k'.scale = k.scale /\ k'.fixed = k.fixed BY <1>12 DEF CursorAt
<1>13. Passed(net, flow', price, k')
  <2>1. ASSUME NEW i \in 1 .. (found - 1) PROVE ~Falls(net, flow', price, k.fixed, net.outgoing[v][i])
    <3>1. ~Falls(net, flow, price, k.fixed, net.outgoing[v][i]) BY <1>5 DEF FoundArc
    <3>2. net.outgoing[v] \in Seq(Arcs(net)) /\ i \in 1 .. Len(net.outgoing[v])
      BY <1>2, <1>11, ProblemsAssumption DEF IsNetwork
    <3>3. net.outgoing[v][i] \in Arcs(net) BY <3>2
    <3> QED BY <1>10, <3>1, <3>3
  <2>2. /\ ClearTo(net, flow', price, k.fixed, v, found - 1)
        /\ OnlyFrom(net, flow, price, flow', price, k.fixed, v)
    BY <1>10, <2>1 DEF ClearTo, OnlyFrom
  <2> QED BY <1>2, <1>3, <1>11, <1>12, <2>2, CursorPlaced
<1>14. Ranked(net, flow', price, k') BY <1>3, <1>10, <1>12, <1>15, WalksNowhere DEF Ranked, Descends
<1> QED BY <1>1, <1>3, <1>4, <1>8, <1>10, <1>12, <1>13, <1>14, <1>15 DEF ScalerNext, ScalerKeeps, ScalerPhases

\* Raising the price of a node without a current arc, and starting its arcs anew.
LEMMA RaisingKeeps ==
    ASSUME net \in Problems, alg \in CostScalers, ScalerNow, phase = "refine", NEW v \in net.nodes,
           CurrentArc(v) = 0, Relabels(v), price' = [price EXCEPT ![v] = Raised(v)],
           UNCHANGED <<flow, excess, phase>>, CursorAt(net, k, k', v, 0), NEW path \in Seq(Arcs(net)), k'.path = path,
           alg \notin AlongPaths => path = <<>>,
           \A rank : Descends(net, flow, price, k.fixed, rank) /\ WalksDown(net, flow, price, k.fixed, k.path, rank) =>
               /\ WalksDown(net, flow, price, k.fixed, path, rank)
               /\ \A i \in 1 .. Len(path) : ArcFrom(net, path[i]) # v /\ ArcTo(net, path[i]) # v
    PROVE  ScalerNext
<1>1. /\ Passed(net, flow, price, k) /\ Ranked(net, flow, price, k)
      /\ NearOptimal(net, flow, price, k.fixed, k.scale) /\ Accounts(net, flow, excess)
      /\ ScalerKernel(net, k) /\ (alg # "arc-fixing" => k.fixed = {})
  BY DEF ScalerNow, ScalerKeeps
<1>2. price \in [net.nodes -> Int] /\ k.scale \in Nat \ {0} BY ScalerTypes DEF ScalerNow
<1>3. \A a \in Arcs(net) : ArcFrom(net, a) = v => ~Falls(net, flow, price, k.fixed, a)
  BY <1>1, CurrentArcIs DEF FoundArc
<1>4. Raises(v, price') BY <1>1, <1>2, <1>3, RelabelRaises
<1>5. Passed(net, flow, price', k')
  <2>1. 0 \in 0 .. Len(net.outgoing[v]) BY ProblemsAssumption DEF IsNetwork
  <2>2. /\ OnlyFrom(net, flow, price, flow, price', k.fixed, v)
        /\ ClearTo(net, flow, price', k.fixed, v, 0)
    <3>1. OnlyFrom(net, flow, price, flow, price', k.fixed, v) BY <1>4 DEF Raises, OnlyFrom
    <3>2. \A i \in 1 .. 0 : FALSE OBVIOUS
    <3>3. ClearTo(net, flow, price', k.fixed, v, 0) BY ONLY <3>2 DEF ClearTo
    <3> QED BY <3>1, <3>3
  <2> QED BY <1>1, <2>1, <2>2, CursorPlaced
<1>6. Ranked(net, flow, price', k') BY <1>1, <1>4, RaisedRanks DEF Ranked, CursorAt
<1>7. price' \in [net.nodes -> Int] /\ NearOptimal(net, flow, price', k.fixed, k.scale) BY <1>4 DEF Raises
<1> QED BY <1>1, <1>5, <1>6, <1>7 DEF ScalerNext, ScalerKeeps, ScalerPhases, CursorAt

\* So does a relabelling.
LEMMA RelabelKeeps ==
    ASSUME net \in Problems, ScalerNow, Relabel PROVE ScalerNext
<1> DEFINE v == Discharged
<1>1. /\ alg \in CostScalers /\ alg \notin AlongPaths /\ phase = "refine" /\ Actives # {} /\ CurrentArc(v) = 0
      /\ IF Relabels(v)
         THEN /\ price' = [price EXCEPT ![v] = Raised(v)]
              /\ k' = [k EXCEPT !.node = v, !.cursor[v] = 0]
              /\ UNCHANGED <<flow, excess, phase>>
         ELSE Stop("failed")
  BY DEF Relabel, Discharging
<1>2. v \in net.nodes BY <1>1, DischargedIs DEF ScalerNow
<1> HIDE DEF v
<1>3. CASE ~Relabels(v) BY <1>1, <1>3, FailingKeeps
<1>4. CASE Relabels(v)
  <2>1. ScalerKernel(net, k) /\ k.path = <<>> /\ 0 \in Nat BY <1>1 DEF ScalerNow, ScalerKeeps
  <2>2. k' = [k EXCEPT !.node = v, !.cursor[v] = 0] /\ price' = [price EXCEPT ![v] = Raised(v)]
        /\ UNCHANGED <<flow, excess, phase>>
    BY <1>1, <1>4
  <2>3. CursorAt(net, k, k', v, 0) /\ k'.path = <<>>
    <3>1. k' = KernelAt(k, v, v, 0) BY <2>2 DEF KernelAt
    <3> QED BY <1>2, <2>1, <3>1, KernelMoves
  <2>4. /\ <<>> \in Seq(Arcs(net)) /\ \A i \in 1 .. Len(<<>>) : FALSE
        /\ \A rank : WalksDown(net, flow, price, k.fixed, <<>>, rank)
    BY WalksNowhere
  <2> QED BY <1>1, <1>2, <1>4, <2>2, <2>3, <2>4, RaisingKeeps
<1> QED BY <1>3, <1>4

\* A path starts at an active node.
LEMMA TakeRootKeeps ==
    ASSUME ScalerNow, TakeRoot PROVE ScalerNext
<1>1. /\ phase = "refine" /\ k.queue # <<>>
      /\ k' = [k EXCEPT !.queue = Tail(k.queue),
                        !.node = IF excess[Head(k.queue)] > 0 THEN Head(k.queue) ELSE 0]
      /\ UNCHANGED <<flow, excess, price, phase>>
  BY DEF TakeRoot
<1>2. ScalerKernel(net, k) BY DEF ScalerNow, ScalerKeeps
<1>3. Head(k.queue) \in net.nodes /\ Tail(k.queue) \in Seq(net.nodes) BY <1>1, <1>2 DEF ScalerKernel
<1>4. /\ ScalerKernel(net, k') /\ k'.scale = k.scale /\ k'.path = k.path /\ k'.fixed = k.fixed
      /\ k'.cursor = k.cursor
  BY <1>1, <1>2, <1>3 DEF ScalerKernel
<1> QED BY <1>1, <1>4 DEF ScalerNow, ScalerNext, ScalerKeeps, ScalerPhases, Passed, Ranked

\* The end of a path is a node, and where its last arc ends.
LEMMA PathEndIs ==
    ASSUME net \in Problems, ScalerNow, k.node # 0
    PROVE  /\ PathEnd \in net.nodes /\ k.path \in Seq(Arcs(net)) /\ Len(k.path) \in Nat
           /\ k.path # <<>> => PathEnd = ArcTo(net, k.path[Len(k.path)]) /\ Len(k.path) > 0
<1>1. k.node \in net.nodes \cup {0} /\ k.path \in Seq(Arcs(net)) BY ScalerTypes DEF ScalerNow
<1>2. CASE k.path = <<>> BY <1>1, <1>2 DEF PathEnd
<1>3. CASE k.path # <<>>
  <2>1. Len(k.path) \in Nat /\ Len(k.path) > 0 BY <1>1, <1>3
  <2>2. k.path[Len(k.path)] \in Arcs(net) BY <1>1, <2>1
  <2>3. PathEnd = ArcTo(net, k.path[Len(k.path)]) BY <1>3 DEF PathEnd, Seqs!Last, To
  <2> QED BY <1>1, <2>1, <2>2, <2>3, ArcEnds
<1> QED BY <1>2, <1>3

\* Every node of a walk along falling arcs ranks above its end.
LEMMA EndRanksLowest ==
    ASSUME net \in Problems, NEW path \in Seq(Arcs(net)), path # <<>>, NEW rank,
           Descends(net, flow, price, k.fixed, rank),
           WalksDown(net, flow, price, k.fixed, path, rank)
    PROVE  \A i \in 1 .. Len(path) : rank[ArcFrom(net, path[i])] > rank[ArcTo(net, path[Len(path)])]
<1>1. Len(path) \in 1 .. Len(path) OBVIOUS
<1>2. Falls(net, flow, price, k.fixed, path[Len(path)]) /\ path[Len(path)] \in Arcs(net) BY <1>1 DEF WalksDown
<1>3. rank[ArcFrom(net, path[Len(path)])] > rank[ArcTo(net, path[Len(path)])] BY <1>2 DEF Descends
<1> TAKE i \in 1 .. Len(path)
<1>4. CASE i = Len(path) BY <1>3, <1>4
<1>5. CASE i < Len(path)
  <2>1. rank[ArcFrom(net, path[i])] > rank[ArcFrom(net, path[Len(path)])] BY <1>1, <1>5 DEF WalksDown
  <2>2. /\ ArcFrom(net, path[i]) \in net.nodes /\ ArcFrom(net, path[Len(path)]) \in net.nodes
        /\ ArcTo(net, path[Len(path)]) \in net.nodes /\ rank \in [net.nodes -> Int]
    BY <1>2, ArcEnds, SMTT(30) DEF Descends
  <2> QED BY <1>3, <2>1, <2>2
<1> QED BY <1>4, <1>5

\* A path grows by the current arc of its end.
LEMMA ExtendPathKeeps ==
    ASSUME net \in Problems, ScalerNow, alg \in CostScalers, ExtendPath PROVE ScalerNext
<1> DEFINE v == PathEnd
           found == CurrentArc(v)
           a == net.outgoing[v][found]
<1>1. /\ phase = "refine" /\ k.node # 0 /\ found # 0
      /\ k' = [k EXCEPT !.path = Append(k.path, a), !.cursor[v] = found - 1]
      /\ UNCHANGED <<flow, excess, price, phase>> /\ alg \in AlongPaths
  BY DEF ExtendPath, Searching
<1>2. /\ v \in net.nodes /\ k.path \in Seq(Arcs(net)) /\ Len(k.path) \in Nat
      /\ k.path # <<>> => v = ArcTo(net, k.path[Len(k.path)]) /\ Len(k.path) > 0
  BY <1>1, PathEndIs
<1>3. Passed(net, flow, price, k) /\ Ranked(net, flow, price, k) /\ ScalerKernel(net, k)
  BY <1>1 DEF ScalerNow, ScalerKeeps
<1> HIDE DEF v
<1>4. FoundArc(v, found) BY <1>2, <1>3, CurrentArcIs
<1> HIDE DEF found
<1>5. a \in Arcs(net) /\ ArcFrom(net, a) = v /\ Falls(net, flow, price, k.fixed, a) BY <1>1, <1>4 DEF FoundArc
<1> HIDE DEF a
<1>6. /\ found - 1 \in 0 .. Len(net.outgoing[v]) /\ found - 1 \in Nat
      /\ ClearTo(net, flow, price, k.fixed, v, found - 1)
  BY <1>1, <1>4 DEF FoundArc, ClearTo
<1>7. CursorAt(net, k, k', v, found - 1) /\ k'.path = Append(k.path, a)
  <2>1. Append(k.path, a) \in Seq(Arcs(net)) BY <1>2, <1>5
  <2> QED BY <1>1, <1>2, <1>3, <1>6, <2>1 DEF ScalerKernel, CursorAt
<1>8. Passed(net, flow, price, k') BY <1>2, <1>3, <1>6, <1>7, CursorPlaced DEF OnlyFrom
<1>9. Ranked(net, flow, price, k')
  <2>1. PICK rank : Descends(net, flow, price, k.fixed, rank) /\ WalksDown(net, flow, price, k.fixed, k.path, rank)
    BY <1>3 DEF Ranked
  <2> DEFINE path == Append(k.path, a)
             n == Len(k.path)
  <2>2. /\ Len(path) = n + 1 /\ path[n + 1] = a /\ n \in Nat
        /\ \A i \in 1 .. n : path[i] = k.path[i]
    BY <1>2, <1>5
  <2>3. n > 0 => v = ArcTo(net, k.path[n]) BY <1>2
  <2>4. \A i \in 1 .. n : rank[ArcFrom(net, k.path[i])] > rank[v] BY <1>2, <2>1, EndRanksLowest
  <2> HIDE DEF path
  <2>5. WalksDown(net, flow, price, k.fixed, path, rank)
    <3> SUFFICES ASSUME NEW i \in 1 .. (n + 1)
                 PROVE  /\ Falls(net, flow, price, k.fixed, path[i])
                        /\ i < n + 1 => ArcTo(net, path[i]) = ArcFrom(net, path[i + 1])
                        /\ \A j \in 1 .. (n + 1) : i < j =>
                               rank[ArcFrom(net, path[i])] > rank[ArcFrom(net, path[j])]
      BY <2>2 DEF WalksDown
    <3>1. CASE i = n + 1 BY <1>5, <2>2, <3>1
    <3>2. CASE i \in 1 .. n
      <4>1. /\ Falls(net, flow, price, k.fixed, k.path[i])
            /\ i < n => ArcTo(net, k.path[i]) = ArcFrom(net, k.path[i + 1])
            /\ \A j \in 1 .. n : i < j => rank[ArcFrom(net, k.path[i])] > rank[ArcFrom(net, k.path[j])]
        BY <2>1, <3>2 DEF WalksDown
      <4>2. i < n => path[i + 1] = k.path[i + 1] BY <2>2, <3>2
      <4>3. i = n => ArcTo(net, path[i]) = ArcFrom(net, path[i + 1]) BY <1>5, <2>2, <2>3, <3>2
      <4>4. \A j \in 1 .. (n + 1) : i < j => rank[ArcFrom(net, path[i])] > rank[ArcFrom(net, path[j])]
        <5> TAKE j \in 1 .. (n + 1)
        <5>1. CASE j = n + 1 BY <1>5, <2>2, <2>4, <3>2, <5>1
        <5>2. CASE j \in 1 .. n BY <2>2, <3>2, <4>1, <5>2
        <5> QED BY <2>2, <5>1, <5>2
      <4> HIDE DEF n
      <4> QED BY <2>2, <3>2, <4>1, <4>2, <4>3, <4>4
    <3> QED BY <2>2, <3>1, <3>2
  <2> QED BY <1>7, <2>1, <2>5 DEF Ranked, CursorAt, path
<1> QED BY <1>1, <1>7, <1>8, <1>9 DEF ScalerNow, ScalerNext, ScalerKeeps, ScalerPhases, CursorAt

\* A path whose end has no falling arc steps back as that end is raised.
LEMMA RelabelPathEndKeeps ==
    ASSUME net \in Problems, ScalerNow, alg \in CostScalers, RelabelPathEnd PROVE ScalerNext
<1> DEFINE v == PathEnd
           path == IF k.path = <<>> THEN <<>> ELSE Seqs!Front(k.path)
<1>1. /\ phase = "refine" /\ k.node # 0 /\ CurrentArc(v) = 0 /\ alg \in AlongPaths
      /\ IF Relabels(v)
         THEN /\ price' = [price EXCEPT ![v] = Raised(v)]
              /\ k' = [k EXCEPT !.cursor[v] = 0, !.path = path]
              /\ UNCHANGED <<flow, excess, phase>>
         ELSE Stop("failed")
  BY DEF RelabelPathEnd, Searching
<1>2. /\ v \in net.nodes /\ k.path \in Seq(Arcs(net)) /\ Len(k.path) \in Nat
      /\ k.path # <<>> => v = ArcTo(net, k.path[Len(k.path)]) /\ Len(k.path) > 0
  BY <1>1, PathEndIs
<1> HIDE DEF v
<1>3. /\ path \in Seq(Arcs(net)) /\ Len(path) \in Nat
      /\ k.path = <<>> => Len(path) = 0
      /\ k.path # <<>> => Len(path) = Len(k.path) - 1 /\ \A i \in 1 .. Len(path) : path[i] = k.path[i]
  BY <1>2 DEF Seqs!Front
<1>4. CASE ~Relabels(v) BY <1>1, <1>4, FailingKeeps
<1>5. CASE Relabels(v)
  <2> HIDE DEF path
  <2>1. /\ price' = [price EXCEPT ![v] = Raised(v)]
        /\ k' = [k EXCEPT !.cursor[v] = 0, !.path = path]
        /\ UNCHANGED <<flow, excess, phase>>
    BY <1>1, <1>5
  <2>2. CursorAt(net, k, k', v, 0) /\ k'.path = path
    BY <1>2, <1>3, <2>1 DEF ScalerNow, ScalerKeeps, ScalerKernel, CursorAt
  <2>3. ASSUME NEW rank, Descends(net, flow, price, k.fixed, rank), WalksDown(net, flow, price, k.fixed, k.path, rank)
        PROVE  /\ WalksDown(net, flow, price, k.fixed, path, rank)
               /\ \A i \in 1 .. Len(path) : ArcFrom(net, path[i]) # v /\ ArcTo(net, path[i]) # v
    <3>1. CASE k.path = <<>> BY <1>3, <3>1 DEF WalksDown
    <3>2. CASE k.path # <<>>
      <4>1. \A i \in 1 .. Len(k.path) : rank[ArcFrom(net, k.path[i])] > rank[v]
        BY <1>2, <2>3, <3>2, EndRanksLowest
      <4>2. \A i \in 1 .. Len(k.path) :
               /\ Falls(net, flow, price, k.fixed, k.path[i])
               /\ i < Len(k.path) => ArcTo(net, k.path[i]) = ArcFrom(net, k.path[i + 1])
               /\ \A j \in 1 .. Len(k.path) : i < j => rank[ArcFrom(net, k.path[i])] > rank[ArcFrom(net, k.path[j])]
        BY <2>3 DEF WalksDown
      <4>3. rank[v] \in Int BY <1>2, <2>3 DEF Descends
      <4>4. \A i \in 1 .. Len(k.path) : ArcFrom(net, k.path[i]) # v BY <4>1, <4>3
      <4>5. ASSUME NEW i \in 1 .. Len(path)
            PROVE  /\ i \in 1 .. Len(k.path) /\ i + 1 \in 1 .. Len(k.path) /\ i < Len(k.path)
                   /\ path[i] = k.path[i] /\ (i < Len(path) => path[i + 1] = k.path[i + 1])
        BY <1>2, <1>3, <3>2
      <4>6. \A i \in 1 .. Len(path) : ArcFrom(net, path[i]) # v /\ ArcTo(net, path[i]) # v BY <4>2, <4>4, <4>5
      <4>7. WalksDown(net, flow, price, k.fixed, path, rank) BY <4>2, <4>5 DEF WalksDown
      <4> QED BY <4>6, <4>7
    <3> QED BY <3>1, <3>2
  <2> QED BY <1>1, <1>2, <1>3, <1>5, <2>1, <2>2, <2>3, RaisingKeeps
<1> QED BY <1>4, <1>5

\* What a path carries: accounted for, opening nothing that could fall.
Carried ==
    {x \in [ok : BOOLEAN, flow : [Edges(net) -> Int], excess : [net.nodes -> Int], queue : Seq(net.nodes)] :
        Accounts(net, x.flow, x.excess) /\ NoNewFalls(net, price, flow, x.flow)}

\* The residual capacity of an accounted flow is not negative.
LEMMA ResidualIsNat ==
    ASSUME NEW g \in Problems, NEW fl, NEW ex, Accounts(g, fl, ex), NEW a \in Arcs(g)
    PROVE  Residual(g, fl, a) \in Nat
<1>1. a[1] \in Edges(g) /\ a[2] \in {"forward", "reverse"} BY ArcEnds
<1>2. /\ g.lower[a[1]] \in Int /\ g.capacity[a[1]] \in Int /\ fl[a[1]] \in Int
      /\ g.lower[a[1]] <= fl[a[1]] /\ fl[a[1]] <= g.capacity[a[1]]
  BY <1>1, ProblemTypes DEF Accounts
<1> QED BY <1>1, <1>2 DEF Residual

\* One arc of a path.
LEMMA PushArcCarries ==
    ASSUME net \in Problems, price \in [net.nodes -> Int], NEW x \in Carried,
           NEW a \in Arcs(net), Slack(net, price, a) < 0
    PROVE  PushArc(x, a) \in Carried
<1> DEFINE u == ArcFrom(net, a)
           w == ArcTo(net, a)
           room == Residual(net, x.flow, a)
           amount == Finite!Min({x.excess[u], room})
           next == Augment(net, x.flow, <<a>>, amount)
           moved == Moved(x.excess, u, w, amount)
           y == PushArc(x, a)
<1>1. /\ x.ok \in BOOLEAN /\ x.flow \in [Edges(net) -> Int] /\ x.excess \in [net.nodes -> Int]
      /\ x.queue \in Seq(net.nodes) /\ Accounts(net, x.flow, x.excess)
      /\ NoNewFalls(net, price, flow, x.flow)
      /\ x = [ok |-> x.ok, flow |-> x.flow, excess |-> x.excess, queue |-> x.queue]
  BY DEF Carried
<1>2. u \in net.nodes /\ w \in net.nodes BY ArcEnds
<1>3. room \in Nat BY <1>1, ResidualIsNat
<1>4. CASE ~x.ok \/ room = 0 \/ x.excess[u] <= 0
  <2>1. y = [x EXCEPT !.ok = FALSE] BY <1>4 DEF PushArc, From
  <2>2. y = [ok |-> FALSE, flow |-> x.flow, excess |-> x.excess, queue |-> x.queue] BY <1>1, <2>1
  <2> HIDE DEF y
  <2> QED BY <1>1, <2>2 DEF Carried, y
<1>5. CASE ~(~x.ok \/ room = 0 \/ x.excess[u] <= 0)
  <2>1. PICK queue : /\ queue = x.queue \/ queue = Append(x.queue, w)
                     /\ y = [ok |-> TRUE, flow |-> next, excess |-> moved, queue |-> queue]
    BY <1>5 DEF PushArc, From, To
  <2> HIDE DEF y, next, moved, amount, room, u, w
  <2>2. queue \in Seq(net.nodes) BY <1>1, <1>2, <2>1, Appended, ZenonT(60)
  <2>3. amount \in Nat /\ amount <= room
    <3> DEFINE e == x.excess[u]
    <3>1. e \in Int /\ e > 0 /\ amount = Finite!Min({e, room}) /\ room \in Int
      BY <1>1, <1>2, <1>3, <1>5 DEF amount
    <3> HIDE DEF e
    <3>2. amount \in {e, room} /\ amount <= room BY <3>1, MinOfTwo
    <3> QED BY <1>3, <3>1, <3>2
  <2>4. Accounts(net, next, moved) BY <1>1, <2>3, PushAccounts DEF next, moved, u, w, room
  <2>5. NoNewFalls(net, price, x.flow, next) BY <1>1, <2>3, PushOpensNothing DEF next
  <2>6. NoNewFalls(net, price, flow, next) BY <1>1, <2>5 DEF NoNewFalls
  <2>7. next \in [Edges(net) -> Int] /\ moved \in [net.nodes -> Int] BY <2>4 DEF Accounts
  <2>8. y.flow = next /\ y.excess = moved BY <2>1
  <2> QED BY <2>1, <2>2, <2>4, <2>6, <2>7, <2>8 DEF Carried, y
<1> QED BY <1>4, <1>5

\* Flow goes along the path, arc by arc, and the path is over.
LEMMA PushPathKeeps ==
    ASSUME net \in Problems, alg \in CostScalers, ScalerNow, PushPath PROVE ScalerNext
<1> DEFINE base == [ok |-> TRUE, flow |-> flow, excess |-> excess, queue |-> k.queue]
           x == Folded(PushArc, base, k.path)
<1>1. /\ phase = "refine" /\ k.node # 0 /\ alg \in AlongPaths
      /\ flow' = x.flow /\ excess' = x.excess
      /\ k' = [k EXCEPT !.node = 0, !.path = <<>>,
                        !.queue = IF x.excess[k.node] > 0 /\ ~Seqs!Contains(x.queue, k.node)
                                  THEN Append(x.queue, k.node) ELSE x.queue]
      /\ phase' \in {"refine", "failed"} /\ UNCHANGED price
  BY DEF PushPath, Searching
<1>2. /\ Passed(net, flow, price, k) /\ Ranked(net, flow, price, k)
      /\ NearOptimal(net, flow, price, k.fixed, k.scale) /\ Accounts(net, flow, excess)
      /\ ScalerKernel(net, k) /\ (alg # "arc-fixing" => k.fixed = {})
  BY <1>1 DEF ScalerNow, ScalerKeeps
<1>3. /\ flow \in [Edges(net) -> Int] /\ excess \in [net.nodes -> Int] /\ price \in [net.nodes -> Int]
      /\ k.scale \in Nat /\ k.node \in net.nodes /\ k.path \in Seq(Arcs(net)) /\ k.queue \in Seq(net.nodes)
  BY <1>1, ScalerTypes DEF ScalerNow
<1>4. \A i \in 1 .. Len(k.path) : k.path[i] \in Arcs(net) /\ Slack(net, price, k.path[i]) < 0
  BY <1>2, <1>3 DEF Ranked, WalksDown, Falls
<1>5. x \in Carried
  <2> DEFINE n == Len(k.path)
  <2>1. n \in Nat /\ DOMAIN k.path = 1 .. n BY <1>3
  <2> HIDE DEF n
  <2>2. base \in Carried BY <1>2, <1>3 DEF NoNewFalls, Carried
  <2>3. PushesWithin(Carried, n, k.path) BY <1>3, <1>4, PushArcCarries DEF PushesWithin, n
  <2> HIDE DEF base
  <2> QED BY <2>1, <2>2, <2>3, PushedRuns
<1> HIDE DEF x
<1>6. /\ Accounts(net, flow', excess') /\ NoNewFalls(net, price, flow, flow')
      /\ x.queue \in Seq(net.nodes)
  BY <1>1, <1>5 DEF Carried
<1>7. /\ \A b \in Arcs(net) : Falls(net, flow', price, k.fixed, b) => Falls(net, flow, price, k.fixed, b)
      /\ NearOptimal(net, flow', price, k.fixed, k.scale)
  BY <1>2, <1>3, <1>6, OpensNothing
<1>8. /\ ScalerKernel(net, k') /\ k'.scale = k.scale /\ k'.path = <<>> /\ k'.fixed = k.fixed
      /\ k'.cursor = k.cursor
  <2> DEFINE q == IF x.excess[k.node] > 0 /\ ~Seqs!Contains(x.queue, k.node)
                  THEN Append(x.queue, k.node) ELSE x.queue
  <2>1. k' = [k EXCEPT !.node = 0, !.path = <<>>, !.queue = q] BY <1>1
  <2>2. Append(x.queue, k.node) \in Seq(net.nodes) BY <1>3, <1>6, Appended
  <2>3. q \in Seq(net.nodes) BY <1>6, <2>2
  <2> HIDE DEF q
  <2>4. <<>> \in Seq(Arcs(net)) OBVIOUS
  <2> QED BY <1>2, <2>1, <2>3, <2>4 DEF ScalerKernel
<1>9. Passed(net, flow', price, k')
  <2> SUFFICES ASSUME NEW v \in net.nodes, NEW i \in 1 .. k.cursor[v]
               PROVE  ~Falls(net, flow', price, k.fixed, net.outgoing[v][i])
    BY <1>2, <1>8 DEF Passed
  <2>1. k.cursor[v] \in 0 .. Len(net.outgoing[v]) /\ ~Falls(net, flow, price, k.fixed, net.outgoing[v][i])
    BY <1>2 DEF Passed
  <2>2. net.outgoing[v] \in Seq(Arcs(net)) BY ProblemsAssumption DEF IsNetwork
  <2>3. net.outgoing[v][i] \in Arcs(net) BY <2>1, <2>2
  <2> QED BY <1>7, <2>1, <2>3
<1>10. Ranked(net, flow', price, k') BY <1>2, <1>7, <1>8, WalksNowhere DEF Ranked, Descends
<1> QED BY <1>1, <1>2, <1>3, <1>6, <1>7, <1>8, <1>9, <1>10 DEF ScalerNext, ScalerKeeps, ScalerPhases

\* Edges at the bound that their reduced cost asks for have no arc that costs below none.
LEMMA ComplementaryIsShut ==
    ASSUME net \in Problems, alg \in CostScalers, Accounts(net, flow, excess), price \in [net.nodes -> Int],
           NEW a \in Arcs(net), Complementary(a[1]), Residual(net, flow, a) > 0
    PROVE  Slack(net, price, a) >= 0
<1> DEFINE f == <<a[1], "forward">>
<1>1. /\ a = <<a[1], a[2]>> /\ a[1] \in Edges(net) /\ a[2] \in {"forward", "reverse"}
      /\ f \in Arcs(net) /\ f[1] = a[1]
  BY ArcEnds DEF Arcs
<1>2. /\ flow[a[1]] \in Int /\ net.lower[a[1]] \in Int /\ net.capacity[a[1]] \in Int
  BY <1>1, ProblemTypes DEF Accounts
<1>3. ReducedCost(price, f) = Slack(net, price, f) /\ Slack(net, price, f) \in Int
  BY <1>1, ScalersCost, SlackOpposite
<1>4. \/ flow[a[1]] = net.lower[a[1]] /\ ReducedCost(price, f) >= 0
      \/ flow[a[1]] = net.capacity[a[1]] /\ ReducedCost(price, f) <= 0
  BY DEF Complementary
<1>5. a # f => Slack(net, price, a) = -Slack(net, price, f) BY <1>1, SlackOpposite
<1>6. a[2] = "forward" <=> a = f BY <1>1
<1>7. CASE a[2] = "forward" BY <1>2, <1>3, <1>4, <1>6, <1>7 DEF Residual
<1>8. CASE a[2] = "reverse"
  <2>1. flow[a[1]] # net.lower[a[1]] BY <1>2, <1>8 DEF Residual
  <2>2. a # f BY <1>6, <1>8
  <2> HIDE DEF f
  <2> QED BY <1>3, <1>4, <1>5, <2>1, <2>2
<1> QED BY <1>1, <1>7, <1>8

\* Filling leaves no arc that falls, whether or not the kept edges count.
LEMMA FillKeeps ==
    ASSUME net \in Problems, alg \in CostScalers, ScalerNow, NEW error \in Nat \ {0}, Fill(error)
    PROVE  ScalerNext
<1> DEFINE x == Saturated(1, Kept)
           fixed == IF Routable(x, Kept) THEN Kept ELSE {}
<1>1. /\ flow' = x.flow /\ excess' = x.excess
      /\ k' = [Kernel(net) EXCEPT !.scale = error, !.queue = Active(x.excess), !.fixed = fixed]
      /\ phase' \in {"refine", "failed"} /\ UNCHANGED price
  BY DEF Fill
<1>2. Accounts(net, flow, excess) /\ price \in [net.nodes -> Int] /\ ScalerKernel(net, k)
      /\ (alg # "arc-fixing" => k.fixed = {})
  BY DEF ScalerNow, ScalerKeeps
<1>3. /\ x \in States(net)
      /\ \A a \in Arcs(net) :
            /\ Shut(1, x.flow, Kept, a)
            /\ a[1] \in Kept => Residual(net, x.flow, a) = Residual(net, flow, a)
  BY <1>2, SaturatedFills
<1>4. fixed \subseteq k.fixed BY DEF Kept
<1> HIDE DEF x, fixed
<1>5. Accounts(net, flow', excess') BY <1>1, <1>3 DEF States
<1>6. ASSUME NEW a \in Arcs(net), Residual(net, flow', a) > 0 PROVE Slack(net, price, a) \in Int /\ Slack(net, price, a) >= 0
  <2>1. Slack(net, price, a) \in Int BY <1>2, SlackOpposite
  <2>2. CASE a[1] \notin Kept BY <1>1, <1>3, <1>5, <1>6, <2>1, <2>2, ResidualIsNat, ScalersCost DEF Shut
  <2>3. CASE a[1] \in Kept BY <1>1, <1>2, <1>3, <1>6, <2>1, <2>3, ComplementaryIsShut DEF Kept
  <2> QED BY <2>2, <2>3
<1>7. \A b \in Arcs(net) : ~Falls(net, flow', price, k'.fixed, b) BY <1>6 DEF Falls
<1>8. NearOptimal(net, flow', price, k'.fixed, error) BY <1>6 DEF NearOptimal
<1>9. /\ ScalerKernel(net, k') /\ k'.scale = error /\ k'.path = <<>> /\ k'.fixed = fixed
      /\ k'.cursor = [v \in net.nodes |-> 0]
  <2>1. Active(x.excess) \in Seq(net.nodes) BY ActiveIsQueue
  <2>2. k' = [scale |-> error, node |-> 0, path |-> <<>>, cursor |-> [v \in net.nodes |-> 0],
              level |-> <<>>, target |-> 0, sent |-> 0, queue |-> Active(x.excess), fixed |-> fixed]
    BY <1>1 DEF Kernel
  <2>3. fixed \in SUBSET Edges(net) /\ <<>> \in Seq(Arcs(net)) /\ [v \in net.nodes |-> 0] \in [net.nodes -> Nat]
    BY <1>2, <1>4 DEF ScalerKernel
  <2> QED BY <2>1, <2>2, <2>3 DEF ScalerKernel
<1>10. Passed(net, flow', price, k') BY <1>9, ProblemsAssumption DEF Passed, IsNetwork
<1>11. Ranked(net, flow', price, k')
  <2> DEFINE rank == [v \in net.nodes |-> 0]
  <2>1. Descends(net, flow', price, k'.fixed, rank) BY <1>7 DEF Descends
  <2>2. WalksDown(net, flow', price, k'.fixed, k'.path, rank) BY <1>9, WalksNowhere
  <2> HIDE DEF rank
  <2> QED BY <2>1, <2>2 DEF Ranked
<1> QED BY <1>1, <1>2, <1>4, <1>5, <1>8, <1>9, <1>10, <1>11 DEF ScalerNext, ScalerKeeps, ScalerPhases

\* The divergence of a flow is an integer.
LEMMA DivergenceIsInt ==
    ASSUME NEW g \in Problems, NEW fl, WithinBounds(g, fl), NEW v
    PROVE  Divergence(g, fl, v) \in Int
<1> DEFINE Out == {e \in Edges(g) : g.from[e] = v}
           In == {e \in Edges(g) : g.to[e] = v}
<1>1. /\ IsFiniteSet(Edges(g)) /\ \A e \in Edges(g) : fl[e] \in Int BY ProblemTypes
<1>2. Out \subseteq Edges(g) /\ In \subseteq Edges(g) OBVIOUS
<1>3. Divergence(g, fl, v) = Total(fl, Out) - Total(fl, In) BY DivergenceIsTotals
<1> HIDE DEF Out, In
<1>4. IsFiniteSet(Out) /\ IsFiniteSet(In) BY <1>1, <1>2, FS_Subset
<1>5. Total(fl, Out) \in Int /\ Total(fl, In) \in Int BY <1>1, <1>2, <1>4, TotalType
<1> QED BY <1>3, <1>5

\* The first kernel has the types of every later one.
LEMMA FirstKernel == ASSUME NEW g \in Problems PROVE ScalerKernel(g, Kernel(g))
<1>1. <<>> \in Seq(Arcs(g)) /\ <<>> \in Seq(g.nodes) /\ [v \in g.nodes |-> 0] \in [g.nodes -> Nat] OBVIOUS
<1> QED BY <1>1 DEF ScalerKernel, Kernel

\* Nothing has been scaled at first.
LEMMA ScalerStarts == ASSUME Init PROVE ScalerNow
<1>1. /\ net \in Problems /\ flow = net.lower
      /\ excess = [v \in net.nodes |-> net.required[v] - Divergence(net, flow, v)]
      /\ price = [v \in net.nodes |-> 0] /\ phase = "start" /\ k = Kernel(net)
  BY DEF Init
<1>2. /\ IsNetwork(net) /\ net.required \in [net.nodes -> Int] BY <1>1, ProblemsAssumption
<1>3. flow \in [Edges(net) -> Int] /\ WithinBounds(net, flow) BY <1>1, <1>2 DEF IsNetwork, WithinBounds
<1>4. \A v \in net.nodes : Divergence(net, flow, v) \in Int BY <1>1, <1>3, DivergenceIsInt
<1>5. Accounts(net, flow, excess)
  <2>1. \A v \in net.nodes : net.required[v] \in Int /\ excess[v] = net.required[v] - Divergence(net, flow, v)
    BY <1>1, <1>2
  <2>2. \A v \in net.nodes : excess[v] \in Int /\ Divergence(net, flow, v) + excess[v] = net.required[v]
    BY <1>4, <2>1
  <2>3. excess \in [net.nodes -> Int] BY <1>1, <2>2
  <2> QED BY <1>3, <2>2, <2>3 DEF Accounts
<1>6. ScalerKernel(net, k) /\ k.fixed = {} /\ k.path = <<>> BY <1>1, FirstKernel DEF Kernel
<1>7. price \in [net.nodes -> Int] BY <1>1
<1> QED BY <1>1, <1>5, <1>6, <1>7 DEF ScalerNow, ScalerKeeps, ScalerPhases

\* The costs are scaled, and the invariant of the cost scalers holds.
LEMMA BeginKeeps ==
    ASSUME net \in Problems, ScalerNow, BeginCostScaling PROVE ScalerNext
<1>1. /\ alg \in CostScalers /\ phase = "start"
      /\ Accounts(net, flow, excess) /\ price = [v \in net.nodes |-> 0] /\ k = Kernel(net)
      /\ price \in [net.nodes -> Int] /\ ScalerKernel(net, k)
  BY DEF BeginCostScaling, ScalerNow, ScalerKeeps
<1>2. CASE Feasible[net] = {}
  BY <1>1, <1>2 DEF BeginCostScaling, Stop, ScalerNow, ScalerNext, ScalerKeeps, ScalerPhases
<1>3. CASE Feasible[net] # {}
  <2>1. /\ flow' \in Feasible[net] /\ excess' = [v \in net.nodes |-> 0]
        /\ k' = [k EXCEPT !.scale = InitialError] /\ phase' = "scale" /\ UNCHANGED price
    BY <1>3 DEF BeginCostScaling
  <2>2. /\ WithinBounds(net, flow') /\ DOMAIN flow' = Edges(net) /\ flow' = [e \in Edges(net) |-> flow'[e]]
        /\ \A v \in net.nodes : Divergence(net, flow', v) = net.required[v]
    BY <2>1 DEF Feasible, FlowsWithin
  <2>3. flow' \in [Edges(net) -> Int] BY <2>2, ProblemTypes
  <2>4. Accounts(net, flow', excess') BY <2>1, <2>2, <2>3, ProblemsAssumption DEF Accounts
  <2>5. /\ InitialError \in Nat \ {0}
        /\ \A a \in Arcs(net) : ArcCost(net, a) * (N + 1) \in Int
                                /\ ArcCost(net, a) * (N + 1) <= InitialError
    BY FirstError
  <2>6. ScalerKernel(net, k') /\ k'.scale = InitialError /\ k'.path = <<>> /\ k'.fixed = {}
    BY <1>1, <2>1, <2>5 DEF ScalerKernel, Kernel
  <2>7. NearOptimal(net, flow', price', k'.fixed, k'.scale)
    <3> SUFFICES ASSUME NEW a \in Arcs(net) PROVE Slack(net, price, a) >= -InitialError
      BY <2>1, <2>6 DEF NearOptimal
    <3> DEFINE b == <<a[1], IF a[2] = "forward" THEN "reverse" ELSE "forward">>
               c(z) == ArcCost(net, z) * (N + 1)
    <3>1. b \in Arcs(net) /\ b[1] = a[1] /\ b # a BY ArcEnds DEF Arcs
    <3>2. Slack(net, price, b) = -Slack(net, price, a) /\ Slack(net, price, a) \in Int
      BY <1>1, <3>1, SlackOpposite
    <3>3. Slack(net, price, b) = c(b)
      <4> DEFINE u == ArcFrom(net, b)
                 w == ArcTo(net, b)
      <4>1. u \in net.nodes /\ w \in net.nodes BY <3>1, ArcEnds
      <4>2. Slack(net, price, b) = c(b) - price[u] + price[w] BY DEF Slack, N
      <4>3. c(b) \in Int BY <2>5, <3>1
      <4> HIDE DEF c, u, w
      <4> QED BY <1>1, <4>1, <4>2, <4>3
    <3>4. c(b) \in Int /\ c(b) <= InitialError BY <2>5, <3>1
    <3> HIDE DEF b, c
    <3> QED BY <2>5, <3>2, <3>3, <3>4
  <2> QED BY <1>1, <2>1, <2>4, <2>6, <2>7 DEF ScalerNext, ScalerKeeps, ScalerPhases
<1> QED BY <1>2, <1>3

\* A refinement starts with what it is to keep.
LEMMA StartRefineKeeps ==
    ASSUME net \in Problems, ScalerNow, StartRefine PROVE ScalerNext
<1>1. /\ alg \in CostScalers /\ phase = "scale"
      /\ Accounts(net, flow, excess) /\ NearOptimal(net, flow, price, k.fixed, k.scale)
      /\ price \in [net.nodes -> Int] /\ ScalerKernel(net, k) /\ flow \in [Edges(net) -> Int]
      /\ alg # "arc-fixing" => k.fixed = {}
      /\ alg \notin AlongPaths => k.path = <<>>
  BY DEF StartRefine, ScalerNow, ScalerKeeps, Accounts
<1>2. CASE k.scale = 1 BY <1>1, <1>2 DEF StartRefine, Stop, ScalerNext, ScalerKeeps, ScalerPhases
<1>3. CASE k.scale # 1
  <2> DEFINE error == k.scale \div 2
             x == Adjusted(error)
  <2>1. error \in Nat \ {0} /\ error \in Int BY <1>1, <1>3 DEF ScalerKernel
  <2>2. IF alg = "price-refinement" /\ Relaxed(error, x) = x
        THEN /\ price' = [v \in net.nodes |-> price[v] + x[v]]
             /\ k' = [k EXCEPT !.scale = error]
             /\ phase' \in {"scale", "failed"}
             /\ UNCHANGED <<flow, excess>>
        ELSE Fill(error)
    BY <1>1, <1>3 DEF StartRefine
  <2>3. x \in [net.nodes -> Int] BY <1>1, <2>1, AdjustedType
  <2> HIDE DEF x, error
  <2>4. CASE alg = "price-refinement" /\ Relaxed(error, x) = x
    <3>1. /\ price' = [v \in net.nodes |-> price[v] + x[v]]
          /\ k' = [k EXCEPT !.scale = error]
          /\ phase' \in {"scale", "failed"} /\ UNCHANGED <<flow, excess>>
      BY <2>2, <2>4
    <3>2. price' \in [net.nodes -> Int] /\ NearOptimal(net, flow, price', {}, error)
      BY <1>1, <2>1, <2>3, <2>4, <3>1, SettledPrices
    <3>3. /\ ScalerKernel(net, k') /\ k'.scale = error /\ k'.fixed = {} /\ k'.path = k.path
      BY <1>1, <2>1, <2>4, <3>1 DEF ScalerKernel
    <3> QED BY <1>1, <3>1, <3>2, <3>3 DEF ScalerNext, ScalerKeeps, ScalerPhases
  <2>5. CASE ~(alg = "price-refinement" /\ Relaxed(error, x) = x) BY <1>1, <2>1, <2>2, <2>5, FillKeeps
  <2> QED BY <2>4, <2>5
<1> QED BY <1>2, <1>3

\* What a refinement leaves behind when it ends.
LEMMA FinishRefineKeeps ==
    ASSUME net \in Problems, ScalerNow, FinishRefine PROVE ScalerNext
<1>1. /\ alg \in CostScalers /\ phase = "refine"
      /\ Accounts(net, flow, excess) /\ NearOptimal(net, flow, price, k.fixed, k.scale)
      /\ price \in [net.nodes -> Int] /\ ScalerKernel(net, k)
      /\ alg # "arc-fixing" => k.fixed = {}
  BY DEF FinishRefine, ScalerNow, ScalerKeeps
<1>2. k.scale \in Nat \ {0} /\ k.fixed \in SUBSET Edges(net) BY <1>1 DEF ScalerKernel
<1>3. CASE Kept # k.fixed BY <1>1, <1>2, <1>3, FillKeeps DEF FinishRefine
<1>4. CASE Kept = k.fixed
  <2> DEFINE fixed == IF alg = "arc-fixing" THEN k.fixed \cup Fixable ELSE {}
  <2>1. /\ k' = [Kernel(net) EXCEPT !.scale = k.scale, !.fixed = fixed]
        /\ phase' \in {"scale", "failed"} /\ UNCHANGED <<flow, excess, price>>
    BY <1>4 DEF FinishRefine
  <2>2. fixed \in SUBSET Edges(net) /\ k.fixed \subseteq fixed /\ (alg # "arc-fixing" => fixed = {})
    BY <1>1, <1>2 DEF Fixable
  <2> HIDE DEF fixed
  <2>3. /\ ScalerKernel(net, k') /\ k'.scale = k.scale /\ k'.fixed = fixed /\ k'.path = <<>>
    BY <1>2, <2>1, <2>2, FirstKernel DEF Kernel, ScalerKernel
  <2>4. NearOptimal(net, flow, price, fixed, k.scale) BY <1>1, <2>2 DEF NearOptimal
  <2> QED BY <1>1, <2>1, <2>2, <2>3, <2>4 DEF ScalerNext, ScalerKeeps, ScalerPhases
<1> QED BY <1>3, <1>4

\* Every step of a cost scaler keeps its invariant.
LEMMA ScalerSteps ==
    ASSUME net \in Problems, alg \in CostScalers, ScalerNow, Next PROVE ScalerNext
<1>1. CASE Certify BY <1>1 DEF Certify, Stop, ScalerNow, ScalerNext, ScalerKeeps, ScalerPhases
<1>2. CASE ShortestPathStep
  BY <1>2 DEF ShortestPathStep, BeginSuccessive, RouteImbalance, NothingToRoute, BeginScale, LevelOrTighten,
              AdvanceBlock, RetreatBlock, AugmentBlock, CostScalers, Successive, Scaling
<1>3. CASE CycleCancelingStep
  BY <1>3 DEF CycleCancelingStep, BeginImproving, CancelNegativeCycle, CancelMinimumMean, SelectEdge,
              CorrectEdge, CostScalers, Improving
<1>4. CASE CostScalingStep
  BY <1>4, BeginKeeps, StartRefineKeeps, PushKeeps, RelabelKeeps, TakeRootKeeps, ExtendPathKeeps,
     RelabelPathEndKeeps, PushPathKeeps, FinishRefineKeeps DEF CostScalingStep
<1> QED BY <1>1, <1>2, <1>3, <1>4 DEF Next

\* And the invariant accounts for the flow.
LEMMA ScalersKeep ==
    ASSUME net \in Problems, alg \in CostScalers, ScalerNow PROVE SolverKeepsFlow
<1>1. FlowAccounted BY DEF FlowAccounted, ScalerNow, ScalerKeeps, Accounts
<1>2. PricesHold
  BY ScalersCost DEF CostScalers, Scaling, ScalerNow, ScalerKeeps, Refused, NearOptimal, OptimalUpTo, Loose,
     PricesHold
<1>3. PassedArcsStayShut
  <2> SUFFICES ASSUME NEW v \in net.nodes, NEW i \in 1 .. k.cursor[v]
               PROVE  phase # "block" /\ (phase = "refine" => ~Falling(net.outgoing[v][i]))
    BY DEF PassedArcsStayShut
  <2>1. phase # "block" BY DEF ScalerNow, ScalerKeeps, ScalerPhases
  <2>2. ASSUME phase = "refine" PROVE ~Falling(net.outgoing[v][i])
    <3>1. k.cursor[v] \in 0 .. Len(net.outgoing[v]) /\ ~Falls(net, flow, price, k.fixed, net.outgoing[v][i])
      BY <2>2 DEF ScalerNow, ScalerKeeps, Passed
    <3>2. net.outgoing[v] \in Seq(Arcs(net)) BY ProblemsAssumption DEF IsNetwork
    <3>3. net.outgoing[v][i] \in Arcs(net) BY <3>1, <3>2
    <3> QED BY <3>1, <3>3, FallingIs
  <2> QED BY <2>1, <2>2
<1> QED BY <1>1, <1>2, <1>3 DEF SolverKeepsFlow

ScalerInv == net \in Problems /\ (alg \in CostScalers => ScalerKeeps(net, alg, flow, excess, price, phase, k))

\* Cost scaling (cost_scaling.rs), whichever of its five variants runs and on whatever
\* problem, keeps the flow within its bounds and accounted for, is near optimal up to the
\* scale from its first refinement on, and never passes an arc that still falls: through
\* refinements of prices alone, fixed edges set free again, and paths that step back.
THEOREM CostScalersKeepFlow == Spec => [](alg \in CostScalers => SolverKeepsFlow)
<1>1. Init => ScalerInv BY ScalerStarts DEF ScalerInv, ScalerNow, Init
<1>2. ScalerInv /\ [Next]_vars => ScalerInv'
  <2> SUFFICES ASSUME ScalerInv, [Next]_vars PROVE ScalerInv' OBVIOUS
  <2>1. CASE Next BY <2>1, OnlyCertifyIsDone, ScalerSteps DEF ScalerInv, ScalerNow, ScalerNext
  <2>2. CASE UNCHANGED vars BY <2>2 DEF vars, ScalerInv
  <2> QED BY <2>1, <2>2
<1>3. ScalerInv => (alg \in CostScalers => SolverKeepsFlow) BY ScalersKeep DEF ScalerInv, ScalerNow
<1> QED BY <1>1, <1>2, <1>3, PTL DEF Spec

(***************************************************************************)
(* An error of one under costs multiplied by more than the number of nodes  *)
(* is none: some residue of that multiplier is the residue of no price, and *)
(* counting whole multiples from there rounds the error away.               *)
(***************************************************************************)
\* Prices with an error of one round to potentials with none.
LEMMA ErrorOfOneIsNone ==
    ASSUME NEW g \in Problems, NEW fl, NEW p \in [g.nodes -> Int], NearOptimal(g, fl, p, {}, 1)
    PROVE  \E h : Proves(g, fl, h)
<1> DEFINE n == Cardinality(g.nodes)
           m == n + 1
<1>1. n \in Nat /\ IsFiniteSet(g.nodes) BY ProblemsAssumption, FS_CardinalityType DEF IsNetwork
<1>2. m \in Nat \ {0} /\ m = n + 1 BY <1>1
<1> HIDE DEF m
<1>3. PICK t \in Int : \E pot \in [g.nodes -> Int] : \E r \in [g.nodes -> 1 .. n] :
               \A v \in g.nodes : p[v] = m * pot[v] + r[v] + t
  <2>1. n = Cardinality(g.nodes) OBVIOUS
  <2> HIDE DEF n
  <2> QED BY <1>1, <2>1, Rounded, SMTT(30) DEF m
<1>4. PICK pot \in [g.nodes -> Int] : \E r \in [g.nodes -> 1 .. n] :
               \A v \in g.nodes : p[v] = m * pot[v] + r[v] + t
  BY <1>3
<1>5. PICK r \in [g.nodes -> 1 .. n] : \A v \in g.nodes : p[v] = m * pot[v] + r[v] + t BY <1>4
<1> DEFINE h == [v \in g.nodes |-> -pot[v]]
<1>6. ASSUME NEW a \in Arcs(g), Residual(g, fl, a) > 0
      PROVE  ArcCost(g, a) + h[ArcFrom(g, a)] - h[ArcTo(g, a)] >= 0
  <2> DEFINE c == ArcCost(g, a)
             u == ArcFrom(g, a)
             w == ArcTo(g, a)
             x == pot[u]
             y == pot[w]
  <2>1. u \in g.nodes /\ w \in g.nodes /\ c \in Int BY ArcEnds
  <2>2. Slack(g, p, a) >= -1 BY <1>6 DEF NearOptimal
  <2>3. Slack(g, p, a) = c * m - p[u] + p[w] BY DEF Slack, m
  <2>4. /\ x \in Int /\ y \in Int /\ r[u] \in 1 .. n /\ r[w] \in 1 .. n
        /\ p[u] = m * x + r[u] + t /\ p[w] = m * y + r[w] + t
    BY <1>5, <2>1
  <2>5. h[u] = -x /\ h[w] = -y BY <2>1
  <2> HIDE DEF c, u, w, x, y, h, n
  <2>6. /\ m * x \in Int /\ m * y \in Int /\ c * m \in Int /\ m * (y + c) = m * y + c * m BY <1>2, <2>1, <2>4
  <2>7. m * x <= m * (y + c) + (m - 1) BY <1>1, <1>2, <2>2, <2>3, <2>4, <2>6
  <2>8. x <= y + c
    <3> DEFINE z == y + c
    <3>1. z \in Int /\ m * x <= m * z + (m - 1) BY <2>1, <2>4, <2>7
    <3> HIDE DEF z
    <3>2. x <= z BY <1>2, <2>4, <3>1, WholeMultiples
    <3> QED BY <3>2 DEF z
  <2>9. c + h[u] - h[w] >= 0 BY <2>1, <2>4, <2>5, <2>8
  <2> QED BY <2>9 DEF c, u, w
<1>7. h \in [g.nodes -> Int] OBVIOUS
<1> HIDE DEF h
<1>8. Proves(g, fl, h) BY <1>6, <1>7 DEF Proves
<1> QED BY <1>8

(***************************************************************************)
(* With the last error of one the flow is a cheapest one.                  *)
(***************************************************************************)

\* What holds besides between refinements: nothing is left to send, and the edges left
\* alone cost what they should, so that the flow is near optimal with them too.
ScalerEnds(g, fl, ex, p, ph, kk) ==
    /\ ph \in {"scale", "certify", "done"} =>
           (\A v \in g.nodes : ex[v] = 0) /\ NearOptimal(g, fl, p, {}, kk.scale)
    /\ ph \in {"certify", "done"} => kk.scale = 1
    /\ ph = "infeasible" => Feasible[g] = {}
    /\ ph \notin {"start", "infeasible"} => Feasible[g] # {}

EndsNow == ScalerEnds(net, flow, excess, price, phase, k)
EndsNext == ScalerEnds(net, flow', excess', price', phase', k')

\* A refinement that ends has nothing left to send and is near optimal on every edge.
LEMMA FinishEnds ==
    ASSUME net \in Problems, ScalerNow, EndsNow, FinishRefine PROVE EndsNext
<1>1. /\ alg \in CostScalers /\ phase = "refine" /\ Feasible[net] # {}
      /\ Accounts(net, flow, excess) /\ NearOptimal(net, flow, price, k.fixed, k.scale)
      /\ price \in [net.nodes -> Int] /\ ScalerKernel(net, k) /\ (alg # "arc-fixing" => k.fixed = {})
  BY DEF FinishRefine, ScalerNow, ScalerKeeps, EndsNow, ScalerEnds
<1>2. CASE Kept # k.fixed BY <1>1, <1>2 DEF FinishRefine, Fill, EndsNext, ScalerEnds
<1>3. CASE Kept = k.fixed
  <2> DEFINE good == /\ \A v \in net.nodes : excess[v] = 0
                     /\ OptimalUpTo(flow, price, k.fixed, k.scale)
                     /\ \A e \in k.fixed : Complementary(e)
  <2>1. /\ k'.scale = k.scale /\ phase' = IF good THEN "scale" ELSE "failed"
        /\ UNCHANGED <<flow, excess, price>>
    BY <1>3 DEF FinishRefine, Kernel
  <2>2. CASE ~good BY <1>1, <2>1, <2>2 DEF EndsNext, ScalerEnds
  <2>3. CASE good
    <3>1. NearOptimal(net, flow, price, {}, k.scale)
      <4> SUFFICES ASSUME NEW a \in Arcs(net), Residual(net, flow, a) > 0
                   PROVE  Slack(net, price, a) >= -k.scale
        BY DEF NearOptimal
      <4>1. CASE a[1] \in k.fixed
        <5>1. Slack(net, price, a) >= 0 BY <1>1, <2>3, <4>1, ComplementaryIsShut
        <5>2. Slack(net, price, a) \in Int /\ k.scale \in Nat BY <1>1, SlackOpposite DEF ScalerKernel
        <5> QED BY <5>1, <5>2
      <4>2. CASE a[1] \notin k.fixed BY <1>1, <4>2 DEF NearOptimal
      <4> QED BY <4>1, <4>2
    <3> QED BY <1>1, <2>1, <2>3, <3>1 DEF EndsNext, ScalerEnds
  <2> QED BY <2>2, <2>3
<1> QED BY <1>2, <1>3

\* The next one starts, or the last error was one.
LEMMA StartRefineEnds ==
    ASSUME net \in Problems, ScalerNow, EndsNow, StartRefine PROVE EndsNext
<1>1. /\ alg \in CostScalers /\ phase = "scale" /\ Feasible[net] # {}
      /\ \A v \in net.nodes : excess[v] = 0
      /\ NearOptimal(net, flow, price, {}, k.scale) /\ (alg # "arc-fixing" => k.fixed = {})
      /\ ScalerKernel(net, k)
  BY DEF StartRefine, ScalerNow, ScalerKeeps, EndsNow, ScalerEnds
<1>2. CASE k.scale = 1 BY <1>1, <1>2 DEF StartRefine, Stop, EndsNext, ScalerEnds
<1>3. CASE phase' \in {"refine", "failed"} BY <1>1, <1>3 DEF EndsNext, ScalerEnds
<1>4. CASE k.scale # 1 /\ phase' \notin {"refine", "failed"}
  <2> DEFINE error == k.scale \div 2
             x == Adjusted(error)
  <2>1. ~Fill(error) BY <1>4 DEF Fill
  <2>2. /\ k' = [k EXCEPT !.scale = error] /\ UNCHANGED excess
        /\ phase' \in {"scale", "failed"} /\ alg = "price-refinement"
    BY <1>1, <1>4, <2>1 DEF StartRefine
  <2>3. ScalerNext BY StartRefineKeeps
  <2> HIDE DEF error
  <2>4. phase' = "scale" /\ k'.fixed = {} BY <1>1, <1>4, <2>2 DEF ScalerKernel
  <2>5. NearOptimal(net, flow', price', {}, k'.scale) BY <2>3, <2>4 DEF ScalerNext, ScalerKeeps
  <2> QED BY <1>1, <2>2, <2>4, <2>5 DEF EndsNext, ScalerEnds
<1> QED BY <1>2, <1>3, <1>4

\* At first there is a feasible flow, or the solver says that there is none.
LEMMA BeginEnds ==
    ASSUME net \in Problems, ScalerNow, EndsNow, BeginCostScaling PROVE EndsNext
<1>1. CASE Feasible[net] = {} BY <1>1 DEF BeginCostScaling, Stop, EndsNext, ScalerEnds
<1>2. CASE Feasible[net] # {}
  <2>1. phase' = "scale" /\ excess' = [v \in net.nodes |-> 0] /\ k' = [k EXCEPT !.scale = InitialError]
    BY <1>2 DEF BeginCostScaling
  <2>2. ScalerNext BY BeginKeeps
  <2>3. k'.fixed = {} BY <2>1 DEF BeginCostScaling, ScalerNow, ScalerKeeps, Kernel
  <2>4. NearOptimal(net, flow', price', {}, k'.scale) BY <2>1, <2>2, <2>3 DEF ScalerNext, ScalerKeeps
  <2> QED BY <1>2, <2>1, <2>4 DEF EndsNext, ScalerEnds
<1> QED BY <1>1, <1>2

\* Every step of a cost scaler keeps what holds besides.
LEMMA ScalerStepsEnd ==
    ASSUME net \in Problems, alg \in CostScalers, ScalerNow, EndsNow, Next PROVE EndsNext
<1>1. CASE Certify BY <1>1 DEF Certify, Stop, EndsNow, EndsNext, ScalerEnds
<1>2. CASE ShortestPathStep
  BY <1>2 DEF ShortestPathStep, BeginSuccessive, RouteImbalance, NothingToRoute, BeginScale, LevelOrTighten,
              AdvanceBlock, RetreatBlock, AugmentBlock, CostScalers, Successive, Scaling
<1>3. CASE CycleCancelingStep
  BY <1>3 DEF CycleCancelingStep, BeginImproving, CancelNegativeCycle, CancelMinimumMean, SelectEdge,
              CorrectEdge, CostScalers, Improving
<1>4. CASE CostScalingStep
  BY <1>4, BeginEnds, StartRefineEnds, FinishEnds DEF EndsNow, EndsNext, ScalerEnds, Push, Relabel, TakeRoot,
     ExtendPath, RelabelPathEnd, PushPath, Discharging, Searching, Stop, CostScalingStep
<1> QED BY <1>1, <1>2, <1>3, <1>4 DEF Next

\* The cost of a flow is an integer.
LEMMA CostIsInt ==
    ASSUME NEW g \in Problems, NEW fl, WithinBounds(g, fl) PROVE FlowCost(g, fl) \in Int
<1> DEFINE f == Times(g.cost, fl, Edges(g))
<1>1. /\ IsFiniteSet(Edges(g)) /\ \A e \in Edges(g) : g.cost[e] \in Int /\ fl[e] \in Int BY ProblemTypes
<1>2. \A e \in Edges(g) : f[e] \in Int BY <1>1, TimesIsInt
<1>3. FlowCost(g, fl) = Total(f, Edges(g)) BY SumIsTotal DEF FlowCost, Times
<1> HIDE DEF f
<1> QED BY <1>1, <1>2, <1>3, TotalType

\* A flow that meets what is required is one of those the least cost is taken of.
LEMMA MeetsIsFeasible ==
    ASSUME NEW g \in Problems, NEW fl \in [Edges(g) -> Int], Meets(g, fl) PROVE fl \in Feasible[g]
<1> DEFINE caps == {0} \cup {g.capacity[e] : e \in Edges(g)}
           top == Finite!Max(caps)
<1>1. IsFiniteSet(Edges(g)) /\ g.capacity \in [Edges(g) -> Nat] /\ g.lower \in [Edges(g) -> Nat]
  BY ProblemsAssumption DEF IsNetwork
<1>2. IsFiniteSet(caps) /\ caps \subseteq Int /\ caps # {} /\ \A e \in Edges(g) : g.capacity[e] \in caps
  <2>1. IsFiniteSet({g.capacity[e] : e \in Edges(g)}) BY <1>1, FiniteImage
  <2>2. IsFiniteSet({g.capacity[e] : e \in Edges(g)} \cup {0}) BY <2>1, FS_AddElement
  <2>3. caps = {g.capacity[e] : e \in Edges(g)} \cup {0} OBVIOUS
  <2> QED BY <1>1, <2>2, <2>3
<1> HIDE DEF caps
<1>3. top \in Int /\ \A e \in Edges(g) : g.capacity[e] <= top BY <1>2, MaxIsGreatest
<1>4. WithinBounds(g, fl) /\ \A v \in g.nodes : Divergence(g, fl, v) = g.required[v] BY DEF Meets
<1> HIDE DEF top
<1>5. ASSUME NEW e \in Edges(g) PROVE fl[e] \in 0 .. top BY <1>1, <1>3, <1>4 DEF WithinBounds
<1>6. fl \in [Edges(g) -> 0 .. top] BY <1>5
<1> QED BY <1>4, <1>6 DEF Feasible, FlowsWithin, top, caps

\* What that says of a solver that has stopped.
LEMMA ScalersAreCheapest ==
    ASSUME net \in Problems, alg \in CostScalers, ScalerNow, EndsNow PROVE OnlyCheapest
<1>1. ASSUME phase \in {"certify", "done"}
      PROVE  (\A v \in net.nodes : excess[v] = 0) /\ FlowCost(net, flow) = LeastCost[net]
  <2>1. /\ \A v \in net.nodes : excess[v] = 0
        /\ NearOptimal(net, flow, price, {}, 1) /\ price \in [net.nodes -> Int]
        /\ Accounts(net, flow, excess) /\ Feasible[net] # {}
    BY <1>1 DEF ScalerNow, ScalerKeeps, EndsNow, ScalerEnds
  <2>2. Meets(net, flow) /\ flow \in [Edges(net) -> Int] BY <2>1, DivergenceIsInt DEF Accounts, Meets
  <2>3. PICK h : Proves(net, flow, h) BY <2>1, ErrorOfOneIsNone
  <2>4. ASSUME NEW f \in Feasible[net] PROVE FlowCost(net, f) \in Int /\ FlowCost(net, flow) <= FlowCost(net, f)
    BY <2>2, <2>3, NoFlowIsCheaper, CostIsInt DEF Feasible, FlowsWithin, Meets
  <2> DEFINE costs == {FlowCost(net, f) : f \in Feasible[net]}
             least == FlowCost(net, flow)
  <2>5. flow \in Feasible[net] BY <2>2, MeetsIsFeasible
  <2>6. least \in costs /\ \A x \in costs : x \in Int /\ least <= x BY <2>4, <2>5
  <2>7. LeastCost[net] = Finite!Min(costs) BY <2>1 DEF LeastCost
  <2> HIDE DEF costs, least
  <2>8. least = Finite!Min(costs) BY <2>6 DEF Finite!Min
  <2> QED BY <2>1, <2>7, <2>8 DEF least
<1>2. phase = "infeasible" <=> phase # "start" /\ net \notin DOMAIN LeastCost
  BY DEF LeastCost, EndsNow, ScalerEnds
<1>3. phase # "unbounded" BY DEF ScalerNow, ScalerKeeps, ScalerPhases
<1> QED BY <1>1, <1>2, <1>3 DEF OnlyCheapest

CheapestInv == ScalerInv /\ (alg \in CostScalers => EndsNow)

\* Cost scaling, whichever variant and problem, stops with a cheapest flow before any
\* certificate is computed (an error of one counts for nothing when costs were multiplied
\* by more than the number of nodes, cost_scaling.rs) and refuses exactly the problems
\* without a feasible flow.
THEOREM CostScalersStopCheapest == Spec => [](alg \in CostScalers => OnlyCheapest)
<1>1. Init => CheapestInv BY ScalerStarts DEF ScalerInv, CheapestInv, ScalerNow, Init, EndsNow, ScalerEnds
<1>2. CheapestInv /\ [Next]_vars => CheapestInv'
  <2> SUFFICES ASSUME CheapestInv, [Next]_vars PROVE CheapestInv' OBVIOUS
  <2>1. CASE Next
    BY <2>1, OnlyCertifyIsDone, ScalerSteps, ScalerStepsEnd DEF ScalerInv, CheapestInv, ScalerNow,
       ScalerNext, EndsNow, EndsNext
  <2>2. CASE UNCHANGED vars BY <2>2 DEF vars, ScalerInv, CheapestInv, EndsNow
  <2> QED BY <2>1, <2>2
<1>3. CheapestInv => (alg \in CostScalers => OnlyCheapest)
  BY ScalersAreCheapest DEF CheapestInv, ScalerInv, ScalerNow
<1> QED BY <1>1, <1>2, <1>3, PTL DEF Spec

(***************************************************************************)
(* Searches: the path by which one came to a node, and the nodes reached   *)
(* in the order of their discovery.                                        *)
(***************************************************************************)

\* One step back from the first node of a path.
StepBack(s, roots, w, path) ==
    LET u == IF path = <<>> THEN w ELSE From(path[1])
    IN IF u \in roots THEN path ELSE <<s.by[u]>> \o path

TracesWithin(D, n, seq, s, roots, w) == \A x \in D : \A i \in 1 .. n : StepBack(s, roots, w, x) \in D
TracingRun(h, n, D, base, seq, s, roots, w) ==
    /\ h \in [0 .. n -> D] /\ h[0] = base
    /\ \A i \in 1 .. n : h[i] = StepBack(s, roots, w, h[i - 1])

\* A path followed back as a run.
LEMMA TracedRuns ==
    ASSUME NEW s, NEW roots, NEW w, NEW D, NEW base, base \in D, NEW n \in Nat, NEW seq, DOMAIN seq = 1 .. n,
           TracesWithin(D, n, seq, s, roots, w),
           seq = [i \in 1 .. n |-> i], n = N, base = <<>>
    PROVE  \E h : TracingRun(h, n, D, base, seq, s, roots, w) /\ h[n] = PathTo(s, roots, w)
<1> DEFINE step(x, i) == StepBack(s, roots, w, x)
           op == [z \in D \X (1 .. n) |-> step(z[1], z[2])]
           raw(g, y) == IF y = {} THEN base ELSE
                          With(g[y \ {Seqs!Max(y)}], LAMBDA u : With(seq[Seqs!Max(y)],
                                                       LAMBDA b : StepBack(s, roots, w, u)))
           E(g) == g = [y \in SUBSET (1 .. n) |-> raw(g, y)]
           c == CHOOSE g : E(g)
<1>1. PathTo(s, roots, w) = c[1 .. n]
  <2>1. PathTo(s, roots, w) = Repeat(LAMBDA path : StepBack(s, roots, w, path), N, <<>>)
    BY DEF PathTo, StepBack
  <2>2. Repeat(LAMBDA path : StepBack(s, roots, w, path), n, base) = c[1 .. n]
    BY DEF Repeat, Folded, Seqs!FoldLeft, Seqs!MapThenFoldSet
  <2> QED BY <2>1, <2>2
<1>2. \A g, y : raw(g, y) = IF y = {} THEN base ELSE step(g[y \ {Finite!Max(y)}], Finite!Max(y))
  BY SeqsMax DEF With
<1>3. IsStep(op, D, 1 .. n) /\ \A x \in D : \A i \in 1 .. n : op[<<x, i>>] = step(x, i)
  BY DEF IsStep, TracesWithin
<1> HIDE DEF raw, step, op
<1>4. PICK g : g \in [SUBSET (1 .. n) -> D] /\ Follows(g, n, D, base, op) BY <1>3, FollowerExists
<1>5. E(g) BY <1>2, <1>3, <1>4, BeforeLast DEF Follows
<1>6. \A y \in SUBSET (1 .. n) : c[y] = raw(c, y) BY <1>5
<1> HIDE DEF c
<1>7. Follows(c, n, D, base, op) BY <1>2, <1>3, <1>6, BeforeLast DEF Follows
<1>8. PICK h : IsRun(h, n, D, base, op) /\ h[n] = c[1 .. n] BY <1>3, <1>7, FollowsIsRun
<1>9. \A i \in 1 .. n : i - 1 \in 0 .. n OBVIOUS
<1>10. \A i \in 1 .. n : h[i] = step(h[i - 1], i) BY <1>3, <1>8, <1>9 DEF IsRun
<1> QED BY <1>1, <1>8, <1>10 DEF IsRun, step, TracingRun

\* Nodes that a search has reached, each but the roots by an arc from another one of
\* them, and no set of them closed under these arcs.
Tree(g, V, by, roots) ==
    /\ V \in SUBSET g.nodes /\ V \ roots \subseteq DOMAIN by
    /\ \A x \in V \ roots : by[x] \in Arcs(g) /\ ArcTo(g, by[x]) = x /\ ArcFrom(g, by[x]) \in V
    /\ NoClosedSet(V, [x \in V |-> ArcFrom(g, by[x])], roots)

\* A path along such arcs from a root to a node, by way of the nodes c read backwards.
Tracks(g, V, by, roots, w, path, n, c) ==
    /\ n \in Nat /\ c \in [0 .. n -> V] /\ c[0] = w /\ c[n] \in roots
    /\ \A i, j \in 0 .. n : c[i] = c[j] => i = j
    /\ \A i \in 0 .. (n - 1) : c[i] \notin roots
    /\ path \in Seq(Arcs(g)) /\ Len(path) = n
    /\ \A i \in 1 .. n : /\ path[i] = by[c[n - i]] /\ ArcTo(g, path[i]) = c[n - i]
                         /\ ArcFrom(g, path[i]) = c[(n - i) + 1]

\* The path a search reports is one that its tree tracks.
LEMMA PathIsTracked ==
    ASSUME net \in Problems, NEW s, NEW roots, NEW V, Tree(net, V, s.by, roots), NEW w \in V
    PROVE  \E n, c : Tracks(net, V, s.by, roots, w, PathTo(s, roots, w), n, c)
<1> DEFINE up == [x \in V |-> From(s.by[x])]
<1>1. /\ V \in SUBSET net.nodes /\ NoClosedSet(V, up, roots)
      /\ \A x \in V : up[x] = From(s.by[x])
      /\ \A x \in V \ roots : s.by[x] \in Arcs(net) /\ To(s.by[x]) = x /\ From(s.by[x]) \in V
  BY DEF Tree, From, To
<1> HIDE DEF up
<1>2. PICK n, c : LeadsBack(V, up, roots, w, n, c) BY <1>1, WayBack
<1>3. /\ n \in Nat /\ c \in [0 .. n -> V] /\ c[0] = w /\ c[n] \in roots
      /\ \A i \in 0 .. (n - 1) : c[i] \notin roots /\ c[i + 1] = From(s.by[c[i]])
      /\ \A i, j \in 0 .. n : c[i] = c[j] => i = j
  BY <1>1, <1>2 DEF LeadsBack
<1>4. N \in Nat /\ n < N
  <2>1. IsFiniteSet(net.nodes) /\ N = Cardinality(net.nodes) BY ProblemsAssumption DEF N, IsNetwork
  <2>2. IsFiniteSet(V) /\ Cardinality(V) <= Cardinality(net.nodes) BY <1>1, <2>1, FS_Subset
  <2>3. Cardinality(V) \in Nat /\ n < Cardinality(V) BY <1>3, <2>2, WayIsShort
  <2>4. N \in Nat BY <2>1, FS_CardinalityType
  <2> QED BY <1>3, <2>1, <2>2, <2>3, <2>4
<1> DEFINE A == Arcs(net)
           part(m) == [j \in 1 .. m |-> s.by[c[m - j]]]
           D == {part(m) : m \in 0 .. n}
           m0(i) == IF i < n THEN i ELSE n
           seq == [i \in 1 .. N |-> i]
<1>5. ASSUME NEW m \in 0 .. n
      PROVE  /\ part(m) \in Seq(A) /\ Len(part(m)) = m
             /\ \A j \in 1 .. m : /\ part(m)[j] = s.by[c[m - j]] /\ To(part(m)[j]) = c[m - j]
                                  /\ From(part(m)[j]) = c[(m - j) + 1]
  <2>1. \A j \in 1 .. m : m - j \in 0 .. (n - 1) /\ m - j \in 0 .. n BY <1>3
  <2>2. \A j \in 1 .. m : c[m - j] \in V \ roots BY <1>3, <2>1
  <2>3. \A j \in 1 .. m : /\ part(m)[j] = s.by[c[m - j]] /\ s.by[c[m - j]] \in A
                          /\ To(part(m)[j]) = c[m - j] /\ From(part(m)[j]) = c[(m - j) + 1]
    BY <1>1, <1>3, <2>1, <2>2
  <2>4. part(m) \in [1 .. m -> A] BY <2>3
  <2>5. m \in Nat BY <1>3
  <2>6. part(m) \in Seq(A) /\ Len(part(m)) = m BY <2>4, <2>5
  <2> QED BY <2>3, <2>6
<1>6. part(0) = <<>> /\ <<>> \in D
  <2>1. 0 \in 0 .. n BY <1>3
  <2>2. part(0) = <<>> BY <1>5, <2>1
  <2> QED BY <2>1, <2>2
<1>7. ASSUME NEW m \in 0 .. n
      PROVE  StepBack(s, roots, w, part(m)) = part(IF m < n THEN m + 1 ELSE n)
  <2> DEFINE u == IF part(m) = <<>> THEN w ELSE From(part(m)[1])
  <2>1. u = c[m]
    <3>1. CASE m = 0 BY <1>3, <1>6, <3>1
    <3>2. CASE m # 0
      <4>1. 1 \in 1 .. m /\ (m - 1) + 1 = m /\ part(m) # <<>> BY <1>5, <3>2
      <4> QED BY <1>5, <4>1
    <3> QED BY <3>1, <3>2
  <2>2. CASE m = n
    <3>1. StepBack(s, roots, w, part(m)) = part(m) BY <1>3, <2>1, <2>2 DEF StepBack
    <3> HIDE DEF part
    <3> QED BY <1>3, <2>2, <3>1
  <2>3. CASE m < n
    <3>1. m \in 0 .. (n - 1) /\ m + 1 \in 0 .. n BY <1>3, <2>3
    <3>2. StepBack(s, roots, w, part(m)) = <<s.by[c[m]]>> \o part(m) BY <1>3, <2>1, <3>1 DEF StepBack
    <3> DEFINE p == part(m)
               q == part(m + 1)
               b == s.by[c[m]]
    <3>3. /\ p \in Seq(A) /\ Len(p) = m /\ q \in Seq(A) /\ Len(q) = m + 1
          /\ \A j \in 1 .. m : p[j] = s.by[c[m - j]]
          /\ \A j \in 1 .. (m + 1) : q[j] = s.by[c[(m + 1) - j]]
      BY <1>5, <3>1
    <3>4. b \in A BY <1>1, <1>3, <3>1
    <3> HIDE DEF p, q, b
    <3>5. <<b>> \o p \in Seq(A) /\ Len(<<b>> \o p) = m + 1 BY <3>3, <3>4
    <3>6. \A j \in 1 .. (m + 1) : (<<b>> \o p)[j] = q[j]
      <4> TAKE j \in 1 .. (m + 1)
      <4>1. (<<b>> \o p)[j] = IF j = 1 THEN b ELSE p[j - 1] BY <3>3, <3>4
      <4>2. CASE j = 1 BY <3>3, <4>1, <4>2 DEF b
      <4>3. CASE j # 1 BY <3>3, <4>1, <4>3
      <4> QED BY <4>2, <4>3
    <3>7. <<b>> \o p = q BY <3>3, <3>5, <3>6, SeqEqual
    <3>8. StepBack(s, roots, w, part(m)) = part(m + 1) BY <3>2, <3>7 DEF p, q, b
    <3> HIDE DEF part
    <3> QED BY <2>3, <3>8
  <2> QED BY <1>3, <2>2, <2>3
<1>8. TracesWithin(D, N, seq, s, roots, w)
  <2> SUFFICES ASSUME NEW m \in 0 .. n PROVE StepBack(s, roots, w, part(m)) \in D BY DEF TracesWithin
  <2>1. (IF m < n THEN m + 1 ELSE n) \in 0 .. n BY <1>3
  <2> HIDE DEF part
  <2> QED BY <1>7, <2>1
<1> HIDE DEF part
<1>9. PICK h : TracingRun(h, N, D, <<>>, seq, s, roots, w) /\ h[N] = PathTo(s, roots, w)
  BY <1>4, <1>6, <1>8, TracedRuns
<1>10. h[0] = <<>> /\ \A i \in 1 .. N : h[i] = StepBack(s, roots, w, h[i - 1]) BY <1>9 DEF TracingRun
<1>11. N \in {i \in 0 .. N : h[i] = part(m0(i))}
  <2> DEFINE good == {i \in 0 .. N : h[i] = part(m0(i))}
  <2>1. 0 \in good BY <1>3, <1>4, <1>6, <1>10
  <2>2. ASSUME NEW i \in 0 .. N, i > 0, i - 1 \in good PROVE i \in good
    <3>1. m0(i - 1) \in 0 .. n /\ (IF m0(i - 1) < n THEN m0(i - 1) + 1 ELSE n) = m0(i) BY <1>3, <1>4, <2>2
    <3>2. h[i] = StepBack(s, roots, w, part(m0(i - 1))) BY <1>10, <2>2
    <3> HIDE DEF m0
    <3> QED BY <1>7, <2>2, <3>1, <3>2
  <2> HIDE DEF good
  <2>3. 0 .. N \subseteq good BY <1>4, <2>1, <2>2, UpToInduction
  <2>4. N \in 0 .. N BY <1>4
  <2> QED BY <2>3, <2>4 DEF good
<1>12. PathTo(s, roots, w) = part(n) BY <1>3, <1>4, <1>9, <1>11
<1>13. n \in 0 .. n BY <1>3
<1>14. Tracks(net, V, s.by, roots, w, part(n), n, c) BY <1>3, <1>5, <1>13 DEF From, To, Tracks
<1> QED BY <1>12, <1>14

\* Flow goes along such a path from its root to its end.
LEMMA TrackedPath ==
    ASSUME NEW g, NEW V, NEW by, NEW roots, NEW w, NEW path, NEW n, NEW c,
           Tracks(g, V, by, roots, w, path, n, c), w \notin roots
    PROVE  /\ PathIn(g, path, n) /\ DOMAIN path = 1 .. n /\ n = Len(path) /\ path # <<>>
           /\ ArcFrom(g, path[1]) \in roots /\ ArcFrom(g, path[1]) = c[n] /\ ArcTo(g, path[n]) = w
<1>1. /\ n \in Nat /\ c \in [0 .. n -> V] /\ c[0] = w /\ c[n] \in roots
      /\ \A i, j \in 0 .. n : c[i] = c[j] => i = j
      /\ path \in Seq(Arcs(g)) /\ Len(path) = n
      /\ \A i \in 1 .. n : ArcTo(g, path[i]) = c[n - i] /\ ArcFrom(g, path[i]) = c[(n - i) + 1]
  BY DEF Tracks
<1>2. n > 0 BY <1>1
<1>3. path \in [1 .. n -> Arcs(g)] BY <1>1
<1>4. ASSUME NEW i \in 1 .. n, NEW j \in 1 .. n, path[i] = path[j] PROVE i = j BY <1>1, <1>4
<1>5. \A i \in 1 .. (n - 1) : ArcTo(g, path[i]) = ArcFrom(g, path[i + 1])
  <2> TAKE i \in 1 .. (n - 1)
  <2>1. i \in 1 .. n /\ i + 1 \in 1 .. n /\ (n - (i + 1)) + 1 = n - i BY <1>1
  <2> QED BY <1>1, <2>1
<1>6. 1 \in 1 .. n /\ n \in 1 .. n /\ (n - 1) + 1 = n /\ n - n = 0 BY <1>1, <1>2
<1>7. PathIn(g, path, n) BY <1>1, <1>2, <1>3, <1>4, <1>5 DEF PathIn, Listed
<1> QED BY <1>1, <1>2, <1>3, <1>6, <1>7

\* A node that is hung, or hung again, below one of those that all hang below.
LEMMA TreeRehung ==
    ASSUME NEW g, NEW V, NEW by, NEW roots, Tree(g, V, by, roots),
           NEW done, done \in SUBSET V, \A y \in V \ roots : ArcFrom(g, by[y]) \in done,
           NEW a \in Arcs(g), ArcFrom(g, a) \in done, NEW x \in g.nodes, x = ArcTo(g, a),
           x \notin done, x \notin roots
    PROVE  Tree(g, V \cup {x}, Put(by, x, a), roots)
<1> DEFINE W == V \cup {x}
           next == Put(by, x, a)
           up == [y \in V |-> ArcFrom(g, by[y])]
           new == [y \in W |-> ArcFrom(g, next[y])]
<1>1. /\ V \in SUBSET g.nodes /\ V \ roots \subseteq DOMAIN by /\ NoClosedSet(V, up, roots)
      /\ \A y \in V \ roots : by[y] \in Arcs(g) /\ ArcTo(g, by[y]) = y /\ ArcFrom(g, by[y]) \in V
  BY DEF Tree
<1>2. W \ roots \subseteq DOMAIN next /\ next[x] = a /\ \A y \in V \ roots : y # x => next[y] = by[y]
  BY <1>1 DEF Put
<1>3. \A y \in W \ roots : next[y] \in Arcs(g) /\ ArcTo(g, next[y]) = y /\ ArcFrom(g, next[y]) \in W
  BY <1>1, <1>2
<1>4. /\ \A y \in V : up[y] = ArcFrom(g, by[y])
      /\ \A y \in W : new[y] = ArcFrom(g, next[y])
  OBVIOUS
<1> HIDE DEF next, up, new
<1>5. ASSUME NEW S \in SUBSET (W \ roots), S # {}, \A y \in S : new[y] \in S PROVE FALSE
  <2> DEFINE T == S \cap done
  <2>1. \A y \in S : new[y] \in T BY <1>2, <1>4, <1>5
  <2>2. T # {} /\ T \in SUBSET (V \ roots) BY <1>5, <2>1
  <2>3. \A y \in T : y # x /\ up[y] = new[y] BY <1>2, <1>4
  <2> QED BY <1>1, <2>1, <2>2, <2>3 DEF NoClosedSet
<1>6. NoClosedSet(W, new, roots) BY <1>5 DEF NoClosedSet
<1> QED BY <1>1, <1>2, <1>3, <1>6 DEF Tree, new, next

\* One arc of a breadth-first search over some arcs, and all arcs of the next node.
Discovered(arcs, t, a) ==
    IF a \in arcs /\ To(a) \notin DOMAIN t.dist
    THEN [t EXCEPT !.order = Append(@, To(a)), !.by = Put(@, To(a), a),
                   !.dist = Put(@, To(a), @[From(a)] + 1)]
    ELSE t
DiscoveredAll(arcs, s, seq) == Folded(LAMBDA t, a : Discovered(arcs, t, a), s, seq)
Expanded(arcs, s) ==
    IF s.next > Len(s.order) THEN s
    ELSE DiscoveredAll(arcs, [s EXCEPT !.next = @ + 1], net.outgoing[s.order[s.next]])
ReachStart(roots) == [order |-> Seqs!SetToSeq(roots), next |-> 1, dist |-> [v \in roots |-> 0], by |-> <<>>]

DiscoversWithin(D, n, seq, arcs) == \A x \in D : \A i \in 1 .. n : Discovered(arcs, x, seq[i]) \in D
DiscoveringRun(h, n, D, base, seq, arcs) ==
    /\ h \in [0 .. n -> D] /\ h[0] = base
    /\ \A i \in 1 .. n : h[i] = Discovered(arcs, h[i - 1], seq[i])

\* The arcs of a node as a run.
LEMMA DiscoveredRuns ==
    ASSUME NEW arcs, NEW D, NEW base, base \in D, NEW n \in Nat, NEW seq, DOMAIN seq = 1 .. n,
           DiscoversWithin(D, n, seq, arcs)
    PROVE  \E h : DiscoveringRun(h, n, D, base, seq, arcs) /\ h[n] = DiscoveredAll(arcs, base, seq)
<1> DEFINE step(x, i) == Discovered(arcs, x, seq[i])
           op == [z \in D \X (1 .. n) |-> step(z[1], z[2])]
           raw(g, y) == IF y = {} THEN base ELSE
                          With(g[y \ {Seqs!Max(y)}], LAMBDA u : With(seq[Seqs!Max(y)],
                                                       LAMBDA b : Discovered(arcs, u, b)))
           E(g) == g = [y \in SUBSET (1 .. n) |-> raw(g, y)]
           c == CHOOSE g : E(g)
<1>1. DiscoveredAll(arcs, base, seq) = c[1 .. n]
  BY DEF DiscoveredAll, Folded, Seqs!FoldLeft, Seqs!MapThenFoldSet
<1>2. \A g, y : raw(g, y) = IF y = {} THEN base ELSE step(g[y \ {Finite!Max(y)}], Finite!Max(y))
  BY SeqsMax DEF With
<1>3. IsStep(op, D, 1 .. n) /\ \A x \in D : \A i \in 1 .. n : op[<<x, i>>] = step(x, i)
  BY DEF IsStep, DiscoversWithin
<1> HIDE DEF raw, step, op
<1>4. PICK g : g \in [SUBSET (1 .. n) -> D] /\ Follows(g, n, D, base, op) BY <1>3, FollowerExists
<1>5. E(g) BY <1>2, <1>3, <1>4, BeforeLast DEF Follows
<1>6. \A y \in SUBSET (1 .. n) : c[y] = raw(c, y) BY <1>5
<1> HIDE DEF c
<1>7. Follows(c, n, D, base, op) BY <1>2, <1>3, <1>6, BeforeLast DEF Follows
<1>8. PICK h : IsRun(h, n, D, base, op) /\ h[n] = c[1 .. n] BY <1>3, <1>7, FollowsIsRun
<1>9. \A i \in 1 .. n : i - 1 \in 0 .. n OBVIOUS
<1>10. \A i \in 1 .. n : h[i] = step(h[i - 1], i) BY <1>3, <1>8, <1>9 DEF IsRun
<1> QED BY <1>1, <1>8, <1>10 DEF IsRun, step, DiscoveringRun

ExpandsWithin(D, n, seq, arcs) == \A x \in D : \A i \in 1 .. n : Expanded(arcs, x) \in D
ExpandingRun(h, n, D, base, seq, arcs) ==
    /\ h \in [0 .. n -> D] /\ h[0] = base
    /\ \A i \in 1 .. n : h[i] = Expanded(arcs, h[i - 1])

\* A breadth-first search as a run.
LEMMA ExpandedRuns ==
    ASSUME NEW arcs, NEW roots, NEW D, NEW base, base \in D, NEW n \in Nat, NEW seq, DOMAIN seq = 1 .. n,
           ExpandsWithin(D, n, seq, arcs),
           seq = [i \in 1 .. n |-> i], n = N, base = ReachStart(roots)
    PROVE  \E h : ExpandingRun(h, n, D, base, seq, arcs) /\ h[n] = Reach(roots, arcs)
<1> DEFINE step(x, i) == Expanded(arcs, x)
           op == [z \in D \X (1 .. n) |-> step(z[1], z[2])]
           raw(g, y) == IF y = {} THEN base ELSE
                          With(g[y \ {Seqs!Max(y)}], LAMBDA u : With(seq[Seqs!Max(y)],
                                                       LAMBDA b : Expanded(arcs, u)))
           E(g) == g = [y \in SUBSET (1 .. n) |-> raw(g, y)]
           c == CHOOSE g : E(g)
<1>1. Reach(roots, arcs) = c[1 .. n]
  <2>1. Reach(roots, arcs) = Repeat(LAMBDA s : Expanded(arcs, s), N, ReachStart(roots))
    BY DEF Reach, Expanded, DiscoveredAll, Discovered, ReachStart
  <2>2. Repeat(LAMBDA s : Expanded(arcs, s), n, base) = c[1 .. n]
    BY DEF Repeat, Folded, Seqs!FoldLeft, Seqs!MapThenFoldSet
  <2> QED BY <2>1, <2>2
<1>2. \A g, y : raw(g, y) = IF y = {} THEN base ELSE step(g[y \ {Finite!Max(y)}], Finite!Max(y))
  BY SeqsMax DEF With
<1>3. IsStep(op, D, 1 .. n) /\ \A x \in D : \A i \in 1 .. n : op[<<x, i>>] = step(x, i)
  BY DEF IsStep, ExpandsWithin
<1> HIDE DEF raw, step, op
<1>4. PICK g : g \in [SUBSET (1 .. n) -> D] /\ Follows(g, n, D, base, op) BY <1>3, FollowerExists
<1>5. E(g) BY <1>2, <1>3, <1>4, BeforeLast DEF Follows
<1>6. \A y \in SUBSET (1 .. n) : c[y] = raw(c, y) BY <1>5
<1> HIDE DEF c
<1>7. Follows(c, n, D, base, op) BY <1>2, <1>3, <1>6, BeforeLast DEF Follows
<1>8. PICK h : IsRun(h, n, D, base, op) /\ h[n] = c[1 .. n] BY <1>3, <1>7, FollowsIsRun
<1>9. \A i \in 1 .. n : i - 1 \in 0 .. n OBVIOUS
<1>10. \A i \in 1 .. n : h[i] = step(h[i - 1], i) BY <1>3, <1>8, <1>9 DEF IsRun
<1> QED BY <1>1, <1>8, <1>10 DEF IsRun, step, ExpandingRun

\* What a breadth-first search has found: nodes with a distance, and their tree.
Finds(g, roots, arcs, x) ==
    /\ x \in [order : Seq(g.nodes), next : Nat \ {0}, dist : Partial(g.nodes, Nat), by : Partial(g.nodes, Arcs(g))]
    /\ roots \subseteq DOMAIN x.dist
    /\ \A i \in 1 .. Len(x.order) : x.order[i] \in DOMAIN x.dist
    /\ Tree(g, DOMAIN x.dist, x.by, roots)
    /\ \A v \in DOMAIN x.dist \ roots : x.by[v] \in arcs

\* What one more value of it changes.
LEMMA PutIs ==
    ASSUME NEW S, NEW T, NEW f \in Partial(S, T), NEW x \in S, NEW d \in T
    PROVE  /\ Put(f, x, d) \in Partial(S, T) /\ DOMAIN Put(f, x, d) = DOMAIN f \cup {x}
           /\ DOMAIN f \in SUBSET S /\ f \in [DOMAIN f -> T]
           /\ Put(f, x, d)[x] = d /\ \A y \in DOMAIN f : y # x => Put(f, x, d)[y] = f[y]
<1>1. PICK U \in SUBSET S : f \in [U -> T] BY DEF Partial
<1>2. DOMAIN f = U /\ \A y \in U : f[y] \in T BY <1>1
<1>3. Put(f, x, d) \in [U \cup {x} -> T] /\ U \cup {x} \in SUBSET S BY <1>2 DEF Put
<1>4. Put(f, x, d) \in Partial(S, T) BY <1>3 DEF Partial
<1> QED BY <1>1, <1>2, <1>3, <1>4 DEF Put

\* It stays a partial function.
LEMMA PutIn ==
    ASSUME NEW S, NEW T, NEW f \in Partial(S, T), NEW x \in S, NEW d \in T
    PROVE  Put(f, x, d) \in Partial(S, T)
BY PutIs

\* Discovering one arc leaves what was found.
LEMMA DiscoverFinds ==
    ASSUME net \in Problems, NEW roots, NEW arcs, NEW x, Finds(net, roots, arcs, x),
           NEW a \in Arcs(net), From(a) \in DOMAIN x.dist
    PROVE  /\ Finds(net, roots, arcs, Discovered(arcs, x, a))
           /\ DOMAIN x.dist \subseteq DOMAIN Discovered(arcs, x, a).dist
<1>1. CASE ~(a \in arcs /\ To(a) \notin DOMAIN x.dist) BY <1>1 DEF Discovered
<1>2. CASE a \in arcs /\ To(a) \notin DOMAIN x.dist
  <2>a. PICK v : v = To(a) OBVIOUS
  <2>b. PICK d : d = x.dist[From(a)] + 1 OBVIOUS
  <2> DEFINE V == DOMAIN x.dist
             y == Discovered(arcs, x, a)
  <2>1. /\ x.order \in Seq(net.nodes) /\ x.next \in Nat \ {0}
        /\ x.dist \in Partial(net.nodes, Nat) /\ x.by \in Partial(net.nodes, Arcs(net))
        /\ roots \subseteq V /\ Tree(net, V, x.by, roots) /\ V \in SUBSET net.nodes
        /\ \A i \in 1 .. Len(x.order) : x.order[i] \in V
        /\ \A u \in V \ roots : x.by[u] \in arcs
    BY DEF Finds, Tree
  <2>2. v \in net.nodes /\ v \notin V /\ v \notin roots /\ ArcTo(net, a) = v
    BY <1>2, <2>a, <2>1, ArcEnds DEF To
  <2>3. d \in Nat BY <2>1, PartialMap, <2>b
  <2>4. /\ y.order = Append(x.order, v) /\ y.next = x.next /\ y.by = Put(x.by, v, a) /\ y.dist = Put(x.dist, v, d)
        /\ y = [order |-> y.order, next |-> y.next, dist |-> y.dist, by |-> y.by]
    BY <1>2, <2>a, <2>b DEF Finds, Discovered
  <2> HIDE DEF y
  <2>5. y.dist \in Partial(net.nodes, Nat) /\ DOMAIN y.dist = V \cup {v}
    <3>1. Put(x.dist, v, d) \in Partial(net.nodes, Nat) /\ DOMAIN Put(x.dist, v, d) = V \cup {v}
      BY <2>1, <2>2, <2>3, PutIn DEF Put
    <3> QED BY <2>4, <3>1
  <2>6. /\ y.by \in Partial(net.nodes, Arcs(net)) /\ y.by[v] = a
        /\ \A u \in DOMAIN x.by : u # v => y.by[u] = x.by[u]
    <3>1. /\ Put(x.by, v, a) \in Partial(net.nodes, Arcs(net)) /\ Put(x.by, v, a)[v] = a
          /\ \A u \in DOMAIN x.by : u # v => Put(x.by, v, a)[u] = x.by[u]
      <4>1. x.by \in Partial(net.nodes, Arcs(net)) /\ v \in net.nodes /\ a \in Arcs(net) BY <2>1, <2>2
      <4>2. Put(x.by, v, a) \in Partial(net.nodes, Arcs(net)) BY <4>1, PutIn
      <4>3. \A u \in DOMAIN x.by : u # v => Put(x.by, v, a)[u] = x.by[u] BY DEF Put
      <4>4. Put(x.by, v, a)[v] = a BY DEF Put
      <4> QED BY <4>2, <4>3, <4>4
    <3> QED BY <2>4, <3>1
  <2>7. Tree(net, V \cup {v}, y.by, roots)
    <3>1. V \in SUBSET V /\ \A u \in V \ roots : ArcFrom(net, x.by[u]) \in V BY <2>1 DEF Tree
    <3>2. ArcFrom(net, a) \in V BY DEF From
    <3> HIDE DEF V
    <3> QED BY <2>1, <2>2, <2>4, <3>1, <3>2, TreeRehung
  <2>8. \A u \in (V \cup {v}) \ roots : y.by[u] \in arcs BY <1>2, <2>1, <2>6 DEF Tree
  <2>9. y.order \in Seq(net.nodes) /\ \A i \in 1 .. Len(y.order) : y.order[i] \in V \cup {v}
    <3>1. y.order \in Seq(net.nodes) /\ Len(y.order) = Len(x.order) + 1
      <4>1. Append(x.order, v) \in Seq(net.nodes) /\ Len(Append(x.order, v)) = Len(x.order) + 1
        <5>1. x.order \in Seq(net.nodes) /\ v \in net.nodes BY <2>1, <2>2
        <5> QED BY ONLY <5>1, OneMore
      <4> QED BY <2>4, <4>1
    <3> SUFFICES ASSUME NEW i \in 1 .. Len(y.order) PROVE y.order[i] \in V \cup {v} BY <3>1
    <3>2. Len(x.order) \in Nat BY <2>1, LenProperties
    <3>3. CASE i = Len(x.order) + 1 BY <2>1, <2>2, <2>4, <3>3, AppendProperties
    <3>4. CASE i # Len(x.order) + 1 BY <2>1, <2>2, <2>4, <3>1, <3>2, <3>4, AppendProperties
    <3> QED BY <3>3, <3>4
  <2>10. y \in [order : Seq(net.nodes), next : Nat \ {0}, dist : Partial(net.nodes, Nat), by : Partial(net.nodes, Arcs(net))]
    BY <2>1, <2>4, <2>5, <2>6, <2>9
  <2> QED BY <2>1, <2>5, <2>7, <2>8, <2>9, <2>10 DEF Finds, y
<1> QED BY <1>1, <1>2

\* So does expanding one node.
LEMMA ExpandFinds ==
    ASSUME net \in Problems, NEW roots, NEW arcs, NEW x, Finds(net, roots, arcs, x)
    PROVE  Finds(net, roots, arcs, Expanded(arcs, x))
<1>0. CASE x.next > Len(x.order) BY <1>0 DEF Expanded
<1>1. CASE ~(x.next > Len(x.order))
  <2> DEFINE v == x.order[x.next]
             seq == net.outgoing[v]
             base == [x EXCEPT !.next = @ + 1]
             Shape == [order : Seq(net.nodes), next : Nat \ {0}, dist : Partial(net.nodes, Nat), by : Partial(net.nodes, Arcs(net))]
             D == {y \in Shape : Finds(net, roots, arcs, y) /\ v \in DOMAIN y.dist}
             n == Len(seq)
  <2>1. x \in Shape /\ Len(x.order) \in Nat /\ x.next \in 1 .. Len(x.order) /\ v \in DOMAIN x.dist
    <3>1. x \in Shape /\ x.order \in Seq(net.nodes) /\ x.next \in Nat \ {0} BY DEF Finds
    <3>2. Len(x.order) \in Nat BY <3>1, LenProperties
    <3>3. x.next \in 1 .. Len(x.order) BY <1>1, <3>1, <3>2
    <3> QED BY <3>1, <3>2, <3>3 DEF Finds
  <2>2. v \in net.nodes BY <2>1 DEF Finds, Tree
  <2>3. /\ seq \in Seq(Arcs(net)) /\ n \in Nat /\ DOMAIN seq = 1 .. n
        /\ \A i \in 1 .. n : seq[i] \in Arcs(net) /\ From(seq[i]) = v
    BY <2>2, ProblemsAssumption, LenProperties DEF IsNetwork, From
  <2>4. base \in D
    <3>1. /\ base \in Shape /\ base.order = x.order /\ base.dist = x.dist /\ base.by = x.by BY <2>1, SMTT(20)
    <3>2. Finds(net, roots, arcs, base) BY <3>1 DEF Finds
    <3> QED BY <2>1, <3>1, <3>2
  <2>5. DiscoversWithin(D, n, seq, arcs)
    <3> SUFFICES ASSUME NEW y \in D, NEW i \in 1 .. n PROVE Discovered(arcs, y, seq[i]) \in D
      BY DEF DiscoversWithin
    <3>1. Finds(net, roots, arcs, y) /\ From(seq[i]) \in DOMAIN y.dist /\ seq[i] \in Arcs(net) BY <2>3
    <3> DEFINE z == Discovered(arcs, y, seq[i])
    <3>2. Finds(net, roots, arcs, z) /\ DOMAIN y.dist \subseteq DOMAIN z.dist BY <3>1, DiscoverFinds
    <3> HIDE DEF z
    <3>3. z \in Shape /\ v \in DOMAIN z.dist BY <3>2 DEF Finds
    <3> QED BY <3>2, <3>3, Zenon DEF z
  <2> DEFINE end == DiscoveredAll(arcs, base, seq)
  <2>6. Expanded(arcs, x) = end BY <1>1 DEF Expanded
  <2> HIDE DEF D, base, seq, n
  <2>7. end \in D
    <3>1. PICK h : DiscoveringRun(h, n, D, base, seq, arcs) /\ h[n] = end BY <2>3, <2>4, <2>5, DiscoveredRuns
    <3>2. n \in 0 .. n BY <2>3
    <3> QED BY <3>1, <3>2 DEF DiscoveringRun
  <2> QED BY <2>6, <2>7 DEF D
<1> QED BY <1>0, <1>1

\* What a breadth-first search finds: a tree over its arcs with its roots.
LEMMA ReachFinds ==
    ASSUME net \in Problems, NEW roots \in SUBSET net.nodes, NEW arcs
    PROVE  Finds(net, roots, arcs, Reach(roots, arcs))
<1> DEFINE Shape == [order : Seq(net.nodes), next : Nat \ {0}, dist : Partial(net.nodes, Nat), by : Partial(net.nodes, Arcs(net))]
           D == {y \in Shape : Finds(net, roots, arcs, y)}
           base == ReachStart(roots)
           seq == [i \in 1 .. N |-> i]
           m == Cardinality(roots)
           f == Seqs!SetToSeq(roots)
<1>1. N \in Nat /\ m \in Nat /\ IsFiniteSet(roots)
  BY ProblemsAssumption, FS_Subset, FS_CardinalityType DEF IsNetwork, N
<1>2. f \in [1 .. m -> roots]
  <2>1. PICK n \in Nat : ExistsBijection(1 .. n, roots) BY <1>1, FS_NatBijection
  <2>2. n = m BY <1>1, <2>1, FS_CountingElements
  <2>3. \E e \in [1 .. m -> roots] : Seqs!IsInjective(e)
    BY <2>1, <2>2 DEF ExistsBijection, Bijection, Injection, IsInjective, Seqs!IsInjective
  <2>4. f = CHOOSE e \in [1 .. Cardinality(roots) -> roots] : Seqs!IsInjective(e)
    BY DEF Seqs!Cardinality, Cardinality, Seqs!SetToSeq
  <2> HIDE DEF f, m
  <2> QED BY <2>3, <2>4 DEF m
<1>3. base.order = f /\ f \in Seq(net.nodes) /\ Len(f) = m /\ \A i \in 1 .. m : f[i] \in roots
  BY <1>1, <1>2 DEF ReachStart
<1>4. DOMAIN base.dist = roots /\ base.dist \in Partial(net.nodes, Nat) /\ base.by \in Partial(net.nodes, Arcs(net))
  <2>1. base.dist = [v \in roots |-> 0] /\ base.by = <<>> /\ base.next = 1 BY DEF ReachStart
  <2>2. [v \in roots |-> 0] \in [roots -> Nat] OBVIOUS
  <2>3. <<>> \in [{} -> Arcs(net)] /\ {} \in SUBSET net.nodes OBVIOUS
  <2> QED BY <2>1, <2>2, <2>3 DEF Partial
<1>5. Finds(net, roots, arcs, base)
  <2>1. Tree(net, roots, base.by, roots) BY DEF Tree, NoClosedSet
  <2>2. base \in Shape BY <1>3, <1>4 DEF ReachStart
  <2> HIDE DEF base, f
  <2> QED BY <1>3, <1>4, <2>1, <2>2 DEF Finds
<1>6. base \in D BY <1>5 DEF Finds
<1>7. ExpandsWithin(D, N, seq, arcs) BY ExpandFinds DEF ExpandsWithin, Finds
<1>8. DOMAIN seq = 1 .. N OBVIOUS
<1> HIDE DEF D
<1>9. PICK h : ExpandingRun(h, N, D, base, seq, arcs) /\ h[N] = Reach(roots, arcs)
  BY <1>1, <1>6, <1>7, <1>8, ExpandedRuns
<1>10. N \in 0 .. N BY <1>1
<1>11. Reach(roots, arcs) \in D BY <1>9, <1>10 DEF ExpandingRun
<1> QED BY <1>11 DEF D

(***************************************************************************)
(* The solvers that make a feasible flow cheaper: what they cancel are     *)
(* cycles of distinct arcs.                                                *)
(***************************************************************************)

\* The room on a path is a number that no arc of it falls short of, and the room of one.
LEMMA BottleneckIs ==
    ASSUME NEW g \in Problems, NEW fl, NEW ex, Accounts(g, fl, ex), NEW n \in Nat, n > 0,
           NEW path, path \in [1 .. n -> Arcs(g)]
    PROVE  /\ Bottleneck(g, fl, path) \in Nat
           /\ \A i \in 1 .. n : Bottleneck(g, fl, path) <= Residual(g, fl, path[i])
           /\ \E i \in 1 .. n : Bottleneck(g, fl, path) = Residual(g, fl, path[i])
<1> DEFINE room == [i \in 1 .. n |-> Residual(g, fl, path[i])]
           rooms == {room[i] : i \in 1 .. n}
<1>1. \A i \in 1 .. n : room[i] \in Nat /\ room[i] = Residual(g, fl, path[i]) BY ResidualIsNat
<1>2. Bottleneck(g, fl, path) = Finite!Min(rooms) BY DEF Bottleneck
<1> HIDE DEF room
<1>3. IsFiniteSet(rooms)
  <2>1. IsFiniteSet(1 .. n) BY FS_Interval
  <2> QED BY <2>1, FiniteImage
<1>4. rooms # {} /\ rooms \subseteq Int BY <1>1
<1>5. Finite!Min(rooms) \in rooms /\ \A y \in rooms : Finite!Min(rooms) <= y BY <1>3, <1>4, MinIsLeast
<1> QED BY <1>1, <1>2, <1>5

\* What goes round a cycle changes nothing of what any node has left to send.
LEMMA CycleAccounts ==
    ASSUME NEW g \in Problems, NEW fl, NEW ex, Accounts(g, fl, ex), NEW n, NEW cycle, PathIn(g, cycle, n),
           ArcTo(g, cycle[n]) = ArcFrom(g, cycle[1])
    PROVE  Accounts(g, Augment(g, fl, cycle, Bottleneck(g, fl, cycle)), ex)
<1> DEFINE amount == Bottleneck(g, fl, cycle)
           next == Augment(g, fl, cycle, amount)
<1>1. n \in Nat /\ n > 0 /\ cycle \in [1 .. n -> Arcs(g)] /\ IsNetwork(g) /\ WithinBounds(g, fl)
  BY ProblemsAssumption DEF PathIn, Listed, Accounts
<1>2. amount \in Nat /\ \A i \in 1 .. n : amount <= Residual(g, fl, cycle[i]) BY <1>1, BottleneckIs
<1>3. next = [e \in Edges(g) |-> next[e]] BY DEF Augment
<1> HIDE DEF amount
<1>4. /\ WithinBounds(g, next)
      /\ \A v : /\ Divergence(g, fl, v) \in Int
                /\ Divergence(g, next, v) = Divergence(g, fl, v)
                            + (IF v = ArcFrom(g, cycle[1]) THEN amount ELSE 0)
                            - (IF v = ArcTo(g, cycle[n]) THEN amount ELSE 0)
  <2>1. /\ WithinBounds(g, Augment(g, fl, cycle, amount))
        /\ \A v : /\ Divergence(g, fl, v) \in Int
                  /\ Divergence(g, Augment(g, fl, cycle, amount), v) = Divergence(g, fl, v)
                            + (IF v = ArcFrom(g, cycle[1]) THEN amount ELSE 0)
                            - (IF v = ArcTo(g, cycle[n]) THEN amount ELSE 0)
    <3>1. IsNetwork(g) /\ WithinBounds(g, fl) /\ PathIn(g, cycle, n) /\ amount \in Nat BY <1>1, <1>2
    <3>2. \A i \in 1 .. n : amount <= Residual(g, fl, cycle[i]) BY <1>2
    <3> QED BY <3>1, <3>2, AugmentAlong
  <2> QED BY <2>1
<1> HIDE DEF next
<1>5. next \in [Edges(g) -> Int] BY <1>3, <1>4, ProblemTypes
<1>6. \A v \in g.nodes : Divergence(g, next, v) = Divergence(g, fl, v) BY <1>2, <1>4
<1> QED BY <1>4, <1>5, <1>6 DEF Accounts, next, amount

\* An arc and a tracked path back from its end to its start are a cycle of distinct arcs:
\* only the arc leaves its start.
LEMMA CycleClosed ==
    ASSUME NEW g \in Problems, NEW a \in Arcs(g), NEW V, NEW by, NEW path, NEW n, NEW c,
           Tracks(g, V, by, {ArcTo(g, a)}, ArcFrom(g, a), path, n, c)
    PROVE  /\ PathIn(g, <<a>> \o path, n + 1)
           /\ ArcTo(g, (<<a>> \o path)[n + 1]) = ArcFrom(g, (<<a>> \o path)[1])
<1> DEFINE cycle == <<a>> \o path
<1>1. /\ n \in Nat /\ c \in [0 .. n -> V] /\ c[0] = ArcFrom(g, a) /\ c[n] = ArcTo(g, a)
      /\ \A i, j \in 0 .. n : c[i] = c[j] => i = j
      /\ path \in Seq(Arcs(g)) /\ Len(path) = n
      /\ \A i \in 1 .. n : ArcTo(g, path[i]) = c[n - i] /\ ArcFrom(g, path[i]) = c[(n - i) + 1]
  BY DEF Tracks
<1>2. \A i \in 1 .. n : path[i] \in Arcs(g) BY <1>1
<1>3. /\ cycle \in [1 .. (n + 1) -> Arcs(g)] /\ cycle[1] = a
      /\ \A i \in 2 .. (n + 1) : i - 1 \in 1 .. n /\ cycle[i] = path[i - 1]
  <2>1. path = [i \in 1 .. n |-> path[i]] /\ path \in [1 .. n -> Arcs(g)] BY <1>1
  <2>2. Len(<<a>>) = 1 /\ <<a>> \in Seq(Arcs(g)) /\ <<a>>[1] = a OBVIOUS
  <2>3. Len(cycle) = n + 1 /\ cycle \in Seq(Arcs(g)) BY <1>1, <2>2, ConcatProperties
  <2>4. \A i \in 1 .. (n + 1) : cycle[i] = IF i <= 1 THEN <<a>>[i] ELSE path[i - 1]
    BY <1>1, <2>2, ConcatProperties
  <2>5. cycle \in [1 .. (n + 1) -> Arcs(g)]
    <3> HIDE DEF cycle
    <3> QED BY <1>1, <2>3
  <2> HIDE DEF cycle
  <2> QED BY <1>1, <2>2, <2>4, <2>5
<1> HIDE DEF cycle
<1>4. \A i \in 2 .. (n + 1) : /\ ArcTo(g, cycle[i]) = c[(n + 1) - i] /\ ArcFrom(g, cycle[i]) = c[(n + 2) - i]
                              /\ (n + 1) - i \in 0 .. n /\ (n + 2) - i \in 1 .. n /\ (n + 2) - i \in 0 .. n
  <2> TAKE i \in 2 .. (n + 1)
  <2>1. i - 1 \in 1 .. n /\ cycle[i] = path[i - 1] BY <1>3
  <2>2. n - (i - 1) = (n + 1) - i /\ (n - (i - 1)) + 1 = (n + 2) - i BY <1>1
  <2>3. ArcTo(g, path[i - 1]) = c[n - (i - 1)] /\ ArcFrom(g, path[i - 1]) = c[(n - (i - 1)) + 1] BY <1>1, <2>1
  <2> QED BY <1>1, <2>1, <2>2, <2>3
<1>5. ASSUME NEW i \in 1 .. (n + 1), NEW j \in 1 .. (n + 1), cycle[i] = cycle[j] PROVE i = j
  <2>1. ASSUME NEW m \in 2 .. (n + 1) PROVE cycle[m] # a BY <1>1, <1>4
  <2>2. CASE i = 1 \/ j = 1 BY <1>1, <1>3, <2>1, <1>5, <2>2
  <2>3. CASE i # 1 /\ j # 1
    <3>1. i \in 2 .. (n + 1) /\ j \in 2 .. (n + 1) BY <1>1, <2>3
    <3>2. c[(n + 2) - i] = c[(n + 2) - j] BY <1>4, <1>5, <3>1
    <3>3. (n + 2) - i = (n + 2) - j BY <1>1, <1>4, <3>1, <3>2
    <3> QED BY <1>1, <3>3
  <2> QED BY <2>2, <2>3
<1>6. ASSUME NEW i \in 1 .. n PROVE ArcTo(g, cycle[i]) = ArcFrom(g, cycle[i + 1])
  <2>1. i + 1 \in 2 .. (n + 1) /\ (n + 2) - (i + 1) = (n + 1) - i BY <1>1
  <2>2. ArcFrom(g, cycle[i + 1]) = c[(n + 1) - i] BY <1>4, <2>1
  <2>3. CASE i = 1 BY <1>1, <1>3, <2>2, <2>3
  <2>4. CASE i # 1 BY <1>1, <1>4, <2>2, <2>4
  <2> QED BY <2>3, <2>4
<1>7. ArcTo(g, cycle[n + 1]) = ArcFrom(g, cycle[1]) BY <1>1, <1>3, <1>4
<1> QED BY <1>1, <1>3, <1>5, <1>6, <1>7 DEF PathIn, Listed, cycle

\* A flow that meets what is required and that no other undercuts has the least cost.
LEMMA CheapestIsLeast ==
    ASSUME NEW g \in Problems, NEW fl \in [Edges(g) -> Int], Cheapest(g, fl)
    PROVE  Feasible[g] # {} /\ FlowCost(g, fl) = LeastCost[g]
<1> DEFINE costs == {FlowCost(g, f) : f \in Feasible[g]}
           least == FlowCost(g, fl)
<1>1. fl \in Feasible[g] BY MeetsIsFeasible DEF Cheapest
<1>2. ASSUME NEW f \in Feasible[g] PROVE FlowCost(g, f) \in Int /\ least <= FlowCost(g, f)
  BY CostIsInt DEF Feasible, FlowsWithin, Meets, Cheapest
<1>3. least \in costs /\ \A x \in costs : x \in Int /\ least <= x BY <1>1, <1>2
<1>4. LeastCost[g] = Finite!Min(costs) BY <1>1 DEF LeastCost
<1> HIDE DEF costs, least
<1>5. least = Finite!Min(costs) BY <1>3 DEF Finite!Min
<1> QED BY <1>1, <1>4, <1>5 DEF least

\* A flow that accounts for all with nothing left to send meets what is required.
LEMMA NothingLeftMeets ==
    ASSUME NEW g \in Problems, NEW fl, NEW ex, Accounts(g, fl, ex), \A v \in g.nodes : ex[v] = 0
    PROVE  Meets(g, fl)
<1>1. ASSUME NEW v \in g.nodes PROVE Divergence(g, fl, v) = g.required[v] BY DivergenceIsInt DEF Accounts
<1> QED BY <1>1 DEF Accounts, Meets

\* Reduced costs under prices that add.
LEMMA PlainCost ==
    ASSUME net \in Problems, alg \notin CostScalers, NEW p \in [net.nodes -> Int], NEW a \in Arcs(net)
    PROVE  /\ ReducedCost(p, a) = ArcCost(net, a) + p[From(a)] - p[To(a)] /\ ReducedCost(p, a) \in Int
           /\ From(a) \in net.nodes /\ To(a) \in net.nodes
<1>1. From(a) \in net.nodes /\ To(a) \in net.nodes /\ ArcCost(net, a) \in Int BY ArcEnds DEF From, To
<1>2. ReducedCost(p, a) = ArcCost(net, a) + p[From(a)] - p[To(a)] BY DEF ReducedCost
<1> QED BY <1>1, <1>2

ImproverPhases == {"start", "infeasible", "improve", "failed", "certify", "done"}

\* The invariant of a solver that makes a feasible flow cheaper, as a function of the state.
ImproverKeeps(g, al, fl, ex, p, ph, kk) ==
    /\ Accounts(g, fl, ex) /\ p \in [g.nodes -> Int]
    /\ ph \in ImproverPhases /\ kk = [Kernel(g) EXCEPT !.target = kk.target]
    /\ ph = "infeasible" => Feasible[g] = {}
    /\ ph \notin {"start", "infeasible"} => Feasible[g] # {} /\ \A v \in g.nodes : ex[v] = 0
    /\ ph \in {"certify", "done"} /\ al # "mean-cycle-canceling" => Cheapest(g, fl)
ImproverNow == ImproverKeeps(net, alg, flow, excess, price, phase, k)
ImproverNext == ImproverKeeps(net, alg, flow', excess', price', phase', k')

\* Nothing has been improved at first.
LEMMA ImproverStarts == ASSUME Init PROVE ImproverNow
<1>1. /\ net \in Problems /\ flow = net.lower /\ price = [v \in net.nodes |-> 0] /\ phase = "start" /\ k = Kernel(net)
      /\ excess = [v \in net.nodes |-> net.required[v] - Divergence(net, flow, v)]
  BY DEF Init
<1>2. WithinBounds(net, flow) /\ flow \in [Edges(net) -> Int]
  BY <1>1, ProblemsAssumption DEF IsNetwork, WithinBounds
<1>3. ASSUME NEW v \in net.nodes PROVE excess[v] \in Int /\ Divergence(net, flow, v) + excess[v] = net.required[v]
  BY <1>1, <1>2, DivergenceIsInt, ProblemsAssumption
<1>4. excess \in [net.nodes -> Int] /\ price \in [net.nodes -> Int] BY <1>1, <1>3
<1>5. k = [Kernel(net) EXCEPT !.target = k.target] BY <1>1 DEF Kernel
<1> QED BY <1>1, <1>2, <1>3, <1>4, <1>5 DEF ImproverNow, ImproverKeeps, ImproverPhases, Accounts

\* An improving solver begins with a flow that is accounted for.
LEMMA BeginImprovingKeeps ==
    ASSUME net \in Problems, ImproverNow, BeginImproving PROVE ImproverNext
<1>1. /\ phase = "start" /\ Accounts(net, flow, excess) /\ price \in [net.nodes -> Int]
      /\ k = [Kernel(net) EXCEPT !.target = k.target]
  BY DEF BeginImproving, ImproverNow, ImproverKeeps
<1>2. CASE Feasible[net] = {}
  BY <1>1, <1>2 DEF BeginImproving, Stop, ImproverNext, ImproverKeeps, ImproverPhases
<1>3. CASE Feasible[net] # {}
  <2>1. /\ flow' \in Feasible[net] /\ excess' = [v \in net.nodes |-> 0]
        /\ phase' = "improve" /\ UNCHANGED <<price, k>>
    BY <1>3 DEF BeginImproving
  <2>2. /\ WithinBounds(net, flow') /\ DOMAIN flow' = Edges(net) /\ flow' = [e \in Edges(net) |-> flow'[e]]
        /\ \A v \in net.nodes : Divergence(net, flow', v) = net.required[v]
    BY <2>1 DEF Feasible, FlowsWithin
  <2>3. flow' \in [Edges(net) -> Int] BY <2>2, ProblemTypes
  <2>4. Accounts(net, flow', excess') /\ \A v \in net.nodes : excess'[v] = 0
    BY <2>1, <2>2, <2>3, ProblemsAssumption DEF Accounts
  <2> QED BY <1>1, <1>3, <2>1, <2>4 DEF ImproverNext, ImproverKeeps, ImproverPhases
<1> QED BY <1>2, <1>3

\* Cancelling a cycle of distinct arcs.
LEMMA CancelKeeps ==
    ASSUME net \in Problems, ImproverNow, phase = "improve", NEW cycle, Cancel(cycle),
           cycle # <<>> => \E n : PathIn(net, cycle, n) /\ ArcTo(net, cycle[n]) = ArcFrom(net, cycle[1])
    PROVE  ImproverNext
<1>1. /\ Accounts(net, flow, excess) /\ price \in [net.nodes -> Int] /\ Feasible[net] # {}
      /\ k = [Kernel(net) EXCEPT !.target = k.target] /\ \A v \in net.nodes : excess[v] = 0
  BY DEF ImproverNow, ImproverKeeps
<1>2. CASE cycle = <<>> \/ CycleCost(cycle) >= 0
  BY <1>1, <1>2 DEF Cancel, Stop, ImproverNext, ImproverKeeps, ImproverPhases
<1>3. CASE ~(cycle = <<>> \/ CycleCost(cycle) >= 0)
  BY <1>1, <1>3, CycleAccounts DEF Cancel, ImproverNext, ImproverKeeps, ImproverPhases
<1> QED BY <1>2, <1>3

\* With no edge out of kilter the prices prove the flow cheapest.
LEMMA InKilterProves ==
    ASSUME net \in Problems, alg \notin CostScalers, Accounts(net, flow, excess), price \in [net.nodes -> Int],
           OutOfKilter = {}
    PROVE  Proves(net, flow, price)
<1> SUFFICES ASSUME NEW a \in Arcs(net), Residual(net, flow, a) > 0
             PROVE  ArcCost(net, a) + price[ArcFrom(net, a)] - price[ArcTo(net, a)] >= 0
  BY DEF Proves
<1> DEFINE e == a[1]
           part(d) == -ReducedCost(price, <<e, d>>) * Residual(net, flow, <<e, d>>)
           parts == {0} \cup {part(d) : d \in {"forward", "reverse"}}
<1>1. e \in Edges(net) /\ a[2] \in {"forward", "reverse"} /\ a = <<e, a[2]>> BY ArcEnds
<1>2. ASSUME NEW d \in {"forward", "reverse"} PROVE part(d) \in Int
  <2>1. <<e, d>> \in Arcs(net) BY <1>1 DEF Arcs
  <2>2. ReducedCost(price, <<e, d>>) \in Int BY <2>1, PlainCost
  <2>3. Residual(net, flow, <<e, d>>) \in Nat BY <2>1, ResidualIsNat
  <2> QED BY <2>2, <2>3
<1>3. Kilter(flow, price, e) = Finite!Max(parts) BY DEF Kilter
<1>4. parts = {0, part("forward"), part("reverse")} OBVIOUS
<1> HIDE DEF part
<1>5. IsFiniteSet(parts) /\ parts # {} /\ parts \subseteq Int
  <2>1. IsFiniteSet({0, part("forward"), part("reverse")})
    <3>1. IsFiniteSet({0}) /\ IsFiniteSet({part("forward")}) /\ IsFiniteSet({part("reverse")}) BY FS_Singleton
    <3>2. IsFiniteSet({0} \cup {part("forward")}) BY <3>1, FS_Union
    <3>3. IsFiniteSet(({0} \cup {part("forward")}) \cup {part("reverse")}) BY <3>1, <3>2, FS_Union
    <3>4. {0, part("forward"), part("reverse")} = ({0} \cup {part("forward")}) \cup {part("reverse")} OBVIOUS
    <3> QED BY <3>3, <3>4
  <2>2. part("forward") \in Int /\ part("reverse") \in Int BY <1>2
  <2> QED BY <1>4, <2>1, <2>2
<1> HIDE DEF parts
<1>6. Finite!Max(parts) \in Int /\ \A y \in parts : y <= Finite!Max(parts) BY <1>5, MaxIsGreatest
<1>7. part(a[2]) \in parts BY <1>1 DEF parts
<1>8. ~(Kilter(flow, price, e) > 0) BY <1>1 DEF OutOfKilter
<1>9. part(a[2]) <= 0 BY <1>1, <1>2, <1>3, <1>6, <1>7, <1>8
<1>10. ReducedCost(price, a) \in Int /\ ReducedCost(price, a) = ArcCost(net, a) + price[ArcFrom(net, a)] - price[ArcTo(net, a)]
  BY PlainCost DEF From, To
<1>11. Residual(net, flow, a) \in Nat BY ResidualIsNat
<1>12. part(a[2]) = -ReducedCost(price, a) * Residual(net, flow, a) BY <1>1 DEF part
<1>13. \A x \in Int : \A y \in Nat : y > 0 /\ -x * y <= 0 => x >= 0
  <2> SUFFICES ASSUME NEW x \in Int, NEW y \in Nat, y > 0, x < 0 PROVE -x * y > 0 OBVIOUS
  <2>1. -x > 0 /\ -x \in Int OBVIOUS
  <2>2. \A i, j \in Int : i > 0 /\ j > 0 => i * j > 0 OBVIOUS
  <2> QED BY <2>1, <2>2
<1> QED BY <1>9, <1>10, <1>11, <1>12, <1>13

\* Going round by way of one more edge keeps the flow accounted for.
LEMMA SelectEdgeKeeps ==
    ASSUME net \in Problems, alg \notin CostScalers, ImproverNow, SelectEdge PROVE ImproverNext
<1>1. /\ Accounts(net, flow, excess) /\ price \in [net.nodes -> Int] /\ phase = "improve" /\ Feasible[net] # {}
      /\ k = [Kernel(net) EXCEPT !.target = k.target] /\ \A v \in net.nodes : excess[v] = 0
  BY DEF ImproverNow, ImproverKeeps, SelectEdge
<1>2. CASE OutOfKilter = {}
  <2>1. phase' = "certify" /\ UNCHANGED <<flow, excess, price, k>> BY <1>2 DEF SelectEdge, Stop
  <2>2. Proves(net, flow, price) /\ Meets(net, flow) BY <1>1, <1>2, InKilterProves, NothingLeftMeets
  <2>3. Cheapest(net, flow) BY <2>2, NoFlowIsCheaper DEF Cheapest
  <2> QED BY <1>1, <2>1, <2>3 DEF ImproverNext, ImproverKeeps, ImproverPhases
<1>3. CASE OutOfKilter # {}
  <2>1. UNCHANGED <<flow, excess, price, phase>> /\ k' = [k EXCEPT !.target = Finite!Min(OutOfKilter)]
    BY <1>3 DEF SelectEdge
  <2>2. k' = [Kernel(net) EXCEPT !.target = k'.target]
    <3> DEFINE t == Finite!Min(OutOfKilter)
    <3>1. k' = [k EXCEPT !.target = t] BY <2>1
    <3> HIDE DEF t
    <3> QED BY <1>1, <3>1 DEF Kernel
  <2> QED BY <1>1, <2>1, <2>2 DEF ImproverNext, ImproverKeeps, ImproverPhases
<1> QED BY <1>2, <1>3

\* The least of finitely many reduced costs is an integer.
LEMMA LeastRise ==
    ASSUME net \in Problems, alg \notin CostScalers, price \in [net.nodes -> Int], NEW a \in Arcs(net),
           NEW A \in SUBSET Arcs(net)
    PROVE  Finite!Min({-ReducedCost(price, a)} \cup {ReducedCost(price, b) : b \in A}) \in Int
<1> DEFINE costs == [b \in A |-> ReducedCost(price, b)]
           S == {-ReducedCost(price, a)} \cup {costs[b] : b \in A}
<1>1. IsFiniteSet(A) BY FiniteArcs, FS_Subset
<1>2. IsFiniteSet({costs[b] : b \in A}) /\ IsFiniteSet({-ReducedCost(price, a)})
  <2> HIDE DEF costs
  <2> QED BY <1>1, FiniteImage, FS_Singleton
<1>3. IsFiniteSet(S) BY <1>2, FS_Union
<1>4. ReducedCost(price, a) \in Int /\ \A b \in A : costs[b] \in Int BY PlainCost
<1>5. S # {} /\ S \subseteq Int BY <1>4
<1>6. S = {-ReducedCost(price, a)} \cup {ReducedCost(price, b) : b \in A} OBVIOUS
<1> HIDE DEF S
<1>7. Finite!Min(S) \in S BY <1>3, <1>5, MinIsLeast
<1> QED BY <1>5, <1>6, <1>7

\* What a search from the end of an arc decides.
Corrects(a, s) ==
    IF From(a) \in DOMAIN s.dist
    THEN \E cycle \in {<<a>> \o PathTo(s, {To(a)}, From(a))} :
             /\ flow' = Augment(net, flow, cycle, Bottleneck(net, flow, cycle))
             /\ UNCHANGED price
    ELSE \E delta \in {Finite!Min({-ReducedCost(price, a)} \cup {ReducedCost(price, b) :
                 b \in {c \in Usable : From(c) \in DOMAIN s.dist
                                      /\ To(c) \notin DOMAIN s.dist}})} :
             /\ price' = [v \in net.nodes |-> price[v] + (IF v \in DOMAIN s.dist THEN 0 ELSE delta)]
             /\ UNCHANGED flow

\* An edge is corrected along a cycle that it closes, or prices rise.
LEMMA CorrectEdgeKeeps ==
    ASSUME net \in Problems, alg \notin CostScalers, ImproverNow, CorrectEdge PROVE ImproverNext
<1>1. /\ Accounts(net, flow, excess) /\ price \in [net.nodes -> Int] /\ phase = "improve" /\ Feasible[net] # {}
      /\ k = [Kernel(net) EXCEPT !.target = k.target] /\ \A v \in net.nodes : excess[v] = 0
  BY DEF ImproverNow, ImproverKeeps, CorrectEdge
<1> DEFINE a == Correction(k.target)
           arcs == {b \in Usable : ReducedCost(price, b) <= 0}
           roots == {To(a)}
           s == Reach(roots, arcs)
           path == PathTo(s, roots, From(a))
           cycle == <<a>> \o path
           leaving == {c \in Usable : From(c) \in DOMAIN s.dist /\ To(c) \notin DOMAIN s.dist}
           delta == Finite!Min({-ReducedCost(price, a)} \cup {ReducedCost(price, b) : b \in leaving})
<1>2. /\ phase' \in {"improve", "failed"} /\ UNCHANGED <<excess, k>>
      /\ IF From(a) \in DOMAIN s.dist
         THEN flow' = Augment(net, flow, cycle, Bottleneck(net, flow, cycle)) /\ UNCHANGED price
         ELSE /\ price' = [v \in net.nodes |-> price[v] + (IF v \in DOMAIN s.dist THEN 0 ELSE delta)]
              /\ UNCHANGED flow
  <2>1. /\ phase' = (IF KilterFalls THEN phase ELSE "failed") /\ UNCHANGED <<excess, k>>
        /\ \E a0 \in {a} : \E s0 \in {Reach({To(a0)}, {b \in Usable : ReducedCost(price, b) <= 0})} :
               Corrects(a0, s0)
    BY DEF CorrectEdge, Corrects
  <2>2. Corrects(a, s) BY <2>1
  <2> HIDE DEF a, s
  <2>3. CASE From(a) \in DOMAIN s.dist BY <1>1, <2>1, <2>2, <2>3 DEF Corrects
  <2>4. CASE From(a) \notin DOMAIN s.dist BY <1>1, <2>1, <2>2, <2>4 DEF Corrects
  <2> QED BY <2>3, <2>4
<1>3. a \in Arcs(net) BY DEF CorrectEdge, OutOfKilter, Correction, Arcs
<1>4. roots \in SUBSET net.nodes BY <1>3, PlainCost, <1>1
<1>5. Finds(net, roots, arcs, s) BY <1>4, ReachFinds
<1>6. Tree(net, DOMAIN s.dist, s.by, roots) BY <1>5 DEF Finds
<1>7. ASSUME From(a) \in DOMAIN s.dist PROVE Accounts(net, flow', excess)
  <2> HIDE DEF s, arcs
  <2>1. PICK n, c : Tracks(net, DOMAIN s.dist, s.by, roots, From(a), path, n, c) BY <1>6, <1>7, PathIsTracked
  <2>2. /\ PathIn(net, cycle, n + 1) /\ ArcTo(net, cycle[n + 1]) = ArcFrom(net, cycle[1])
    BY <1>3, <2>1, CycleClosed DEF From, To
  <2>3. flow' = Augment(net, flow, cycle, Bottleneck(net, flow, cycle)) BY <1>2, <1>7
  <2> HIDE DEF cycle
  <2> QED BY <1>1, <2>2, <2>3, CycleAccounts
<1>8. ASSUME From(a) \notin DOMAIN s.dist PROVE price' \in [net.nodes -> Int]
  <2>1. leaving \in SUBSET Arcs(net) BY DEF Usable
  <2>2. delta \in Int BY <1>1, <1>3, <2>1, LeastRise
  <2> HIDE DEF delta, s
  <2> QED BY <1>1, <1>2, <1>8, <2>2
<1> HIDE DEF s, cycle, delta, a
<1> QED BY <1>1, <1>2, <1>7, <1>8 DEF ImproverNext, ImproverKeeps, ImproverPhases

(***************************************************************************)
(* Passes over the live arcs.                                              *)
(***************************************************************************)

\* One arc of a pass.
ImproveOver(t, a) == IF R(a) > 0 /\ From(a) \in DOMAIN t.dist
                     THEN Improve(t, a, t.dist[From(a)] + ArcCost(net, a)) ELSE t

PassesWithin(D, n, seq) == \A x \in D : \A i \in 1 .. n : ImproveOver(x, seq[i]) \in D
PassingRun(h, n, D, base, seq) ==
    /\ h \in [0 .. n -> D] /\ h[0] = base
    /\ \A i \in 1 .. n : h[i] = ImproveOver(h[i - 1], seq[i])

\* A pass as a run over the arcs.
LEMMA PassedRuns ==
    ASSUME NEW s, NEW D, NEW base, base \in D, NEW n \in Nat, NEW seq, DOMAIN seq = 1 .. n,
           PassesWithin(D, n, seq),
           seq = NodeArcs, base = [s EXCEPT !.last = 0]
    PROVE  \E h : PassingRun(h, n, D, base, seq) /\ h[n] = Pass(s)
<1> DEFINE step(x, i) == ImproveOver(x, seq[i])
           op == [z \in D \X (1 .. n) |-> step(z[1], z[2])]
           raw(g, y) == IF y = {} THEN base ELSE
                          With(g[y \ {Seqs!Max(y)}], LAMBDA u : With(seq[Seqs!Max(y)],
                                                       LAMBDA b : ImproveOver(u, b)))
           E(g) == g = [y \in SUBSET (1 .. n) |-> raw(g, y)]
           c == CHOOSE g : E(g)
<1>1. Pass(s) = c[1 .. n] BY DEF Pass, ImproveOver, Folded, Seqs!FoldLeft, Seqs!MapThenFoldSet
<1>2. \A g, y : raw(g, y) = IF y = {} THEN base ELSE step(g[y \ {Finite!Max(y)}], Finite!Max(y))
  BY SeqsMax DEF With
<1>3. IsStep(op, D, 1 .. n) /\ \A x \in D : \A i \in 1 .. n : op[<<x, i>>] = step(x, i)
  BY DEF IsStep, PassesWithin
<1> HIDE DEF raw, step, op
<1>4. PICK g : g \in [SUBSET (1 .. n) -> D] /\ Follows(g, n, D, base, op) BY <1>3, FollowerExists
<1>5. E(g) BY <1>2, <1>3, <1>4, BeforeLast DEF Follows
<1>6. \A y \in SUBSET (1 .. n) : c[y] = raw(c, y) BY <1>5
<1> HIDE DEF c
<1>7. Follows(c, n, D, base, op) BY <1>2, <1>3, <1>6, BeforeLast DEF Follows
<1>8. PICK h : IsRun(h, n, D, base, op) /\ h[n] = c[1 .. n] BY <1>3, <1>7, FollowsIsRun
<1>9. \A i \in 1 .. n : i - 1 \in 0 .. n OBVIOUS
<1>10. \A i \in 1 .. n : h[i] = step(h[i - 1], i) BY <1>3, <1>8, <1>9 DEF IsRun
<1> QED BY <1>1, <1>8, <1>10 DEF IsRun, step, PassingRun

RepeatsPassWithin(D, n, seq) == \A x \in D : \A i \in 1 .. n : Pass(x) \in D
PassesRun(h, n, D, base, seq) ==
    /\ h \in [0 .. n -> D] /\ h[0] = base
    /\ \A i \in 1 .. n : h[i] = Pass(h[i - 1])

\* Passes one after another as a run.
LEMMA RepeatedPasses ==
    ASSUME NEW D, NEW base, base \in D, NEW n \in Nat, NEW seq, DOMAIN seq = 1 .. n,
           RepeatsPassWithin(D, n, seq),
           seq = [i \in 1 .. n |-> i]
    PROVE  \E h : PassesRun(h, n, D, base, seq) /\ h[n] = Repeat(Pass, n, base)
<1> DEFINE step(x, i) == Pass(x)
           op == [z \in D \X (1 .. n) |-> step(z[1], z[2])]
           raw(g, y) == IF y = {} THEN base ELSE
                          With(g[y \ {Seqs!Max(y)}], LAMBDA u : With(seq[Seqs!Max(y)],
                                                       LAMBDA b : Pass(u)))
           E(g) == g = [y \in SUBSET (1 .. n) |-> raw(g, y)]
           c == CHOOSE g : E(g)
<1>1. Repeat(Pass, n, base) = c[1 .. n] BY DEF Repeat, Folded, Seqs!FoldLeft, Seqs!MapThenFoldSet
<1>2. \A g, y : raw(g, y) = IF y = {} THEN base ELSE step(g[y \ {Finite!Max(y)}], Finite!Max(y))
  BY SeqsMax DEF With
<1>3. IsStep(op, D, 1 .. n) /\ \A x \in D : \A i \in 1 .. n : op[<<x, i>>] = step(x, i)
  BY DEF IsStep, RepeatsPassWithin
<1> HIDE DEF raw, step, op
<1>4. PICK g : g \in [SUBSET (1 .. n) -> D] /\ Follows(g, n, D, base, op) BY <1>3, FollowerExists
<1>5. E(g) BY <1>2, <1>3, <1>4, BeforeLast DEF Follows
<1>6. \A y \in SUBSET (1 .. n) : c[y] = raw(c, y) BY <1>5
<1> HIDE DEF c
<1>7. Follows(c, n, D, base, op) BY <1>2, <1>3, <1>6, BeforeLast DEF Follows
<1>8. PICK h : IsRun(h, n, D, base, op) /\ h[n] = c[1 .. n] BY <1>3, <1>7, FollowsIsRun
<1>9. \A i \in 1 .. n : i - 1 \in 0 .. n OBVIOUS
<1>10. \A i \in 1 .. n : h[i] = step(h[i - 1], i) BY <1>3, <1>8, <1>9 DEF IsRun
<1> QED BY <1>1, <1>8, <1>10 DEF IsRun, step, PassesRun

\* Some steps back along the arcs of a search.
BackBy(s, m, x) == Repeat(LAMBDA v : From(s.by[v]), m, x)
BackRun(s, m, x, h) == /\ DOMAIN h = 0 .. m /\ h[0] = x
                       /\ \A i \in 1 .. m : h[i] = From(s.by[h[i - 1]])

\* The steps back exist for every length.
LEMMA BackRunExists ==
    ASSUME NEW s, NEW x, NEW m \in Nat
    PROVE  \E h : BackRun(s, m, x, h)
<1> DEFINE good == {i \in 0 .. m : \E h : BackRun(s, i, x, h)}
<1>1. 0 \in good
  <2> DEFINE h == [i \in 0 .. 0 |-> x]
  <2>1. BackRun(s, 0, x, h) BY DEF BackRun
  <2> QED BY <2>1
<1>2. ASSUME NEW i \in 0 .. m, i > 0, i - 1 \in good PROVE i \in good
  <2>1. PICK h : BackRun(s, i - 1, x, h) BY <1>2
  <2> DEFINE g == [j \in 0 .. i |-> IF j < i THEN h[j] ELSE From(s.by[h[i - 1]])]
  <2>2. BackRun(s, i, x, g)
    <3>1. DOMAIN g = 0 .. i /\ g[0] = x BY <1>2, <2>1 DEF BackRun
    <3>2. ASSUME NEW j \in 1 .. i PROVE g[j] = From(s.by[g[j - 1]])
      <4>1. j - 1 \in 0 .. i /\ j \in 0 .. i /\ j - 1 < i OBVIOUS
      <4>2. CASE j < i BY <2>1, <4>1, <4>2 DEF BackRun
      <4>3. CASE j = i BY <4>1, <4>3
      <4> QED BY <4>2, <4>3
    <3> QED BY <3>1, <3>2 DEF BackRun
  <2> HIDE DEF g
  <2> QED BY <2>2
<1> HIDE DEF good
<1>3. 0 .. m \subseteq good BY <1>1, <1>2, UpToInduction
<1> QED BY <1>3 DEF good

\* Such runs are one and the same as far as they go.
LEMMA BackRunsAgree ==
    ASSUME NEW s, NEW x, NEW m \in Nat, NEW h, BackRun(s, m, x, h), NEW l \in Nat, m <= l, NEW g, BackRun(s, l, x, g)
    PROVE  \A i \in 0 .. m : h[i] = g[i]
<1> DEFINE good == {i \in 0 .. m : h[i] = g[i]}
<1>1. 0 \in good BY DEF BackRun
<1>2. ASSUME NEW i \in 0 .. m, i > 0, i - 1 \in good PROVE i \in good BY <1>2 DEF BackRun
<1> HIDE DEF good
<1>3. 0 .. m \subseteq good BY <1>1, <1>2, UpToInduction
<1> QED BY <1>3 DEF good

\* And they are where the model's walk back gets to.
LEMMA BackByRuns ==
    ASSUME NEW s, NEW x, NEW n \in Nat, NEW h, BackRun(s, n, x, h)
    PROVE  BackBy(s, n, x) = h[n]
<1> DEFINE seq == [i \in 1 .. n |-> i]
           raw(g, y) == IF y = {} THEN x ELSE
                          With(g[y \ {Seqs!Max(y)}], LAMBDA u : With(seq[Seqs!Max(y)], LAMBDA b : From(s.by[u])))
           E(g) == g = [y \in SUBSET (1 .. n) |-> raw(g, y)]
           c == CHOOSE g : E(g)
           d == [y \in SUBSET (1 .. n) |-> h[Cardinality(y)]]
<1>1. BackBy(s, n, x) = c[1 .. n] BY DEF BackBy, Repeat, Folded, Seqs!FoldLeft, Seqs!MapThenFoldSet
<1>2. \A g, y : raw(g, y) = IF y = {} THEN x ELSE From(s.by[g[y \ {Finite!Max(y)}]]) BY SeqsMax DEF With
<1> HIDE DEF raw
<1>3. ASSUME NEW y \in SUBSET (1 .. n), y # {}
      PROVE  /\ Finite!Max(y) \in y /\ y \ {Finite!Max(y)} \in SUBSET (1 .. n)
             /\ Cardinality(y) \in 1 .. n /\ Cardinality(y \ {Finite!Max(y)}) = Cardinality(y) - 1
             /\ Cardinality(y) - 1 \in 0 .. n
  <2>1. IsFiniteSet(1 .. n) /\ Cardinality(1 .. n) = n BY FS_Interval
  <2>2. IsFiniteSet(y) /\ Cardinality(y) <= n BY <2>1, FS_Subset
  <2>3. y \subseteq Int OBVIOUS
  <2>4. Finite!Max(y) \in y BY <1>3, <2>2, <2>3, MaxIsGreatest
  <2>5. Cardinality(y \ {Finite!Max(y)}) = Cardinality(y) - 1 BY <2>2, <2>4, FS_RemoveElement
  <2>6. Cardinality(y) \in Nat /\ Cardinality(y) # 0 BY <1>3, <2>2, FS_CardinalityType, FS_EmptySet
  <2>7. Cardinality(y) \in 1 .. n /\ Cardinality(y) - 1 \in 0 .. n BY <2>2, <2>6
  <2> DEFINE top == Finite!Max(y)
  <2> HIDE DEF top
  <2>8. y \ {top} \in SUBSET (1 .. n) OBVIOUS
  <2> QED BY <2>4, <2>5, <2>7, <2>8 DEF top
<1>4. ASSUME NEW y \in SUBSET (1 .. n) PROVE d[y] = raw(d, y)
  <2>1. CASE y = {} BY <1>2, <2>1, FS_EmptySet DEF BackRun
  <2>2. CASE y # {}
    <3>1. d[y] = h[Cardinality(y)] /\ d[y \ {Finite!Max(y)}] = h[Cardinality(y) - 1] BY <1>3, <2>2
    <3>2. h[Cardinality(y)] = From(s.by[h[Cardinality(y) - 1]]) BY <1>3, <2>2 DEF BackRun
    <3>3. raw(d, y) = From(s.by[d[y \ {Finite!Max(y)}]]) BY <1>2, <2>2
    <3> QED BY <3>1, <3>2, <3>3
  <2> QED BY <2>1, <2>2
<1>5. E(d) BY <1>4
<1>6. \A y \in SUBSET (1 .. n) : c[y] = raw(c, y) BY <1>5
<1> HIDE DEF c, d
<1> DEFINE good == {i \in 0 .. n : c[1 .. i] = h[i]}
<1>7. 0 \in good
  <2>1. 1 .. 0 = {} /\ {} \in SUBSET (1 .. n) OBVIOUS
  <2>2. raw(c, {}) = x BY <1>2
  <2> QED BY <1>6, <2>1, <2>2 DEF BackRun
<1>8. ASSUME NEW i \in 0 .. n, i > 0, i - 1 \in good PROVE i \in good
  <2>0. i \in 1 .. n /\ 1 \in 1 .. i /\ \A j \in 1 .. i : j \in 1 .. n BY <1>8
  <2>1. 1 .. i \in SUBSET (1 .. n) /\ 1 .. i # {} /\ i \in 1 .. n BY <2>0
  <2>2. Finite!Max(1 .. i) = i /\ (1 .. i) \ {i} = 1 .. (i - 1) BY <1>8, LastOfFirst
  <2>3. c[1 .. i] = From(s.by[c[1 .. (i - 1)]]) BY <1>2, <1>6, <2>1, <2>2
  <2>4. c[1 .. (i - 1)] = h[i - 1] BY <1>8
  <2> QED BY <2>1, <2>3, <2>4 DEF BackRun
<1> HIDE DEF good
<1>9. 0 .. n \subseteq good BY <1>7, <1>8, UpToInduction
<1> QED BY <1>1, <1>9 DEF good

\* Every step back is one more.
LEMMA BackSteps ==
    ASSUME NEW s, NEW x, NEW m \in Nat
    PROVE  BackBy(s, 0, x) = x /\ BackBy(s, m + 1, x) = From(s.by[BackBy(s, m, x)])
<1>1. PICK h : BackRun(s, m + 1, x, h) BY BackRunExists
<1>2. PICK g : BackRun(s, m, x, g) BY BackRunExists
<1>3. h[m] = g[m] BY <1>1, <1>2, BackRunsAgree
<1>4. BackBy(s, m, x) = g[m] /\ BackBy(s, m + 1, x) = h[m + 1] BY <1>1, <1>2, BackByRuns
<1>5. h[m + 1] = From(s.by[h[m]])
  <2>1. m + 1 \in 1 .. (m + 1) /\ (m + 1) - 1 = m OBVIOUS
  <2> QED BY <1>1, <2>1 DEF BackRun
<1>6. PICK z : BackRun(s, 0, x, z) BY BackRunExists
<1>7. BackBy(s, 0, x) = x BY <1>6, BackByRuns DEF BackRun
<1> QED BY <1>3, <1>4, <1>5, <1>7

\* Steps back from where steps back lead.
LEMMA BackFurther ==
    ASSUME NEW s, NEW x, NEW m \in Nat, NEW l \in Nat
    PROVE  BackBy(s, l, BackBy(s, m, x)) = BackBy(s, m + l, x)
<1> DEFINE y == BackBy(s, m, x)
           good == {i \in 0 .. l : BackBy(s, i, y) = BackBy(s, m + i, x)}
<1>1. 0 \in good BY BackSteps
<1>2. ASSUME NEW i \in 0 .. l, i > 0, i - 1 \in good PROVE i \in good
  <2>1. i - 1 \in Nat /\ m + (i - 1) \in Nat /\ (i - 1) + 1 = i /\ (m + (i - 1)) + 1 = m + i BY <1>2
  <2> HIDE DEF y
  <2>2. BackBy(s, (i - 1) + 1, y) = From(s.by[BackBy(s, i - 1, y)]) BY <2>1, BackSteps
  <2>3. BackBy(s, (m + (i - 1)) + 1, x) = From(s.by[BackBy(s, m + (i - 1), x)]) BY <2>1, BackSteps
  <2> QED BY <1>2, <2>1, <2>2, <2>3
<1> HIDE DEF good
<1>3. 0 .. l \subseteq good BY <1>1, <1>2, UpToInduction
<1> QED BY <1>3 DEF good

\* The arcs node by node are all the arcs.
LEMMA NodeArcsList ==
    ASSUME net \in Problems
    PROVE  NodeArcs \in Seq(Arcs(net)) /\ \A a \in Arcs(net) : \E i \in 1 .. Len(NodeArcs) : NodeArcs[i] = a
<1> DEFINE A == Arcs(net)
           seqs == [v \in 1 .. N |-> net.outgoing[v]]
           Lists(f, i) == f \in Seq(A) /\ \A a \in A : From(a) <= i => \E j \in 1 .. Len(f) : f[j] = a
           E(g) == g = [i \in 1 .. Len(seqs) |-> IF i = 1 THEN seqs[i] ELSE g[i - 1] \o seqs[i]]
           op == [z \in Seq(A) \X (1 .. N) |-> z[1] \o seqs[z[2]]]
           c == CHOOSE g : E(g)
<1>1. /\ N \in Nat /\ N > 0 /\ net.nodes = 1 .. N /\ net.outgoing \in [net.nodes -> Seq(A)]
      /\ \A v \in net.nodes : {net.outgoing[v][i] : i \in DOMAIN net.outgoing[v]} = {a \in A : ArcFrom(net, a) = v}
  BY ProblemsAssumption, FS_CardinalityType DEF IsNetwork, N
<1>2. seqs \in Seq(Seq(A)) /\ Len(seqs) = N /\ \A i \in 1 .. N : seqs[i] \in Seq(A) /\ seqs[i] = net.outgoing[i]
  <2>1. seqs \in [1 .. N -> Seq(A)] BY <1>1
  <2>2. \A i \in 1 .. N : seqs[i] = net.outgoing[i] OBVIOUS
  <2> HIDE DEF seqs, A
  <2>3. seqs \in Seq(Seq(A)) /\ Len(seqs) = N BY <1>1, <2>1
  <2>4. \A i \in 1 .. N : seqs[i] \in Seq(A) BY <2>1
  <2> QED BY <2>2, <2>3, <2>4
<1> HIDE DEF seqs
<1>3. NodeArcs = c[N] BY <1>1, <1>2 DEF NodeArcs, Seqs!FlattenSeq, seqs
<1>4. IsStep(op, Seq(A), 1 .. N) BY <1>2, ConcatProperties DEF IsStep
<1> DEFINE D == Seq(A)
           base == <<>>
<1>a. base \in D OBVIOUS
<1> HIDE DEF op, D, base
<1>b. IsStep(op, D, 1 .. N) BY <1>4 DEF D
<1>5. PICK g : g \in [SUBSET (1 .. N) -> D] /\ Follows(g, N, D, base, op) BY <1>1, <1>a, <1>b, FollowerExists
<1>c. PICK h : IsRun(h, N, D, base, op) /\ h[N] = g[1 .. N] BY <1>1, <1>a, <1>b, <1>5, FollowsIsRun
<1>6. IsRun(h, N, Seq(A), <<>>, op) BY <1>c DEF D, base
<1>7. E([i \in 1 .. N |-> h[i]])
  <2> DEFINE f == [i \in 1 .. N |-> h[i]]
  <2>1. ASSUME NEW i \in 1 .. N PROVE f[i] = IF i = 1 THEN seqs[i] ELSE f[i - 1] \o seqs[i]
    <3>1. h[i] = op[<<h[i - 1], i>>] /\ h[i - 1] \in Seq(A) /\ h[0] = <<>> BY <1>1, <1>6 DEF IsRun
    <3>2. h[i] = h[i - 1] \o seqs[i] BY <3>1 DEF op
    <3>3. CASE i = 1
      <4>0. i - 1 = 0 /\ 1 \in 1 .. N BY <3>3
      <4>1. h[1] = <<>> \o seqs[1] /\ seqs[1] \in Seq(A) BY <1>2, <3>1, <3>2, <3>3, <4>0
      <4>2. h[1] = seqs[1] BY <4>1
      <4> QED BY <3>3, <4>2
    <3>4. CASE i # 1
      <4>1. i - 1 \in 1 .. N BY <1>1, <3>4
      <4>2. f[i - 1] = h[i - 1] /\ f[i] = h[i] BY <4>1
      <4> HIDE DEF f
      <4> QED BY <3>2, <3>4, <4>2
    <3> QED BY <3>3, <3>4
  <2> QED BY <1>2, <2>1
<1>8. \A i \in 1 .. N : c[i] = IF i = 1 THEN seqs[i] ELSE c[i - 1] \o seqs[i] BY <1>2, <1>7
<1> HIDE DEF c
<1> DEFINE good == {0} \cup {i \in 1 .. N : Lists(c[i], i)}
<1>9. ASSUME NEW i \in 1 .. N, NEW a \in A, From(a) = i PROVE \E j \in 1 .. Len(seqs[i]) : seqs[i][j] = a
  <2>1. a \in {net.outgoing[i][j] : j \in DOMAIN net.outgoing[i]}
    <3>1. i \in net.nodes /\ ArcFrom(net, a) = i BY <1>1, <1>9 DEF From
    <3>2. {net.outgoing[i][j] : j \in DOMAIN net.outgoing[i]} = {b \in A : ArcFrom(net, b) = i} BY <1>1, <3>1
    <3> QED BY <3>1, <3>2
  <2>2. net.outgoing[i] \in Seq(A) /\ seqs[i] = net.outgoing[i] BY <1>1, <1>2
  <2> QED BY <2>1, <2>2
<1>10. ASSUME NEW a \in A PROVE From(a) \in 1 .. N BY <1>1, <1>10, ArcEnds DEF From
<1>11. ASSUME NEW i \in 0 .. N, i > 0, i - 1 \in good PROVE i \in good
  <2>0. i \in 1 .. N BY <1>11
  <2>1. CASE i = 1
    <3>1. c[1] = seqs[1] /\ seqs[1] \in Seq(A) BY <1>2, <1>8, <2>0, <2>1
    <3>2. \A a \in A : From(a) <= 1 => \E j \in 1 .. Len(seqs[1]) : seqs[1][j] = a BY <1>9, <1>10, <2>0, <2>1
    <3> QED BY <2>0, <2>1, <3>1, <3>2
  <2>2. CASE i # 1
    <3> DEFINE x == c[i - 1]
               y == seqs[i]
               z == x \o y
    <3>1. c[i] = z /\ x \in Seq(A) /\ y \in Seq(A)
      <4>1. i - 1 \in 1 .. N /\ Lists(c[i - 1], i - 1) BY <1>11, <2>2
      <4>2. c[i] = c[i - 1] \o seqs[i] BY <1>8, <2>0, <2>2
      <4> QED BY <1>2, <2>0, <4>1, <4>2
    <3>2. \A a \in A : From(a) <= i - 1 => \E j \in 1 .. Len(x) : x[j] = a BY <1>11, <2>2
    <3>3. \A a \in A : From(a) = i => \E j \in 1 .. Len(y) : y[j] = a BY <1>9, <2>0
    <3> HIDE DEF x, y
    <3>4. /\ z \in Seq(A) /\ Len(z) = Len(x) + Len(y) /\ Len(x) \in Nat /\ Len(y) \in Nat
          /\ \A j \in 1 .. (Len(x) + Len(y)) : z[j] = IF j <= Len(x) THEN x[j] ELSE y[j - Len(x)]
      BY <3>1, ConcatProperties, LenProperties
    <3> HIDE DEF z
    <3>5. ASSUME NEW a \in A, From(a) <= i PROVE \E j \in 1 .. Len(z) : z[j] = a
      <4>1. CASE From(a) <= i - 1 BY <3>2, <3>4, <4>1
      <4>2. CASE ~(From(a) <= i - 1)
        <5>1. From(a) = i BY <1>10, <2>0, <3>5, <4>2
        <5>2. PICK j \in 1 .. Len(y) : y[j] = a BY <3>3, <5>1
        <5>3. Len(x) + j \in 1 .. Len(z) /\ ~(Len(x) + j <= Len(x)) /\ (Len(x) + j) - Len(x) = j BY <3>4
        <5>4. z[Len(x) + j] = y[j] BY <3>4, <5>3
        <5> QED BY <5>2, <5>3, <5>4
      <4> QED BY <4>1, <4>2
    <3> QED BY <2>0, <3>1, <3>4, <3>5
  <2> QED BY <2>1, <2>2
<1> HIDE DEF good
<1>12. 0 \in good BY DEF good
<1>13. 0 .. N \subseteq good BY <1>1, <1>11, <1>12, UpToInduction
<1>14. Lists(c[N], N) BY <1>1, <1>13 DEF good
<1> QED BY <1>1, <1>3, <1>10, <1>14

(***************************************************************************)
(* When a pass improved a node last: the node it was improved from had     *)
(* been improved one pass before at the earliest, so nodes improved in     *)
(* the last of many passes are improved along many arcs, and what was not  *)
(* improved lately has its arcs relaxed.                                   *)
(***************************************************************************)
Shapes == [dist : Partial(net.nodes, Int), by : Partial(net.nodes, Arcs(net)), last : net.nodes \cup {0}]
Rests(x, a) == To(a) \in DOMAIN x.dist /\ x.dist[To(a)] <= x.dist[From(a)] + ArcCost(net, a)

\* Every node was improved by a live arc and is no nearer than that arc makes it.
Hung(x) == \A v \in DOMAIN x.by :
    /\ v \in DOMAIN x.dist /\ To(x.by[v]) = v /\ From(x.by[v]) \in DOMAIN x.dist /\ R(x.by[v]) > 0
    /\ x.dist[v] >= x.dist[From(x.by[v])] + ArcCost(net, x.by[v])

\* In which pass the nodes were improved last, during pass i and after j of its arcs.
TimedBy(i, j, x, t) ==
    /\ t \in [DOMAIN x.dist -> 0 .. i]
    /\ \A v \in DOMAIN x.dist : t[v] > 0 => v \in DOMAIN x.by /\ t[From(x.by[v])] >= t[v] - 1
    /\ \A a \in Arcs(net) :
           R(a) > 0 /\ From(a) \in DOMAIN x.dist
               /\ (t[From(a)] <= i - 2 \/ (t[From(a)] = i - 1 /\ \E m \in 1 .. j : NodeArcs[m] = a))
           => Rests(x, a)
    /\ x.last = 0 => \A v \in DOMAIN x.dist : t[v] <= i - 1
    /\ x.last # 0 => x.last \in DOMAIN x.dist /\ t[x.last] = i
Passing(roots, i, j, x) ==
    /\ x \in Shapes /\ roots \subseteq DOMAIN x.dist /\ DOMAIN x.dist \ roots \subseteq DOMAIN x.by /\ Hung(x)
    /\ \E t : TimedBy(i, j, x, t)

\* What improving a node changes.
Improved(x, y, a) ==
    /\ y \in Shapes /\ y.last = To(a)
    /\ DOMAIN y.dist = DOMAIN x.dist \cup {To(a)} /\ DOMAIN y.by = DOMAIN x.by \cup {To(a)}
    /\ y.dist[To(a)] = x.dist[From(a)] + ArcCost(net, a) /\ y.by[To(a)] = a
    /\ \A z \in DOMAIN x.dist : z # To(a) => y.dist[z] = x.dist[z]
    /\ \A z \in DOMAIN x.by : z # To(a) => y.by[z] = x.by[z]
    /\ \A z \in DOMAIN x.dist : y.dist[z] <= x.dist[z]

\* One arc either improves its end or may rest.
LEMMA ImproveOverIs ==
    ASSUME net \in Problems, NEW x \in Shapes, NEW a \in Arcs(net)
    PROVE  \/ /\ ImproveOver(x, a) = x
              /\ R(a) > 0 /\ From(a) \in DOMAIN x.dist => Rests(x, a)
           \/ /\ R(a) > 0 /\ From(a) \in DOMAIN x.dist /\ ~Rests(x, a)
              /\ Improved(x, ImproveOver(x, a), a)
<1> DEFINE y == ImproveOver(x, a)
<1>a. PICK w : w = To(a) OBVIOUS
<1>b. PICK u : u = From(a) OBVIOUS
<1>c. PICK d : d = x.dist[u] + ArcCost(net, a) OBVIOUS
<1>1. w \in net.nodes /\ u \in net.nodes /\ ArcCost(net, a) \in Int BY <1>a, <1>b, ArcEnds DEF From, To
<1>2. x.dist \in Partial(net.nodes, Int) /\ x.by \in Partial(net.nodes, Arcs(net)) /\ x.dist \in [DOMAIN x.dist -> Int]
  BY PartialMap DEF Shapes
<1>3. CASE ~(R(a) > 0 /\ u \in DOMAIN x.dist) BY <1>b, <1>3 DEF ImproveOver
<1>4. CASE R(a) > 0 /\ u \in DOMAIN x.dist /\ w \in DOMAIN x.dist /\ x.dist[w] <= d
  BY <1>a, <1>b, <1>c, <1>4 DEF ImproveOver, Improve, Rests
<1>5. CASE R(a) > 0 /\ u \in DOMAIN x.dist /\ ~(w \in DOMAIN x.dist /\ x.dist[w] <= d)
  <2>0. x.dist[u] \in Int /\ d \in Int BY <1>1, <1>2, <1>5, <1>c
  <2>1. y = [x EXCEPT !.dist = Put(@, w, d), !.by = Put(@, w, a), !.last = w]
    BY <1>a, <1>b, <1>c, <1>5 DEF ImproveOver, Improve
  <2>2. Put(x.dist, w, d) \in Partial(net.nodes, Int) BY <1>1, <1>2, <2>0, PutIn
  <2>3. Put(x.by, w, a) \in Partial(net.nodes, Arcs(net)) BY <1>1, <1>2, PutIn
  <2>4. y \in Shapes /\ y.dist = Put(x.dist, w, d) /\ y.by = Put(x.by, w, a) /\ y.last = w
    BY <1>1, <2>1, <2>2, <2>3 DEF Shapes
  <2> HIDE DEF y
  <2>5. /\ DOMAIN y.dist = DOMAIN x.dist \cup {w} /\ y.dist[w] = d
        /\ \A z \in DOMAIN x.dist : z # w => y.dist[z] = x.dist[z]
    BY <2>4 DEF Put
  <2>6. /\ DOMAIN y.by = DOMAIN x.by \cup {w} /\ y.by[w] = a
        /\ \A z \in DOMAIN x.by : z # w => y.by[z] = x.by[z]
    BY <2>4 DEF Put
  <2>7. ASSUME NEW z \in DOMAIN x.dist PROVE y.dist[z] <= x.dist[z]
    <3>1. x.dist[z] \in Int BY <1>2
    <3>2. CASE z = w BY <1>5, <2>0, <2>5, <3>1, <3>2
    <3>3. CASE z # w BY <2>5, <3>1, <3>3
    <3> QED BY <3>2, <3>3
  <2>8. ~Rests(x, a) BY <1>5, <1>a, <1>b, <1>c DEF Rests
  <2>9. Improved(x, y, a) BY <1>a, <1>b, <1>c, <2>4, <2>5, <2>6, <2>7 DEF Improved
  <2> QED BY <1>5, <1>b, <2>8, <2>9 DEF y
<1> QED BY <1>3, <1>4, <1>5

\* An improvement hangs the node below the arc's start.
LEMMA HungBelow ==
    ASSUME net \in Problems, NEW x \in Shapes, Hung(x), NEW a \in Arcs(net), R(a) > 0, From(a) \in DOMAIN x.dist,
           ~Rests(x, a), NEW y, Improved(x, y, a)
    PROVE  Hung(y)
<1>a. PICK w : w = To(a) OBVIOUS
<1>b. PICK u : u = From(a) OBVIOUS
<1>c. PICK c : c = ArcCost(net, a) OBVIOUS
<1> DEFINE V == DOMAIN x.dist
<1>1. /\ u \in V /\ c \in Int /\ x.dist \in [V -> Int]
      /\ DOMAIN y.dist = V \cup {w} /\ DOMAIN y.by = DOMAIN x.by \cup {w}
      /\ y.dist[w] = x.dist[u] + c /\ y.by[w] = a
      /\ \A z \in V : z # w => y.dist[z] = x.dist[z]
      /\ \A z \in DOMAIN x.by : z # w => y.by[z] = x.by[z]
      /\ \A z \in V : y.dist[z] <= x.dist[z]
  BY PartialMap, <1>c, ArcEnds, <1>a, <1>b DEF Shapes, Improved
<1>2. \A z \in V : y.dist[z] \in Int BY <1>1
<1>3. w \in V => ~(x.dist[w] <= x.dist[u] + c) BY <1>a, <1>b, <1>c DEF Rests
<1> HIDE DEF V
<1>4. y.dist[w] >= y.dist[u] + c
  <2>0. x.dist[u] \in Int BY <1>1
  <2>1. CASE u = w BY <1>1, <1>3, <2>0, <2>1
  <2>2. CASE u # w BY <1>1, <2>0, <2>2
  <2> QED BY <2>1, <2>2
<1>5. ASSUME NEW v \in DOMAIN x.by, v # w
      PROVE  /\ v \in V /\ To(x.by[v]) = v /\ From(x.by[v]) \in V /\ R(x.by[v]) > 0
             /\ y.dist[v] >= y.dist[From(x.by[v])] + ArcCost(net, x.by[v])
  <2>1. /\ v \in V /\ To(x.by[v]) = v /\ From(x.by[v]) \in V /\ R(x.by[v]) > 0
        /\ x.dist[v] >= x.dist[From(x.by[v])] + ArcCost(net, x.by[v])
    BY DEF Hung, V
  <2>2. ArcCost(net, x.by[v]) \in Int BY PartialMap, ArcEnds DEF Shapes
  <2>3. y.dist[v] = x.dist[v] /\ x.dist[v] \in Int BY <1>1, <1>5, <2>1
  <2>4. /\ y.dist[From(x.by[v])] <= x.dist[From(x.by[v])]
        /\ y.dist[From(x.by[v])] \in Int /\ x.dist[From(x.by[v])] \in Int
    BY <1>1, <1>2, <2>1
  <2> QED BY <2>1, <2>2, <2>3, <2>4
<1>6. ASSUME NEW v \in DOMAIN y.by
      PROVE  /\ v \in DOMAIN y.dist /\ To(y.by[v]) = v /\ From(y.by[v]) \in DOMAIN y.dist /\ R(y.by[v]) > 0
             /\ y.dist[v] >= y.dist[From(y.by[v])] + ArcCost(net, y.by[v])
  BY <1>1, <1>4, <1>5, <1>a, <1>b, <1>c
<1> QED BY <1>6 DEF Hung

\* One arc of a pass.
LEMMA ImproveTimed ==
    ASSUME net \in Problems, NEW roots, NEW i \in Nat, i > 0, NEW j \in Nat, NEW x, Passing(roots, i, j, x),
           NEW a \in Arcs(net), a = NodeArcs[j + 1]
    PROVE  Passing(roots, i, j + 1, ImproveOver(x, a))
<1>1. /\ x \in Shapes /\ roots \subseteq DOMAIN x.dist /\ DOMAIN x.dist \ roots \subseteq DOMAIN x.by /\ Hung(x)
  BY DEF Passing
<1>2. PICK t : TimedBy(i, j, x, t) BY DEF Passing
<1>3. \A m \in 1 .. (j + 1) : m \in 1 .. j \/ m = j + 1 OBVIOUS
<1>4. ASSUME ImproveOver(x, a) = x, R(a) > 0 /\ From(a) \in DOMAIN x.dist => Rests(x, a)
      PROVE  Passing(roots, i, j + 1, ImproveOver(x, a))
  <2>1. TimedBy(i, j + 1, x, t) BY <1>2, <1>3, <1>4 DEF TimedBy
  <2> QED BY <1>1, <1>4, <2>1 DEF Passing
<1>5. ASSUME R(a) > 0, From(a) \in DOMAIN x.dist, ~Rests(x, a), NEW y, y = ImproveOver(x, a), Improved(x, y, a)
      PROVE  Passing(roots, i, j + 1, y)
  <2>a. PICK w : w = To(a) OBVIOUS
  <2>b. PICK u : u = From(a) OBVIOUS
  <2>c. PICK c : c = ArcCost(net, a) OBVIOUS
  <2> DEFINE V == DOMAIN x.dist
             W == DOMAIN y.dist
             s == [z \in W |-> IF z = w THEN i ELSE t[z]]
  <2>1. /\ u \in V /\ W = V \cup {w} /\ DOMAIN y.by = DOMAIN x.by \cup {w}
        /\ y.dist[w] = x.dist[u] + c /\ y.by[w] = a /\ y.last = w /\ y \in Shapes
        /\ \A z \in V : z # w => y.dist[z] = x.dist[z]
        /\ \A z \in DOMAIN x.by : z # w => y.by[z] = x.by[z]
        /\ \A z \in V : y.dist[z] <= x.dist[z]
    BY <1>5, <2>a, <2>b, <2>c DEF Improved
  <2>2. /\ t \in [V -> 0 .. i]
        /\ \A v \in V : t[v] > 0 => v \in DOMAIN x.by /\ t[From(x.by[v])] >= t[v] - 1
        /\ \A v \in DOMAIN x.by : From(x.by[v]) \in V
    BY <1>1, <1>2 DEF TimedBy, Hung
  <2>3. w \in net.nodes /\ w # 0 BY <2>a, ArcEnds, ProblemsAssumption DEF To, IsNetwork
  <2>4. Hung(y) BY <1>1, <1>5, HungBelow
  <2>5. t[u] >= i - 1 BY <1>2, <1>5, <2>1, <2>2, <2>b DEF TimedBy
  <2>6. s \in [W -> 0 .. i] /\ s[w] = i /\ \A z \in V : s[z] >= t[z] /\ (z # w => s[z] = t[z]) BY <2>1, <2>2
  <2> HIDE DEF s, V, W
  <2>7. ASSUME NEW v \in W, s[v] > 0 PROVE v \in DOMAIN y.by /\ s[From(y.by[v])] >= s[v] - 1
    <3>1. CASE v = w BY <2>1, <2>2, <2>5, <2>6, <3>1, <2>b
    <3>2. CASE v # w
      <4>1. v \in V /\ s[v] = t[v] BY <2>1, <2>6, <3>2
      <4>2. v \in DOMAIN x.by /\ t[From(x.by[v])] >= t[v] - 1 /\ From(x.by[v]) \in V BY <2>2, <2>7, <4>1
      <4>3. y.by[v] = x.by[v] /\ s[From(x.by[v])] >= t[From(x.by[v])] BY <2>1, <2>6, <3>2, <4>2
      <4>4. s[From(x.by[v])] \in 0 .. i /\ t[From(x.by[v])] \in 0 .. i /\ t[v] \in 0 .. i
        BY <2>1, <2>2, <2>6, <4>1, <4>2
      <4> QED BY <2>1, <4>1, <4>2, <4>3, <4>4
    <3> QED BY <3>1, <3>2
  <2>8. ASSUME NEW b \in Arcs(net), R(b) > 0, From(b) \in W,
               s[From(b)] <= i - 2 \/ (s[From(b)] = i - 1 /\ \E m \in 1 .. (j + 1) : NodeArcs[m] = b)
        PROVE  Rests(y, b)
    <3>1. From(b) # w /\ From(b) \in V /\ s[From(b)] = t[From(b)] /\ y.dist[From(b)] = x.dist[From(b)]
      BY <2>1, <2>6, <2>8
    <3>2. CASE b = a BY <1>1, <2>1, <3>1, <3>2, PartialMap, <2>b, ArcEnds, <2>a, <2>c DEF Shapes, V, W, Rests
    <3>3. CASE b # a
      <4>1. Rests(x, b) BY <1>2, <1>3, <2>8, <3>1, <3>3 DEF TimedBy, V
      <4>2. To(b) \in V /\ x.dist[To(b)] <= x.dist[From(b)] + ArcCost(net, b) BY <4>1 DEF Rests, V
      <4>3. x.dist[To(b)] \in Int /\ x.dist[From(b)] \in Int /\ ArcCost(net, b) \in Int /\ y.dist[To(b)] \in Int
        BY <1>1, <2>1, <3>1, <4>2, PartialMap, ArcEnds DEF Shapes, V, W
      <4>4. y.dist[To(b)] <= x.dist[To(b)] BY <2>1, <4>2
      <4> QED BY <2>1, <3>1, <4>2, <4>3, <4>4 DEF Rests, W
    <3> QED BY <3>2, <3>3
  <2>9. TimedBy(i, j + 1, y, s) BY <2>1, <2>3, <2>6, <2>7, <2>8 DEF TimedBy, W
  <2> QED BY <1>1, <2>1, <2>4, <2>9 DEF Passing, V, W
<1> QED BY <1>1, <1>4, <1>5, ImproveOverIs

\* The next pass.
LEMMA PassTimed ==
    ASSUME net \in Problems, NEW roots, NEW i \in Nat, i > 0, NEW x, Passing(roots, i, Len(NodeArcs), x)
    PROVE  Passing(roots, i + 1, 0, [x EXCEPT !.last = 0])
<1> DEFINE y == [x EXCEPT !.last = 0]
<1>1. /\ x \in Shapes /\ roots \subseteq DOMAIN x.dist /\ DOMAIN x.dist \ roots \subseteq DOMAIN x.by /\ Hung(x)
  BY DEF Passing
<1>2. PICK t : TimedBy(i, Len(NodeArcs), x, t) BY DEF Passing
<1>3. y \in Shapes /\ y.dist = x.dist /\ y.by = x.by /\ y.last = 0 BY <1>1 DEF Shapes
<1> HIDE DEF y
<1>4. /\ t \in [DOMAIN x.dist -> 0 .. i]
      /\ \A v \in DOMAIN x.dist : t[v] > 0 => v \in DOMAIN x.by /\ t[From(x.by[v])] >= t[v] - 1
      /\ \A a \in Arcs(net) : R(a) > 0 /\ From(a) \in DOMAIN x.dist
               /\ (t[From(a)] <= i - 2 \/ (t[From(a)] = i - 1 /\ \E m \in 1 .. Len(NodeArcs) : NodeArcs[m] = a))
           => Rests(x, a)
  BY <1>2 DEF TimedBy
<1>5. ASSUME NEW a \in Arcs(net), R(a) > 0, From(a) \in DOMAIN x.dist, t[From(a)] <= (i + 1) - 2
      PROVE  Rests(x, a)
  <2>1. \E m \in 1 .. Len(NodeArcs) : NodeArcs[m] = a BY NodeArcsList
  <2>2. t[From(a)] \in 0 .. i BY <1>4, <1>5
  <2>3. t[From(a)] <= i - 2 \/ t[From(a)] = i - 1 BY <1>5, <2>2
  <2> QED BY <1>4, <1>5, <2>1, <2>3
<1>6. t \in [DOMAIN x.dist -> 0 .. (i + 1)] /\ \A v \in DOMAIN x.dist : t[v] <= (i + 1) - 1 BY <1>4
<1>7. TimedBy(i + 1, 0, y, t) BY <1>3, <1>4, <1>5, <1>6 DEF Rests, TimedBy
<1>8. Hung(y) BY <1>1, <1>3 DEF Hung
<1> QED BY <1>1, <1>3, <1>7, <1>8 DEF Passing, y

\* All arcs of a pass.
LEMMA PassedTimed ==
    ASSUME net \in Problems, NEW roots, NEW i \in Nat, i > 0, NEW x, Passing(roots, i, 0, [x EXCEPT !.last = 0])
    PROVE  Passing(roots, i, Len(NodeArcs), Pass(x)) /\ Pass(x) \in Shapes
<1> DEFINE base == [x EXCEPT !.last = 0]
           seq == NodeArcs
           n == Len(NodeArcs)
<1>1. base \in Shapes BY DEF Passing
<1>2. n \in Nat /\ DOMAIN seq = 1 .. n /\ \A m \in 1 .. n : seq[m] \in Arcs(net)
  BY NodeArcsList, LenProperties
<1>3. PassesWithin(Shapes, n, seq) BY <1>2, ImproveOverIs DEF PassesWithin, Improved
<1> HIDE DEF base, n, seq
<1>4. PICK h : PassingRun(h, n, Shapes, base, seq) /\ h[n] = Pass(x)
  BY <1>1, <1>2, <1>3, PassedRuns DEF base, seq
<1> DEFINE good == {m \in 0 .. n : Passing(roots, i, m, h[m])}
<1>5. 0 \in good BY <1>2, <1>4 DEF PassingRun, base
<1>6. ASSUME NEW m \in 0 .. n, m > 0, m - 1 \in good PROVE m \in good
  <2>1. m \in 1 .. n /\ m - 1 \in Nat /\ (m - 1) + 1 = m BY <1>6
  <2>2. h[m] = ImproveOver(h[m - 1], seq[m]) BY <1>4, <2>1 DEF PassingRun
  <2>3. seq[m] \in Arcs(net) /\ seq[m] = NodeArcs[(m - 1) + 1] BY <1>2, <2>1 DEF seq
  <2>4. Passing(roots, i, (m - 1) + 1, ImproveOver(h[m - 1], seq[m])) BY <1>6, <2>1, <2>3, ImproveTimed
  <2> QED BY <1>6, <2>1, <2>2, <2>4
<1> HIDE DEF good
<1>7. 0 .. n \subseteq good BY <1>2, <1>5, <1>6, UpToInduction
<1>8. n \in 0 .. n BY <1>2
<1>9. Passing(roots, i, n, Pass(x)) /\ Pass(x) \in Shapes BY <1>4, <1>7, <1>8 DEF good, PassingRun
<1> QED BY <1>9 DEF n

\* Passes one after another.
LEMMA PassesTimed ==
    ASSUME net \in Problems, NEW roots, NEW x \in Shapes, Passing(roots, 1, 0, [x EXCEPT !.last = 0]),
           NEW n \in Nat, n > 0
    PROVE  Passing(roots, n, Len(NodeArcs), Repeat(Pass, n, x))
<1> DEFINE seq == [i \in 1 .. n |-> i]
<1>1. RepeatsPassWithin(Shapes, n, seq)
  <2> SUFFICES ASSUME NEW z \in Shapes PROVE Pass(z) \in Shapes BY DEF RepeatsPassWithin
  <2> DEFINE base == [z EXCEPT !.last = 0]
             arcs == NodeArcs
             m == Len(NodeArcs)
  <2>1. base \in Shapes BY DEF Shapes
  <2>2. m \in Nat /\ DOMAIN arcs = 1 .. m /\ \A l \in 1 .. m : arcs[l] \in Arcs(net)
    BY NodeArcsList, LenProperties
  <2>3. PassesWithin(Shapes, m, arcs) BY <2>2, ImproveOverIs DEF PassesWithin, Improved
  <2> HIDE DEF base, m, arcs
  <2>4. PICK h : PassingRun(h, m, Shapes, base, arcs) /\ h[m] = Pass(z)
    BY <2>1, <2>2, <2>3, PassedRuns DEF base, arcs
  <2>5. m \in 0 .. m BY <2>2
  <2> QED BY <2>4, <2>5 DEF PassingRun
<1>2. DOMAIN seq = 1 .. n OBVIOUS
<1>3. PICK h : PassesRun(h, n, Shapes, x, seq) /\ h[n] = Repeat(Pass, n, x) BY <1>1, <1>2, RepeatedPasses
<1>4. h \in [0 .. n -> Shapes] /\ h[0] = x /\ \A i \in 1 .. n : h[i] = Pass(h[i - 1]) BY <1>3 DEF PassesRun
<1> DEFINE good == {0} \cup {i \in 1 .. n : Passing(roots, i, Len(NodeArcs), h[i])}
<1>5. 0 \in good OBVIOUS
<1>6. ASSUME NEW i \in 0 .. n, i > 0, i - 1 \in good PROVE i \in good
  <2>1. i \in 1 .. n /\ i \in Nat BY <1>6
  <2>2. Passing(roots, i, 0, [h[i - 1] EXCEPT !.last = 0])
    <3>1. CASE i = 1 BY <1>4, <3>1
    <3>2. CASE i # 1
      <4>1. i - 1 \in Nat /\ i - 1 > 0 /\ (i - 1) + 1 = i BY <2>1, <3>2
      <4>2. Passing(roots, i - 1, Len(NodeArcs), h[i - 1]) BY <1>6, <4>1
      <4>3. Passing(roots, (i - 1) + 1, 0, [h[i - 1] EXCEPT !.last = 0]) BY <4>1, <4>2, PassTimed
      <4> QED BY <4>1, <4>3
    <3> QED BY <3>1, <3>2
  <2>3. Passing(roots, i, Len(NodeArcs), Pass(h[i - 1])) BY <1>6, <2>1, <2>2, PassedTimed
  <2> QED BY <1>4, <2>1, <2>3
<1> HIDE DEF good
<1>7. 0 .. n \subseteq good BY <1>5, <1>6, UpToInduction
<1>8. n \in 0 .. n /\ n # 0 OBVIOUS
<1> QED BY <1>3, <1>7, <1>8 DEF good

\* How a search starts, from anything that is nowhere too far.
LEMMA PassesStart ==
    ASSUME net \in Problems, NEW roots \in SUBSET net.nodes, NEW dist \in [roots -> Int]
    PROVE  Search(dist) \in Shapes /\ Passing(roots, 1, 0, [Search(dist) EXCEPT !.last = 0])
<1> DEFINE x == Search(dist)
           t == [v \in roots |-> 0]
<1>1. dist \in Partial(net.nodes, Int) /\ <<>> \in Partial(net.nodes, Arcs(net)) /\ DOMAIN <<>> = {} /\ DOMAIN dist = roots
  <2>1. <<>> \in [{} -> Arcs(net)] /\ {} \in SUBSET net.nodes OBVIOUS
  <2> QED BY <2>1 DEF Partial
<1>2. x \in Shapes /\ x.dist = dist /\ x.by = <<>> /\ x.last = 0 BY <1>1 DEF Search, Shapes
<1>3. [x EXCEPT !.last = 0] = x BY <1>2 DEF Shapes
<1> HIDE DEF x
<1>4. TimedBy(1, 0, x, t)
  <2>1. t \in [roots -> 0 .. 1] /\ \A v \in roots : t[v] = 0 OBVIOUS
  <2>2. ~\E m \in 1 .. 0 : TRUE OBVIOUS
  <2> HIDE DEF t
  <2> QED BY <1>1, <1>2, <2>1, <2>2 DEF TimedBy
<1>5. Hung(x) BY <1>1, <1>2 DEF Hung
<1> QED BY <1>1, <1>2, <1>3, <1>4, <1>5 DEF Passing, x

(***************************************************************************)
(* Passes from zero everywhere: without an improvement in the last of as    *)
(* many as there are nodes they prove the flow cheapest, and with one the   *)
(* arcs of the improvements lead back into a cycle.                         *)
(***************************************************************************)
LEMMA NodeCount ==
    ASSUME net \in Problems
    PROVE  /\ N \in Nat /\ N > 0 /\ IsFiniteSet(net.nodes) /\ N = Cardinality(net.nodes) /\ net.nodes = 1 .. N
<1>1. IsFiniteSet(net.nodes) /\ net.nodes = 1 .. Cardinality(net.nodes) /\ net.source \in net.nodes
  BY ProblemsAssumption DEF IsNetwork
<1>2. N \in Nat /\ N = Cardinality(net.nodes) BY <1>1, FS_CardinalityType DEF N
<1> QED BY <1>1, <1>2

\* The passes from all nodes at once have their improvements in order.
LEMMA ZeroPassesTimed ==
    ASSUME net \in Problems
    PROVE  /\ Passing(net.nodes, N, Len(NodeArcs), ZeroPasses) /\ DOMAIN ZeroPasses.dist = net.nodes
           /\ ZeroPasses.dist \in [net.nodes -> Int]
<1> DEFINE dist == [v \in net.nodes |-> 0]
           x == Search(dist)
<1>1. net.nodes \in SUBSET net.nodes /\ dist \in [net.nodes -> Int] OBVIOUS
<1> HIDE DEF dist
<1>2. x \in Shapes /\ Passing(net.nodes, 1, 0, [x EXCEPT !.last = 0]) BY <1>1, PassesStart
<1> HIDE DEF x
<1>3. Passing(net.nodes, N, Len(NodeArcs), Repeat(Pass, N, x)) BY <1>2, NodeCount, PassesTimed
<1>4. Passing(net.nodes, N, Len(NodeArcs), ZeroPasses) BY <1>3 DEF ZeroPasses, x, dist
<1>5. ZeroPasses \in Shapes /\ net.nodes \subseteq DOMAIN ZeroPasses.dist BY <1>4 DEF Passing
<1>6. ZeroPasses.dist \in Partial(net.nodes, Int) BY <1>5 DEF Shapes
<1>7. DOMAIN ZeroPasses.dist \in SUBSET net.nodes /\ ZeroPasses.dist \in [DOMAIN ZeroPasses.dist -> Int]
  BY <1>6, PartialMap
<1> QED BY <1>4, <1>5, <1>7

\* No improvement in the last pass: no live arc is left to relax.
LEMMA ZeroPassesProve ==
    ASSUME net \in Problems, ZeroPasses.last = 0
    PROVE  Proves(net, flow, ZeroPasses.dist)
<1> DEFINE s == ZeroPasses
<1>1. Passing(net.nodes, N, Len(NodeArcs), s) /\ DOMAIN s.dist = net.nodes /\ s.dist \in [net.nodes -> Int]
  BY ZeroPassesTimed
<1> HIDE DEF s
<1>2. PICK t : TimedBy(N, Len(NodeArcs), s, t) BY <1>1 DEF Passing
<1>3. N \in Nat BY NodeCount
<1>4. ASSUME NEW a \in Arcs(net), Residual(net, flow, a) > 0
      PROVE  ArcCost(net, a) + s.dist[ArcFrom(net, a)] - s.dist[ArcTo(net, a)] >= 0
  <2>1. From(a) \in net.nodes /\ To(a) \in net.nodes /\ ArcCost(net, a) \in Int BY ArcEnds DEF From, To
  <2>2. t[From(a)] <= N - 1 /\ t[From(a)] \in 0 .. N BY <1>1, <1>2, <2>1 DEF TimedBy, s
  <2>3. t[From(a)] <= N - 2 \/ t[From(a)] = N - 1 BY <1>3, <2>2
  <2>4. \E m \in 1 .. Len(NodeArcs) : NodeArcs[m] = a BY NodeArcsList
  <2>5. Rests(s, a) BY <1>1, <1>2, <1>4, <2>1, <2>3, <2>4 DEF TimedBy, R
  <2>6. s.dist[From(a)] \in Int /\ s.dist[To(a)] \in Int BY <1>1, <2>1
  <2>7. ArcCost(net, a) + s.dist[From(a)] - s.dist[To(a)] >= 0 BY <2>1, <2>5, <2>6 DEF Rests
  <2> QED BY <2>7 DEF From, To
<1> QED BY <1>1, <1>4 DEF Proves, s

\* Steps back from a node improved last in the last of so many passes meet nodes that
\* were improved, as many as there are passes.
LEMMA BackIsTimed ==
    ASSUME net \in Problems, NEW roots, NEW n \in Nat, NEW j, NEW s, NEW t, s \in Shapes, Hung(s), TimedBy(n, j, s, t),
           NEW x \in DOMAIN s.dist, t[x] = n
    PROVE  \A i \in 0 .. n : /\ BackBy(s, i, x) \in DOMAIN s.dist /\ t[BackBy(s, i, x)] >= n - i
                             /\ i < n => BackBy(s, i, x) \in DOMAIN s.by
<1> DEFINE V == DOMAIN s.dist
           b(i) == BackBy(s, i, x)
           good == {i \in 0 .. n : b(i) \in V /\ t[b(i)] >= n - i}
<1>1. /\ t \in [V -> 0 .. n]
      /\ \A v \in V : t[v] > 0 => v \in DOMAIN s.by /\ t[From(s.by[v])] >= t[v] - 1
      /\ \A v \in DOMAIN s.by : From(s.by[v]) \in V
  BY DEF TimedBy, Hung
<1>2. 0 \in good BY BackSteps
<1>3. ASSUME NEW i \in 0 .. n, i > 0, i - 1 \in good PROVE i \in good
  <2>1. i - 1 \in Nat /\ (i - 1) + 1 = i BY <1>3
  <2>2. b((i - 1) + 1) = From(s.by[b(i - 1)]) BY <2>1, BackSteps
  <2> DEFINE y == b(i - 1)
  <2>3. y \in V /\ t[y] >= n - (i - 1) /\ t[y] \in 0 .. n BY <1>1, <1>3
  <2>4. b(i) = From(s.by[y]) BY <2>1, <2>2
  <2> HIDE DEF b, y, V
  <2>5. t[y] > 0 BY <2>1, <2>3
  <2>6. b(i) \in V /\ t[b(i)] >= t[y] - 1 BY <1>1, <2>3, <2>4, <2>5
  <2>7. t[b(i)] \in 0 .. n BY <1>1, <2>6
  <2> QED BY <2>1, <2>3, <2>6, <2>7
<1> HIDE DEF good
<1>4. 0 .. n \subseteq good BY <1>2, <1>3, UpToInduction
<1>5. ASSUME NEW i \in 0 .. n
      PROVE  b(i) \in V /\ t[b(i)] >= n - i /\ (i < n => b(i) \in DOMAIN s.by)
  <2>1. b(i) \in V /\ t[b(i)] >= n - i BY <1>4 DEF good
  <2> HIDE DEF b, V
  <2>2. t[b(i)] \in 0 .. n BY <1>1, <2>1
  <2>3. ASSUME i < n PROVE t[b(i)] > 0 BY <2>1, <2>2, <2>3
  <2> QED BY <1>1, <2>1, <2>3
<1> QED BY <1>5

\* More steps back than nodes: some node is met twice.
LEMMA BackMeetsTwice ==
    ASSUME NEW V, IsFiniteSet(V), NEW n \in Nat, Cardinality(V) <= n, NEW s, NEW x,
           \A i \in 0 .. n : BackBy(s, i, x) \in V
    PROVE  \E i \in 0 .. n : \E j \in 0 .. n : i < j /\ BackBy(s, i, x) = BackBy(s, j, x)
<1> DEFINE at == [i \in 0 .. n |-> BackBy(s, i, x)]
<1> SUFFICES ASSUME \A i \in 0 .. n : \A j \in 0 .. n : i < j => BackBy(s, i, x) # BackBy(s, j, x) PROVE FALSE
  OBVIOUS
<1>1. at \in [0 .. n -> V] OBVIOUS
<1>2. ASSUME NEW i \in 0 .. n, NEW j \in 0 .. n, at[i] = at[j] PROVE i = j BY <1>2
<1> HIDE DEF at
<1>3. Cardinality(V) \in Nat /\ n < Cardinality(V) BY <1>1, <1>2, WayIsShort
<1> QED BY <1>3

\* From where it met a node again the way back goes round.
LEMMA BackGoesRound ==
    ASSUME NEW s, NEW x, NEW n \in Nat, NEW i \in 0 .. n, NEW j \in 0 .. n, i < j, BackBy(s, i, x) = BackBy(s, j, x),
           NEW S, \A l \in 0 .. (n - 1) : BackBy(s, l, x) \in S
    PROVE  /\ BackBy(s, j - i, BackBy(s, n, x)) = BackBy(s, n, x)
           /\ \A m \in Nat : BackBy(s, m, x) \in S
<1> DEFINE b(m) == BackBy(s, m, x)
           p == j - i
<1>1. p \in Nat /\ p > 0 /\ p <= n /\ i \in Nat /\ j = i + p /\ n - i \in Nat OBVIOUS
<1>2. ASSUME NEW m \in Nat PROVE b((i + m) + p) = b(i + m)
  <2>1. i + m \in Nat /\ (i + m) + p = j + m /\ j \in Nat BY <1>1
  <2>2. BackBy(s, m, BackBy(s, j, x)) = BackBy(s, j + m, x) BY <2>1, BackFurther
  <2>3. BackBy(s, m, BackBy(s, i, x)) = BackBy(s, i + m, x) BY <2>1, <1>1, BackFurther
  <2> QED BY <2>1, <2>2, <2>3
<1>3. b(n + p) = b(n)
  <2>1. i + (n - i) = n /\ (i + (n - i)) + p = n + p BY <1>1
  <2>2. b((i + (n - i)) + p) = b(i + (n - i)) BY <1>1, <1>2
  <2> HIDE DEF b, p
  <2> QED BY <2>1, <2>2
<1>4. BackBy(s, p, b(n)) = b(n) BY <1>1, <1>3, BackFurther
<1>5. ASSUME NEW m \in Nat PROVE b(m) \in S
  <2> DEFINE good == {l \in 0 .. m : \A q \in 0 .. l : b(q) \in S}
  <2>1. 0 \in good BY <1>1
  <2>2. ASSUME NEW l \in 0 .. m, l > 0, l - 1 \in good PROVE l \in good
    <3>1. \A q \in 0 .. l : q \in 0 .. (l - 1) \/ q = l OBVIOUS
    <3>2. \A q \in 0 .. (l - 1) : b(q) \in S BY <2>2
    <3>3. b(l) \in S
      <4>1. CASE l <= n - 1 BY <4>1
      <4>2. CASE ~(l <= n - 1)
        <5>1. l - p \in 0 .. (l - 1) /\ (l - p) - i \in Nat /\ i + ((l - p) - i) = l - p /\ (i + ((l - p) - i)) + p = l
          BY <1>1, <4>2
        <5>2. b((i + ((l - p) - i)) + p) = b(i + ((l - p) - i)) BY <1>2, <5>1
        <5> HIDE DEF b, p
        <5>3. b(l) = b(l - p) BY <5>1, <5>2
        <5> QED BY <3>2, <5>1, <5>3
      <4> QED BY <4>1, <4>2
    <3> QED BY <3>1, <3>2, <3>3
  <2> HIDE DEF good
  <2>3. 0 .. m \subseteq good BY <2>1, <2>2, UpToInduction
  <2>4. m \in 0 .. m OBVIOUS
  <2> QED BY <2>3, <2>4 DEF good
<1> QED BY <1>4, <1>5

\* The steps back that return first pass distinct arcs.
LEMMA RoundIsCycle ==
    ASSUME net \in Problems, NEW s \in Shapes, Hung(s), NEW start, NEW l \in Nat \ {0}, BackBy(s, l, start) = start,
           \A j \in 1 .. (l - 1) : BackBy(s, j, start) # start,
           \A m \in Nat : BackBy(s, m, start) \in DOMAIN s.by,
           NEW cycle, cycle = [i \in 1 .. l |-> s.by[BackBy(s, l - i, start)]]
    PROVE  /\ PathIn(net, cycle, l) /\ ArcTo(net, cycle[l]) = ArcFrom(net, cycle[1])
           /\ \A i \in 1 .. l : Residual(net, flow, cycle[i]) > 0
<1> DEFINE y(m) == BackBy(s, m, start)
<1>1. ASSUME NEW m \in Nat
      PROVE  /\ s.by[y(m)] \in Arcs(net) /\ ArcTo(net, s.by[y(m)]) = y(m) /\ ArcFrom(net, s.by[y(m)]) = y(m + 1)
             /\ Residual(net, flow, s.by[y(m)]) > 0
  <2>1. y(m) \in DOMAIN s.by /\ y(m + 1) = From(s.by[y(m)]) BY BackSteps
  <2> HIDE DEF y
  <2>2. To(s.by[y(m)]) = y(m) /\ R(s.by[y(m)]) > 0 BY <2>1 DEF Hung
  <2>3. s.by \in [DOMAIN s.by -> Arcs(net)] BY PartialMap DEF Shapes
  <2> QED BY <2>1, <2>2, <2>3 DEF From, To, R
<1>2. y(0) = start /\ y(l) = start BY BackSteps
<1>3. ASSUME NEW m \in 0 .. (l - 1), NEW q \in 0 .. (l - 1), m < q PROVE y(m) # y(q)
  <2> SUFFICES ASSUME y(m) = y(q) PROVE FALSE OBVIOUS
  <2>1. l - q \in Nat /\ m \in Nat /\ q \in Nat /\ q + (l - q) = l /\ m + (l - q) \in 1 .. (l - 1) BY <1>3
  <2>2a. BackBy(s, l - q, BackBy(s, m, start)) = BackBy(s, m + (l - q), start) BY <2>1, BackFurther
  <2>2b. BackBy(s, l - q, BackBy(s, q, start)) = BackBy(s, q + (l - q), start) BY <2>1, BackFurther
  <2>2. y(m + (l - q)) = BackBy(s, l - q, y(m)) /\ y(q + (l - q)) = BackBy(s, l - q, y(q)) BY <2>2a, <2>2b
  <2>3. y(m + (l - q)) = start BY <1>2, <2>1, <2>2
  <2> QED BY <2>1, <2>3
<1> HIDE DEF y
<1>4. ASSUME NEW i \in 1 .. l
      PROVE  /\ l - i \in Nat /\ l - i \in 0 .. (l - 1)
             /\ cycle[i] = s.by[y(l - i)] /\ cycle[i] \in Arcs(net) /\ ArcTo(net, cycle[i]) = y(l - i)
             /\ ArcFrom(net, cycle[i]) = y((l - i) + 1) /\ Residual(net, flow, cycle[i]) > 0
  BY <1>1 DEF y
<1>5. cycle \in [1 .. l -> Arcs(net)] BY <1>4
<1>6. ASSUME NEW i \in 1 .. l, NEW j \in 1 .. l, cycle[i] = cycle[j] PROVE i = j BY <1>3, <1>4, <1>6
<1>7. ASSUME NEW i \in 1 .. (l - 1) PROVE ArcTo(net, cycle[i]) = ArcFrom(net, cycle[i + 1]) BY <1>4
<1>8. ArcTo(net, cycle[l]) = ArcFrom(net, cycle[1])
  <2>1. l \in 1 .. l /\ 1 \in 1 .. l /\ l - l = 0 /\ (l - 1) + 1 = l OBVIOUS
  <2> QED BY <1>2, <1>4, <2>1
<1>9. Listed(net, cycle, l) BY <1>5, <1>6 DEF Listed
<1> QED BY <1>4, <1>7, <1>8, <1>9 DEF PathIn

\* Steps back that return for the first time after so many, and never leave what was improved.
Returns(s, start, l) ==
    /\ l \in Nat \ {0} /\ BackBy(s, l, start) = start
    /\ \A j \in 1 .. (l - 1) : BackBy(s, j, start) # start
    /\ \A m \in Nat : BackBy(s, m, start) \in DOMAIN s.by

\* Where the steps back go round with an improvement in the last pass.
LEMMA RoundFound ==
    ASSUME net \in Problems, ZeroPasses.last # 0
    PROVE  \E start, l :
               /\ Returns(ZeroPasses, start, l)
               /\ CycleOf(ZeroPasses) = [i \in 1 .. l |-> ZeroPasses.by[BackBy(ZeroPasses, l - i, start)]]
<1> DEFINE s == ZeroPasses
           x == s.last
           start == BackBy(s, N, x)
           returns(i) == BackBy(s, i, start) = start /\ \A j \in 1 .. (i - 1) : BackBy(s, j, start) # start
           length == CHOOSE i \in 1 .. N : returns(i)
<1>1. Passing(net.nodes, N, Len(NodeArcs), s) /\ DOMAIN s.dist = net.nodes BY ZeroPassesTimed
<1>2. N \in Nat /\ N > 0 /\ IsFiniteSet(net.nodes) /\ N = Cardinality(net.nodes) BY NodeCount
<1>3. CycleOf(s) = [i \in 1 .. length |-> s.by[BackBy(s, length - i, start)]] BY DEF CycleOf, BackBy
<1>a. s.last # 0 OBVIOUS
<1> HIDE DEF s
<1>4. s \in Shapes /\ Hung(s) BY <1>1 DEF Passing
<1>5. PICK t : TimedBy(N, Len(NodeArcs), s, t) BY <1>1 DEF Passing
<1>6. x \in DOMAIN s.dist /\ t[x] = N BY <1>a, <1>5 DEF TimedBy
<1> HIDE DEF x
<1>7. \A i \in 0 .. N : BackBy(s, i, x) \in net.nodes /\ (i < N => BackBy(s, i, x) \in DOMAIN s.by)
  BY <1>1, <1>2, <1>4, <1>5, <1>6, BackIsTimed
<1>8. PICK i \in 0 .. N : \E j \in 0 .. N : i < j /\ BackBy(s, i, x) = BackBy(s, j, x)
  BY <1>2, <1>7, BackMeetsTwice
<1>9. PICK j \in 0 .. N : i < j /\ BackBy(s, i, x) = BackBy(s, j, x) BY <1>8
<1>10. \A l \in 0 .. (N - 1) : BackBy(s, l, x) \in DOMAIN s.by BY <1>2, <1>7
<1>11. /\ BackBy(s, j - i, start) = start
       /\ \A m \in Nat : BackBy(s, m, x) \in DOMAIN s.by
  <2> DEFINE S == DOMAIN s.by
  <2>1. \A l \in 0 .. (N - 1) : BackBy(s, l, x) \in S BY <1>10
  <2> HIDE DEF S
  <2>2. /\ BackBy(s, j - i, BackBy(s, N, x)) = BackBy(s, N, x)
        /\ \A m \in Nat : BackBy(s, m, x) \in S
    BY <1>2, <1>8, <1>9, <2>1, BackGoesRound
  <2> QED BY <2>2 DEF S
<1>12. \A m \in Nat : BackBy(s, m, start) \in DOMAIN s.by
  <2> SUFFICES ASSUME NEW m \in Nat PROVE BackBy(s, m, start) \in DOMAIN s.by OBVIOUS
  <2>1. BackBy(s, m, start) = BackBy(s, N + m, x) /\ N + m \in Nat BY <1>2, BackFurther
  <2> QED BY <1>11, <2>1
<1> HIDE DEF start
<1>13. \E l \in 1 .. N : returns(l)
  <2> DEFINE T == {l \in 1 .. N : BackBy(s, l, start) = start}
  <2>1. j - i \in T BY <1>2, <1>8, <1>9, <1>11
  <2>2. T \in SUBSET Nat /\ T # {} BY <1>2, <2>1
  <2> HIDE DEF T
  <2>3. PICK l \in T : \A q \in T : l <= q BY <2>2, LeastNatural
  <2>4. l \in 1 .. N /\ BackBy(s, l, start) = start BY DEF T
  <2>5. ASSUME NEW q \in 1 .. (l - 1), BackBy(s, q, start) = start PROVE FALSE BY <1>2, <2>3, <2>4, <2>5 DEF T
  <2> QED BY <2>4, <2>5
<1>14. length \in 1 .. N /\ returns(length) BY <1>13
<1> HIDE DEF length
<1>15. length \in Nat \ {0} BY <1>2, <1>14
<1>16. Returns(s, start, length) BY <1>12, <1>14, <1>15 DEF Returns
<1> QED BY <1>3, <1>16 DEF s

\* What the search finds with an improvement in its last pass.
LEMMA CycleFound ==
    ASSUME net \in Problems, ZeroPasses.last # 0
    PROVE  \E n : /\ PathIn(net, CycleOf(ZeroPasses), n)
                  /\ ArcTo(net, CycleOf(ZeroPasses)[n]) = ArcFrom(net, CycleOf(ZeroPasses)[1])
<1> DEFINE cycle == CycleOf(ZeroPasses)
<1>1. ZeroPasses \in Shapes /\ Hung(ZeroPasses) BY ZeroPassesTimed DEF Passing
<1>2. PICK start, l : /\ Returns(ZeroPasses, start, l)
                      /\ cycle = [i \in 1 .. l |-> ZeroPasses.by[BackBy(ZeroPasses, l - i, start)]]
  BY RoundFound
<1> HIDE DEF cycle
<1>3. PathIn(net, cycle, l) /\ ArcTo(net, cycle[l]) = ArcFrom(net, cycle[1])
  BY <1>1, <1>2, RoundIsCycle DEF Returns
<1> QED BY <1>3 DEF cycle

\* Cancelling a negative cycle, or stopping where there is none.
LEMMA CancelNegativeCycleKeeps ==
    ASSUME net \in Problems, ImproverNow, CancelNegativeCycle PROVE ImproverNext
<1>1. /\ Accounts(net, flow, excess) /\ price \in [net.nodes -> Int] /\ phase = "improve" /\ Feasible[net] # {}
      /\ k = [Kernel(net) EXCEPT !.target = k.target] /\ \A v \in net.nodes : excess[v] = 0
  BY DEF ImproverNow, ImproverKeeps, CancelNegativeCycle
<1>2. CASE ZeroPasses.last = 0
  <2>1. phase' = "certify" /\ UNCHANGED <<flow, excess, price, k>> BY <1>2 DEF CancelNegativeCycle, Stop
  <2>2. Proves(net, flow, ZeroPasses.dist) /\ Meets(net, flow)
    BY <1>1, <1>2, ZeroPassesProve, NothingLeftMeets
  <2>3. Cheapest(net, flow) BY <2>2, NoFlowIsCheaper DEF Cheapest
  <2> QED BY <1>1, <2>1, <2>3 DEF ImproverNext, ImproverKeeps, ImproverPhases
<1>3. CASE ZeroPasses.last # 0
  <2>1. Cancel(CycleOf(ZeroPasses))
    <3>1. \E cycle \in {CycleOf(ZeroPasses)} : Cancel(cycle) BY <1>3 DEF CancelNegativeCycle
    <3> DEFINE c == CycleOf(ZeroPasses)
    <3>2. PICK cycle \in {c} : Cancel(cycle) BY <3>1
    <3> HIDE DEF c
    <3>3. cycle = c BY <3>2
    <3>4. Cancel(c) BY <3>2, <3>3
    <3> QED BY <3>4 DEF c
  <2> DEFINE cycle == CycleOf(ZeroPasses)
  <2>2. \E n : PathIn(net, cycle, n) /\ ArcTo(net, cycle[n]) = ArcFrom(net, cycle[1]) BY <1>3, CycleFound
  <2> HIDE DEF cycle
  <2>3. Cancel(cycle) BY <2>1 DEF cycle
  <2> QED BY <1>1, <2>2, <2>3, CancelKeeps
<1> QED BY <1>2, <1>3

(***************************************************************************)
(* Cycles of least mean cost.                                              *)
(***************************************************************************)

\* Ways one arc longer.
Grown(A, P) == P \cup {Append(x[1], x[2]) : x \in {y \in P \X A :
            /\ From(y[2]) = To(Seqs!Last(y[1]))
            /\ \A i \in DOMAIN y[1] : From(y[1][i]) # From(y[2])}}
GrownBy(A, n, base) == Repeat(LAMBDA P : Grown(A, P), n, base)

GrowsWithin(D, n, seq, A) == \A x \in D : \A i \in 1 .. n : Grown(A, x) \in D
GrowingRun(h, n, D, base, seq, A) ==
    /\ h \in [0 .. n -> D] /\ h[0] = base
    /\ \A i \in 1 .. n : h[i] = Grown(A, h[i - 1])

\* The ways grown arc by arc as a run.
LEMMA GrowingRuns ==
    ASSUME NEW A, NEW D, NEW base, base \in D, NEW n \in Nat, NEW seq, DOMAIN seq = 1 .. n,
           GrowsWithin(D, n, seq, A),
           seq = [i \in 1 .. n |-> i]
    PROVE  \E h : GrowingRun(h, n, D, base, seq, A) /\ h[n] = GrownBy(A, n, base)
<1> DEFINE step(x, i) == Grown(A, x)
           op == [z \in D \X (1 .. n) |-> step(z[1], z[2])]
           raw(g, y) == IF y = {} THEN base ELSE
                          With(g[y \ {Seqs!Max(y)}], LAMBDA u : With(seq[Seqs!Max(y)],
                                                       LAMBDA b : Grown(A, u)))
           E(g) == g = [y \in SUBSET (1 .. n) |-> raw(g, y)]
           c == CHOOSE g : E(g)
<1>1. GrownBy(A, n, base) = c[1 .. n] BY DEF GrownBy, Repeat, Folded, Seqs!FoldLeft, Seqs!MapThenFoldSet
<1>2. \A g, y : raw(g, y) = IF y = {} THEN base ELSE step(g[y \ {Finite!Max(y)}], Finite!Max(y))
  BY SeqsMax DEF With
<1>3. IsStep(op, D, 1 .. n) /\ \A x \in D : \A i \in 1 .. n : op[<<x, i>>] = step(x, i)
  BY DEF IsStep, GrowsWithin
<1> HIDE DEF raw, step, op
<1>4. PICK g : g \in [SUBSET (1 .. n) -> D] /\ Follows(g, n, D, base, op) BY <1>3, FollowerExists
<1>5. E(g) BY <1>2, <1>3, <1>4, BeforeLast DEF Follows
<1>6. \A y \in SUBSET (1 .. n) : c[y] = raw(c, y) BY <1>5
<1> HIDE DEF c
<1>7. Follows(c, n, D, base, op) BY <1>2, <1>3, <1>6, BeforeLast DEF Follows
<1>8. PICK h : IsRun(h, n, D, base, op) /\ h[n] = c[1 .. n] BY <1>3, <1>7, FollowsIsRun
<1>9. \A i \in 1 .. n : i - 1 \in 0 .. n OBVIOUS
<1>10. \A i \in 1 .. n : h[i] = step(h[i - 1], i) BY <1>3, <1>8, <1>9 DEF IsRun
<1> QED BY <1>1, <1>8, <1>10 DEF IsRun, step, GrowingRun

\* Ways over arcs that leave no node twice.
Trails(A) == {p \in Seq(A) : /\ p # <<>>
                             /\ \A i, j \in 1 .. Len(p) : From(p[i]) = From(p[j]) => i = j
                             /\ \A i \in 1 .. (Len(p) - 1) : To(p[i]) = From(p[i + 1])}

\* Trails grown by one arc are trails.
LEMMA GrownAreTrails ==
    ASSUME net \in Problems, NEW A \in SUBSET Arcs(net), NEW P, P \in SUBSET Trails(A)
    PROVE  Grown(A, P) \in SUBSET Trails(A)
<1> SUFFICES ASSUME NEW p \in P, NEW a \in A, From(a) = To(Seqs!Last(p)),
                    \A i \in DOMAIN p : From(p[i]) # From(a)
             PROVE  Append(p, a) \in Trails(A)
  BY DEF Grown
<1>1. /\ p \in Seq(A) /\ p # <<>>
      /\ \A i, j \in 1 .. Len(p) : From(p[i]) = From(p[j]) => i = j
      /\ \A i \in 1 .. (Len(p) - 1) : To(p[i]) = From(p[i + 1])
  BY DEF Trails
<1>2. Len(p) \in Nat /\ Len(p) > 0 /\ DOMAIN p = 1 .. Len(p) /\ Seqs!Last(p) = p[Len(p)] BY <1>1 DEF Seqs!Last
<1> DEFINE q == Append(p, a)
           m == Len(p)
<1>3. /\ q \in Seq(A) /\ Len(q) = m + 1 /\ q # <<>> /\ q[m + 1] = a
      /\ \A i \in 1 .. m : q[i] = p[i]
  BY <1>1, <1>2
<1>4. \A i \in 1 .. (m + 1) : i = m + 1 \/ i \in 1 .. m BY <1>2
<1>5. \A i \in 1 .. m : From(p[i]) # From(a) BY <1>2
<1>6. From(a) = To(p[m]) BY <1>2
<1> HIDE DEF q, m
<1>7. ASSUME NEW i \in 1 .. (m + 1), NEW j \in 1 .. (m + 1), From(q[i]) = From(q[j]) PROVE i = j
  BY <1>1, <1>3, <1>4, <1>5, <1>7 DEF m
<1>8. ASSUME NEW i \in 1 .. m PROVE To(q[i]) = From(q[i + 1])
  <2>1. CASE i = m BY <1>2, <1>3, <1>6, <2>1 DEF m
  <2>2. CASE i # m
    <3>0. m \in Nat BY <1>2 DEF m
    <3>1. i \in 1 .. (m - 1) /\ i \in 1 .. m /\ i + 1 \in 1 .. m BY <2>2, <3>0
    <3> QED BY <1>1, <1>3, <3>1 DEF m
  <2> QED BY <2>1, <2>2
<1>9. (m + 1) - 1 = m BY <1>2 DEF m
<1> QED BY <1>3, <1>7, <1>8, <1>9 DEF Trails, q

\* The cycles found among some arcs are cycles of distinct arcs.
LEMMA CyclesArePaths ==
    ASSUME net \in Problems, NEW A \in SUBSET Arcs(net), NEW cycle \in CyclesIn(A)
    PROVE  \E n : PathIn(net, cycle, n) /\ ArcTo(net, cycle[n]) = ArcFrom(net, cycle[1])
<1> DEFINE D == SUBSET Trails(A)
           base == {<<a>> : a \in A}
           n == N - 1
           seq == [i \in 1 .. n |-> i]
<1>1. n \in Nat BY NodeCount
<1>2. base \in D
  <2> SUFFICES ASSUME NEW a \in A PROVE <<a>> \in Trails(A) OBVIOUS
  <2> DEFINE q == <<a>>
  <2>1. q \in Seq(A) /\ Len(q) = 1 /\ q # <<>> OBVIOUS
  <2>2. \A i, j \in 1 .. 1 : i = j OBVIOUS
  <2>3. \A i \in 1 .. (1 - 1) : FALSE OBVIOUS
  <2> HIDE DEF q
  <2> QED BY <2>1, <2>2, <2>3 DEF Trails, q
<1>3. GrowsWithin(D, n, seq, A) BY GrownAreTrails DEF GrowsWithin
<1> HIDE DEF D, base
<1>4. PICK h : GrowingRun(h, n, D, base, seq, A) /\ h[n] = GrownBy(A, n, base)
  BY <1>1, <1>2, <1>3, GrowingRuns
<1>5. h[n] \in D BY <1>1, <1>4 DEF GrowingRun
<1>6. cycle \in h[n] /\ To(Seqs!Last(cycle)) = From(cycle[1]) BY <1>4 DEF CyclesIn, Grown, GrownBy, base
<1>7. cycle \in Trails(A) BY <1>5, <1>6 DEF D
<1> DEFINE m == Len(cycle)
<1>8. /\ cycle \in Seq(A) /\ m \in Nat /\ m > 0 /\ Seqs!Last(cycle) = cycle[m]
      /\ \A i, j \in 1 .. m : From(cycle[i]) = From(cycle[j]) => i = j
      /\ \A i \in 1 .. (m - 1) : To(cycle[i]) = From(cycle[i + 1])
  BY <1>7 DEF Trails, Seqs!Last
<1>9. cycle \in [1 .. m -> Arcs(net)] BY <1>8
<1>10. PathIn(net, cycle, m) BY <1>8, <1>9 DEF PathIn, Listed, From, To
<1>11. ArcTo(net, cycle[m]) = ArcFrom(net, cycle[1]) BY <1>6, <1>8 DEF From, To
<1> QED BY <1>10, <1>11

\* The cycles without slack of a component are cycles of usable arcs.
LEMMA TightAreCycles ==
    ASSUME net \in Problems, NEW C, NEW mean, NEW cycle \in TightCycles(C, mean)
    PROVE  \E n : PathIn(net, cycle, n) /\ ArcTo(net, cycle[n]) = ArcFrom(net, cycle[1])
<1> DEFINE p == TightPotentials(C, mean)
           slack == [a \in Inside(C) |-> Shifted(a, mean) + p[From(a)] - p[To(a)]]
           B == {a \in Inside(C) : slack[a] = 0}
<1>1. TightCycles(C, mean) = (IF \E a \in Inside(C) : slack[a] < 0 THEN {} ELSE CyclesIn(B))
  BY DEF TightCycles, With
<1>2. B \in SUBSET Arcs(net) BY DEF Inside, Usable
<1> HIDE DEF B, slack
<1> QED BY <1>1, <1>2, CyclesArePaths

\* Cancelling a cycle of least mean cost, or stopping where no mean is negative.
LEMMA CancelMinimumMeanKeeps ==
    ASSUME net \in Problems, ImproverNow, CancelMinimumMean PROVE ImproverNext
<1>1. /\ Accounts(net, flow, excess) /\ price \in [net.nodes -> Int] /\ phase = "improve" /\ Feasible[net] # {}
      /\ k = [Kernel(net) EXCEPT !.target = k.target] /\ \A v \in net.nodes : excess[v] = 0
      /\ alg = "mean-cycle-canceling"
  BY DEF ImproverNow, ImproverKeeps, CancelMinimumMean
<1> DEFINE mean == [C \in Cyclic |-> KarpMean(C)]
           cycles == [C \in Cyclic |-> TightCycles(C, mean[C])]
           stops == Stop("failed") \/ Stop("certify")
           cancels == \E C \in Cyclic : \E cycle \in cycles[C] : Cancel(cycle)
<1>2. stops \/ cancels
  <2>1. \E ms \in {mean} : \E cs \in {[C \in DOMAIN ms |-> TightCycles(C, ms[C])]} :
           \/ stops
           \/ \E C \in {D \in DOMAIN ms : \A E \in DOMAIN ms : ~Below(ms[E], ms[D])} :
                             \E cycle \in cs[C] : Cancel(cycle)
    BY DEF CancelMinimumMean
  <2> HIDE DEF mean, stops
  <2>2. \E cs \in {[C \in DOMAIN mean |-> TightCycles(C, mean[C])]} :
           \/ stops
           \/ \E C \in DOMAIN mean : \E cycle \in cs[C] : Cancel(cycle)
    BY <2>1
  <2>3. DOMAIN mean = Cyclic BY DEF mean
  <2> QED BY <2>2, <2>3
<1>3. CASE stops BY <1>1, <1>3 DEF Stop, ImproverNext, ImproverKeeps, ImproverPhases
<1>4. CASE cancels
  <2>1. PICK C \in Cyclic : \E cycle \in TightCycles(C, mean[C]) : Cancel(cycle) BY <1>4
  <2>2. PICK cycle \in TightCycles(C, mean[C]) : Cancel(cycle) BY <2>1
  <2> HIDE DEF mean
  <2>3. \E n : PathIn(net, cycle, n) /\ ArcTo(net, cycle[n]) = ArcFrom(net, cycle[1]) BY <2>2, TightAreCycles
  <2> QED BY <1>1, <2>2, <2>3, CancelKeeps
<1> HIDE DEF stops, cancels
<1> QED BY <1>2, <1>3, <1>4

\* Every step of an improving solver keeps its invariant.
LEMMA ImproverSteps ==
    ASSUME net \in Problems, alg \in Improving, ImproverNow, Next PROVE ImproverNext
<1>0. alg \notin CostScalers BY DEF Improving, CostScalers
<1>1. CASE Certify BY <1>1 DEF Certify, Stop, ImproverNow, ImproverNext, ImproverKeeps, ImproverPhases
<1>2. CASE ShortestPathStep
  BY <1>2 DEF ShortestPathStep, BeginSuccessive, RouteImbalance, NothingToRoute, BeginScale, LevelOrTighten,
              AdvanceBlock, RetreatBlock, AugmentBlock, Improving, Successive, Scaling
<1>3. CASE CycleCancelingStep
  BY <1>0, <1>3, BeginImprovingKeeps, CancelNegativeCycleKeeps, CancelMinimumMeanKeeps, SelectEdgeKeeps,
     CorrectEdgeKeeps DEF CycleCancelingStep
<1>4. CASE CostScalingStep
  BY <1>0, <1>4 DEF ImproverNow, ImproverKeeps, ImproverPhases, CostScalingStep, BeginCostScaling,
     StartRefine, Push, Relabel, TakeRoot, ExtendPath, RelabelPathEnd, PushPath, FinishRefine, Discharging,
     Searching
<1> QED BY <1>1, <1>2, <1>3, <1>4 DEF Next

\* The invariant accounts for the flow.
LEMMA ImproversKeep ==
    ASSUME net \in Problems, alg \in Improving, ImproverNow PROVE SolverKeepsFlow
<1>1. FlowAccounted BY DEF FlowAccounted, ImproverNow, ImproverKeeps, Accounts
<1>2. PricesHold BY DEF PricesHold, Improving, CostScalers, Scaling
<1>3. PassedArcsStayShut BY DEF ImproverNow, ImproverKeeps, Kernel, PassedArcsStayShut
<1> QED BY <1>1, <1>2, <1>3 DEF SolverKeepsFlow

\* And in the end it gives the prices that prove the flow cheapest.
LEMMA ImproversAreCheapest ==
    ASSUME net \in Problems, alg \in Improving \ {"mean-cycle-canceling"}, ImproverNow PROVE OnlyCheapest
<1>1. /\ Accounts(net, flow, excess) /\ phase \in ImproverPhases
      /\ (phase = "infeasible" => Feasible[net] = {})
      /\ (phase \notin {"start", "infeasible"} => Feasible[net] # {} /\ \A v \in net.nodes : excess[v] = 0)
      /\ (phase \in {"certify", "done"} => Cheapest(net, flow))
  BY DEF ImproverNow, ImproverKeeps
<1>2. DOMAIN LeastCost = {h \in Problems : Feasible[h] # {}} BY DEF LeastCost
<1>3. phase = "infeasible" <=> phase # "start" /\ net \notin DOMAIN LeastCost BY <1>1, <1>2
<1>4. ASSUME phase \in {"certify", "done"}
      PROVE  (\A v \in net.nodes : excess[v] = 0) /\ FlowCost(net, flow) = LeastCost[net]
  BY <1>1, <1>4, CheapestIsLeast DEF Accounts
<1>5. phase # "unbounded" BY <1>1 DEF ImproverPhases
<1> QED BY <1>3, <1>4, <1>5 DEF OnlyCheapest

ImproverInv == net \in Problems /\ (alg \in Improving => ImproverKeeps(net, alg, flow, excess, price, phase, k))

\* The invariant starts.
LEMMA ImproverStarted == Init => ImproverInv
BY ImproverStarts DEF ImproverInv, ImproverNow, Init

\* And it steps.
LEMMA ImproverStepped == ASSUME ImproverInv, [Next]_vars PROVE ImproverInv'
<1>1. CASE Next BY <1>1, OnlyCertifyIsDone, ImproverSteps DEF ImproverInv, ImproverNow, ImproverNext
<1>2. CASE UNCHANGED vars BY <1>2 DEF vars, ImproverInv
<1> QED BY <1>1, <1>2

\* Cancelling negative cycles (cycle_canceling.rs) or cycles of least mean cost
\* (minimum_mean_cycle_canceling.rs) and correcting edges (out_of_kilter.rs), on whatever
\* problem, keep every edge within its bounds and every node as it is required, through
\* each cycle that a search came back by and each rise of prices without one.
THEOREM ImproversKeepFlow == Spec => [](alg \in Improving => SolverKeepsFlow)
<1>1. ImproverInv => (alg \in Improving => SolverKeepsFlow) BY ImproversKeep DEF ImproverInv, ImproverNow
<1> QED BY <1>1, ImproverStarted, ImproverStepped, PTL DEF Spec

\* Where Bellman-Ford improves nothing in its last pass, and where no edge is out of
\* kilter, the flow is a cheapest one before any certificate is computed, and a problem
\* is refused only if no flow meets it.
THEOREM ImproversStopCheapest == Spec => [](alg \in Improving \ {"mean-cycle-canceling"} => OnlyCheapest)
<1>1. ImproverInv => (alg \in Improving \ {"mean-cycle-canceling"} => OnlyCheapest)
  BY ImproversAreCheapest DEF ImproverInv, ImproverNow
<1> QED BY <1>1, ImproverStarted, ImproverStepped, PTL DEF Spec

(***************************************************************************)
(* Dijkstra's search: nodes in the order of their distances, never nearer   *)
(* than the node settled, and the distances potentials in the end. With the *)
(* number of arcs as a last digit it is the distances without it that are.  *)
(***************************************************************************)

\* One arc of the node being settled, at its distance; all of its arcs; a node settled.
Advanced(c, t, a) == IF Eligible(a) THEN Improve(t, a, c + Weight(a)) ELSE t
AdvancedAll(c, s, seq) == Folded(LAMBDA t, a : Advanced(c, t, a), s, seq)
SettledAt(s, v) == AdvancedAll(s.dist[v], [s EXCEPT !.done = @ \cup {v}], net.outgoing[v])
Open(s) == DOMAIN s.dist \ s.done
Soonest(s) == CHOOSE u \in Open(s) : \A w \in Open(s) :
                  s.dist[u] < s.dist[w] \/ (s.dist[u] = s.dist[w] /\ u <= w)

AdvancesWithin(D, n, seq, v) == \A x \in D : \A i \in 1 .. n : Advanced(v, x, seq[i]) \in D
AdvancingRun(h, n, D, base, seq, v) ==
    /\ h \in [0 .. n -> D] /\ h[0] = base
    /\ \A i \in 1 .. n : h[i] = Advanced(v, h[i - 1], seq[i])

\* The arcs of a node as a run.
LEMMA AdvancedRuns ==
    ASSUME NEW v, NEW D, NEW base, base \in D, NEW n \in Nat, NEW seq, DOMAIN seq = 1 .. n,
           AdvancesWithin(D, n, seq, v)
    PROVE  \E h : AdvancingRun(h, n, D, base, seq, v) /\ h[n] = AdvancedAll(v, base, seq)
<1> DEFINE step(x, i) == Advanced(v, x, seq[i])
           op == [z \in D \X (1 .. n) |-> step(z[1], z[2])]
           raw(g, y) == IF y = {} THEN base ELSE
                          With(g[y \ {Seqs!Max(y)}], LAMBDA u : With(seq[Seqs!Max(y)],
                                                       LAMBDA b : Advanced(v, u, b)))
           E(g) == g = [y \in SUBSET (1 .. n) |-> raw(g, y)]
           c == CHOOSE g : E(g)
<1>1. AdvancedAll(v, base, seq) = c[1 .. n] BY DEF AdvancedAll, Folded, Seqs!FoldLeft, Seqs!MapThenFoldSet
<1>2. \A g, y : raw(g, y) = IF y = {} THEN base ELSE step(g[y \ {Finite!Max(y)}], Finite!Max(y))
  BY SeqsMax DEF With
<1>3. IsStep(op, D, 1 .. n) /\ \A x \in D : \A i \in 1 .. n : op[<<x, i>>] = step(x, i)
  BY DEF IsStep, AdvancesWithin
<1> HIDE DEF raw, step, op
<1>4. PICK g : g \in [SUBSET (1 .. n) -> D] /\ Follows(g, n, D, base, op) BY <1>3, FollowerExists
<1>5. E(g) BY <1>2, <1>3, <1>4, BeforeLast DEF Follows
<1>6. \A y \in SUBSET (1 .. n) : c[y] = raw(c, y) BY <1>5
<1> HIDE DEF c
<1>7. Follows(c, n, D, base, op) BY <1>2, <1>3, <1>6, BeforeLast DEF Follows
<1>8. PICK h : IsRun(h, n, D, base, op) /\ h[n] = c[1 .. n] BY <1>3, <1>7, FollowsIsRun
<1>9. \A i \in 1 .. n : i - 1 \in 0 .. n OBVIOUS
<1>10. \A i \in 1 .. n : h[i] = step(h[i - 1], i) BY <1>3, <1>8, <1>9 DEF IsRun
<1> QED BY <1>1, <1>8, <1>10 DEF IsRun, step, AdvancingRun

SettlesWithin(D, n, seq) == \A x \in D : \A i \in 1 .. n : Settle(x) \in D
SettlingRun(h, n, D, base, seq) ==
    /\ h \in [0 .. n -> D] /\ h[0] = base
    /\ \A i \in 1 .. n : h[i] = Settle(h[i - 1])

\* Nodes settled one after another as a run.
LEMMA SettledRuns ==
    ASSUME NEW D, NEW base, base \in D, NEW n \in Nat, NEW seq, DOMAIN seq = 1 .. n,
           SettlesWithin(D, n, seq),
           seq = [i \in 1 .. n |-> i]
    PROVE  \E h : SettlingRun(h, n, D, base, seq) /\ h[n] = Repeat(Settle, n, base)
<1> DEFINE step(x, i) == Settle(x)
           op == [z \in D \X (1 .. n) |-> step(z[1], z[2])]
           raw(g, y) == IF y = {} THEN base ELSE
                          With(g[y \ {Seqs!Max(y)}], LAMBDA u : With(seq[Seqs!Max(y)],
                                                       LAMBDA b : Settle(u)))
           E(g) == g = [y \in SUBSET (1 .. n) |-> raw(g, y)]
           c == CHOOSE g : E(g)
<1>1. Repeat(Settle, n, base) = c[1 .. n] BY DEF Repeat, Folded, Seqs!FoldLeft, Seqs!MapThenFoldSet
<1>2. \A g, y : raw(g, y) = IF y = {} THEN base ELSE step(g[y \ {Finite!Max(y)}], Finite!Max(y))
  BY SeqsMax DEF With
<1>3. IsStep(op, D, 1 .. n) /\ \A x \in D : \A i \in 1 .. n : op[<<x, i>>] = step(x, i)
  BY DEF IsStep, SettlesWithin
<1> HIDE DEF raw, step, op
<1>4. PICK g : g \in [SUBSET (1 .. n) -> D] /\ Follows(g, n, D, base, op) BY <1>3, FollowerExists
<1>5. E(g) BY <1>2, <1>3, <1>4, BeforeLast DEF Follows
<1>6. \A y \in SUBSET (1 .. n) : c[y] = raw(c, y) BY <1>5
<1> HIDE DEF c
<1>7. Follows(c, n, D, base, op) BY <1>2, <1>3, <1>6, BeforeLast DEF Follows
<1>8. PICK h : IsRun(h, n, D, base, op) /\ h[n] = c[1 .. n] BY <1>3, <1>7, FollowsIsRun
<1>9. \A i \in 1 .. n : i - 1 \in 0 .. n OBVIOUS
<1>10. \A i \in 1 .. n : h[i] = step(h[i - 1], i) BY <1>3, <1>8, <1>9 DEF IsRun
<1> QED BY <1>1, <1>8, <1>10 DEF IsRun, step, SettlingRun

\* Settling the soonest of the open nodes, if there is one.
LEMMA SettleIs ==
    ASSUME NEW s
    PROVE  Settle(s) = IF Open(s) = {} THEN s ELSE SettledAt(s, Soonest(s))
BY DEF Settle, Open, Soonest, SettledAt, AdvancedAll, Advanced

\* What makes a search sound: no arc that counts has a negative reduced cost.
Searchable == /\ net \in Problems /\ flow \in [Edges(net) -> Int] /\ price \in [net.nodes -> Int]
              /\ alg \notin CostScalers /\ k.scale \in Nat \ {0} /\ Priced(flow, price, k.scale)

\* A weight is the reduced cost, with a last digit of zero or one.
LEMMA WeightIs ==
    ASSUME Searchable, NEW a \in Arcs(net), Eligible(a)
    PROVE  /\ ReducedCost(price, a) \in Nat /\ Weight(a) \in Nat /\ Digit \in Nat \ {0}
           /\ \E u \in {0, 1} : Weight(a) = ReducedCost(price, a) * Digit + u
<1>1. ReducedCost(price, a) \in Int BY PlainCost DEF Searchable
<1>2. ReducedCost(price, a) >= 0 BY DEF Searchable, Priced, Eligible, R
<1>3. N \in Nat /\ Digit = N + 1 BY NodeCount DEF Searchable, Digit
<1>4. PICK u \in {0, 1} : Weight(a) = ReducedCost(price, a) * Digit + u BY DEF Weight
<1>5. \A x, y \in Nat : x * y \in Nat OBVIOUS
<1>6. ReducedCost(price, a) \in Nat /\ Digit \in Nat \ {0} BY <1>1, <1>2, <1>3
<1>7. ReducedCost(price, a) * Digit \in Nat BY <1>5, <1>6
<1>8. Weight(a) \in Nat BY <1>4, <1>7
<1> QED BY <1>4, <1>6, <1>8

DijkstraShapes == [dist : Partial(net.nodes, Nat), by : Partial(net.nodes, Arcs(net)),
                   last : net.nodes \cup {0}, done : SUBSET net.nodes]

\* A search while nodes at distance c are settled: a tree of arcs that count, hung
\* below settled nodes, which are the nearest.
Spreads(roots, x, c) ==
    /\ x \in DijkstraShapes /\ roots \subseteq DOMAIN x.dist /\ x.done \subseteq DOMAIN x.dist
    /\ Tree(net, DOMAIN x.dist, x.by, roots)
    /\ \A y \in DOMAIN x.dist \ roots :
           From(x.by[y]) \in x.done /\ Eligible(x.by[y]) /\ x.dist[y] = x.dist[From(x.by[y])] + Weight(x.by[y])
    /\ \A y \in roots : x.dist[y] = 0
    /\ \A y \in x.done : x.dist[y] <= c /\ x.dist[y] % Digit < Cardinality(x.done)
    /\ \A y \in Open(x) : x.dist[y] >= c
    /\ \A y \in DOMAIN x.dist : x.dist[y] % Digit <= Cardinality(x.done)
Spread(x, a) == To(a) \in DOMAIN x.dist /\ x.dist[To(a)] <= x.dist[From(a)] + Weight(a)
Advances(roots, x, y, v) ==
    /\ Spreads(roots, y, x.dist[v]) /\ y.done = x.done /\ y.dist[v] = x.dist[v]
    /\ \A b \in Arcs(net) : Eligible(b) /\ From(b) \in x.done /\ Spread(x, b) => Spread(y, b)

\* One arc of the node being settled spreads the search.
LEMMA AdvanceSpreads ==
    ASSUME Searchable, NEW roots, NEW x, NEW v, v \in x.done, Spreads(roots, x, x.dist[v]),
           NEW a \in Arcs(net), From(a) = v
    PROVE  /\ Advances(roots, x, Advanced(x.dist[v], x, a), v)
           /\ Eligible(a) => Spread(Advanced(x.dist[v], x, a), a)
<1>a. PICK w : w = To(a) OBVIOUS
<1>b. PICK c : c = x.dist[v] OBVIOUS
<1>c. PICK d : d = c + Weight(a) OBVIOUS
<1> DEFINE V == DOMAIN x.dist
<1>1. /\ x \in DijkstraShapes /\ roots \subseteq V /\ x.done \subseteq V /\ v \in V
      /\ Tree(net, V, x.by, roots)
      /\ \A y \in V \ roots :
             From(x.by[y]) \in x.done /\ Eligible(x.by[y]) /\ x.dist[y] = x.dist[From(x.by[y])] + Weight(x.by[y])
      /\ \A y \in roots : x.dist[y] = 0
      /\ \A y \in x.done : x.dist[y] <= c /\ x.dist[y] % Digit < Cardinality(x.done)
      /\ \A y \in Open(x) : x.dist[y] >= c
      /\ \A y \in V : x.dist[y] % Digit <= Cardinality(x.done)
  BY <1>b DEF Spreads
<1>2. /\ x.dist \in Partial(net.nodes, Nat) /\ x.by \in Partial(net.nodes, Arcs(net)) /\ x.done \in SUBSET net.nodes
      /\ x.dist \in [V -> Nat] /\ V \in SUBSET net.nodes
  BY <1>1, PartialMap DEF DijkstraShapes
<1>3. w \in net.nodes /\ net \in Problems /\ c \in Nat BY <1>1, <1>2, <1>a, <1>b, ArcEnds DEF To, Searchable
<1>4. CASE ~Eligible(a) BY <1>4 DEF Advanced, Advances
<1>5. CASE Eligible(a) /\ w \in V /\ x.dist[w] <= d
  BY <1>5, <1>a, <1>b, <1>c DEF Advanced, Improve, Spread, Advances
<1>6. CASE Eligible(a) /\ ~(w \in V /\ x.dist[w] <= d)
  <2> DEFINE y == Advanced(x.dist[v], x, a)
  <2>1. Weight(a) \in Nat /\ Digit \in Nat \ {0} BY <1>6, WeightIs
  <2>2. d \in Nat /\ d >= c BY <1>3, <1>c, <2>1
  <2>3. w \notin x.done /\ w \notin roots BY <1>1, <1>2, <1>3, <1>6, <2>2
  <2>4. y = [x EXCEPT !.dist = Put(@, w, d), !.by = Put(@, w, a), !.last = w]
    BY <1>6, <1>a, <1>b, <1>c DEF Advanced, Improve
  <2>5. Put(x.dist, w, d) \in Partial(net.nodes, Nat) BY <1>2, <1>3, <2>2, PutIn
  <2>6. Put(x.by, w, a) \in Partial(net.nodes, Arcs(net)) BY <1>2, <1>3, PutIn
  <2>7. /\ y \in DijkstraShapes /\ y.dist = Put(x.dist, w, d) /\ y.by = Put(x.by, w, a)
        /\ y.done = x.done
    BY <1>1, <1>3, <2>4, <2>5, <2>6 DEF DijkstraShapes
  <2> HIDE DEF y
  <2>8. /\ DOMAIN y.dist = V \cup {w} /\ y.dist[w] = d
        /\ \A z \in V : z # w => y.dist[z] = x.dist[z]
    BY <2>7 DEF Put
  <2>9. y.by[w] = a /\ \A z \in V \ roots : z # w => y.by[z] = x.by[z] BY <1>1, <2>7 DEF Tree, Put
  <2>10. Tree(net, V \cup {w}, y.by, roots)
    <3>1. \A z \in V \ roots : ArcFrom(net, x.by[z]) \in x.done BY <1>1 DEF From
    <3>2. ArcFrom(net, a) \in x.done /\ w = ArcTo(net, a) BY <1>a DEF From, To
    <3> HIDE DEF V
    <3>3. Tree(net, V \cup {w}, Put(x.by, w, a), roots) BY <1>1, <1>3, <2>3, <3>1, <3>2, TreeRehung
    <3> QED BY <2>7, <3>3
  <2>11. ASSUME NEW z \in (V \cup {w}) \ roots
         PROVE  From(y.by[z]) \in x.done /\ Eligible(y.by[z]) /\ y.dist[z] = y.dist[From(y.by[z])] + Weight(y.by[z])
    BY <1>1, <1>6, <2>3, <2>8, <2>9, <1>b, <1>c
  <2>12. /\ \A z \in roots : y.dist[z] = 0
         /\ \A z \in x.done : y.dist[z] <= c /\ y.dist[z] % Digit < Cardinality(x.done)
         /\ \A z \in Open(y) : y.dist[z] >= c
    BY <1>1, <2>2, <2>3, <2>7, <2>8 DEF Open
  <2>13. ASSUME NEW z \in V \cup {w} PROVE y.dist[z] % Digit <= Cardinality(x.done)
    <3>1. CASE z # w BY <1>1, <2>8, <3>1
    <3>2. CASE z = w
      <4>1. PICK u \in {0, 1} : Weight(a) = ReducedCost(price, a) * Digit + u BY <1>6, WeightIs
      <4>2. ReducedCost(price, a) \in Nat BY <1>6, WeightIs
      <4>3. c % Digit < Cardinality(x.done) BY <1>1, <1>b
      <4>4. Cardinality(x.done) \in Nat /\ Cardinality(x.done) <= N /\ Digit = N + 1 /\ N \in Nat
        BY <1>2, <1>3, NodeCount, FS_Subset, FS_CardinalityType DEF Digit
      <4>5. c % Digit \in Nat BY <1>3, <2>1, DivMod
      <4>6. (c % Digit) + u < Digit /\ (c % Digit) + u <= Cardinality(x.done) BY <4>3, <4>4, <4>5
      <4>7. (c + (ReducedCost(price, a) * Digit + u)) % Digit = (c % Digit) + u
        BY <1>3, <2>1, <4>2, <4>6, DigitAdds
      <4> QED BY <1>c, <2>8, <3>2, <4>1, <4>6, <4>7
    <3> QED BY <3>1, <3>2
  <2>14. Spreads(roots, y, c) /\ y.dist[v] = c
    <3>1. y.dist[v] = c BY <1>1, <1>b, <2>3, <2>8
    <3>2. roots \subseteq DOMAIN y.dist /\ y.done \subseteq DOMAIN y.dist BY <1>1, <2>7, <2>8
    <3> HIDE DEF V
    <3> QED BY <2>7, <2>8, <2>10, <2>11, <2>12, <2>13, <3>1, <3>2 DEF Spreads
  <2>15. ASSUME NEW b \in Arcs(net), Eligible(b), From(b) \in x.done, Spread(x, b) PROVE Spread(y, b)
    <3>1. To(b) \in V /\ x.dist[To(b)] <= x.dist[From(b)] + Weight(b) /\ y.dist[From(b)] = x.dist[From(b)]
      BY <1>1, <2>3, <2>8, <2>15 DEF Spread
    <3>2. CASE To(b) # w BY <2>8, <3>1, <3>2 DEF Spread
    <3>3. CASE To(b) = w BY <1>1, <1>2, <1>6, <2>2, <2>8, <2>15, <3>1, <3>3, WeightIs DEF Spread
    <3> QED BY <3>2, <3>3
  <2>16. Spread(y, a) BY <2>2, <2>8, <2>14, <1>a, <1>c DEF Spread
  <2>17. Advances(roots, x, y, v) BY <1>b, <2>7, <2>14, <2>15 DEF Advances
  <2> QED BY <2>16, <2>17 DEF y
<1> QED BY <1>4, <1>5, <1>6

\* All arcs of a settled node.
LEMMA AllAdvanced ==
    ASSUME Searchable, NEW roots, NEW x, NEW v, v \in x.done, Spreads(roots, x, x.dist[v])
    PROVE  \E y : /\ y = AdvancedAll(x.dist[v], x, net.outgoing[v]) /\ Advances(roots, x, y, v)
                  /\ \A a \in Arcs(net) : Eligible(a) /\ From(a) = v => Spread(y, a)
<1> DEFINE D == {y \in DijkstraShapes : Advances(roots, x, y, v)}
           seq == net.outgoing[v]
           n == Len(seq)
<1>a. PICK c : c = x.dist[v] OBVIOUS
<1>1. x \in DijkstraShapes /\ v \in net.nodes BY DEF Spreads, DijkstraShapes
<1>2. /\ n \in Nat /\ DOMAIN seq = 1 .. n
      /\ \A i \in 1 .. n : seq[i] \in Arcs(net) /\ From(seq[i]) = v
      /\ \A a \in Arcs(net) : From(a) = v => \E i \in 1 .. n : seq[i] = a
  <2>1. /\ net.outgoing \in [net.nodes -> Seq(Arcs(net))]
        /\ {net.outgoing[v][i] : i \in DOMAIN net.outgoing[v]} = {a \in Arcs(net) : ArcFrom(net, a) = v}
    BY <1>1, ProblemsAssumption DEF IsNetwork, Searchable
  <2>2. seq \in Seq(Arcs(net)) /\ DOMAIN seq = 1 .. n /\ n \in Nat BY <1>1, <2>1, LenProperties
  <2> QED BY <2>1, <2>2 DEF From
<1>3. x \in D BY <1>1 DEF Advances
<1>4. ASSUME NEW y \in D, NEW a \in Arcs(net), From(a) = v
      PROVE  /\ Advanced(c, y, a) \in D
             /\ \A b \in Arcs(net) : Eligible(b) /\ From(b) \in x.done /\ Spread(y, b) => Spread(Advanced(c, y, a), b)
             /\ Eligible(a) => Spread(Advanced(c, y, a), a)
  <2>1. v \in y.done /\ y.done = x.done /\ y.dist[v] = c /\ Spreads(roots, y, y.dist[v])
    BY <1>a, <1>4 DEF Advances
  <2>2. Advances(roots, y, Advanced(y.dist[v], y, a), v) /\ (Eligible(a) => Spread(Advanced(y.dist[v], y, a), a))
    BY <1>4, <2>1, AdvanceSpreads
  <2> DEFINE z == Advanced(c, y, a)
  <2>3. Advances(roots, y, z, v) /\ (Eligible(a) => Spread(z, a)) BY <2>1, <2>2
  <2> HIDE DEF z
  <2>4. z \in DijkstraShapes /\ Advances(roots, x, z, v) BY <1>a, <1>4, <2>1, <2>3 DEF Advances, Spreads
  <2> QED BY <2>1, <2>3, <2>4 DEF z, Advances
<1> HIDE DEF D, seq, n
<1>5. AdvancesWithin(D, n, seq, c) BY <1>2, <1>4 DEF AdvancesWithin
<1>6. PICK h : AdvancingRun(h, n, D, x, seq, c) /\ h[n] = AdvancedAll(c, x, seq)
  BY <1>2, <1>3, <1>5, AdvancedRuns
<1>7. h \in [0 .. n -> D] /\ h[0] = x /\ \A i \in 1 .. n : h[i] = Advanced(c, h[i - 1], seq[i])
  BY <1>6 DEF AdvancingRun
<1> DEFINE good == {j \in 0 .. n : \A i \in 1 .. j : Eligible(seq[i]) => Spread(h[j], seq[i])}
<1>8. 0 \in good BY <1>2
<1>9. ASSUME NEW j \in 0 .. n, j > 0, j - 1 \in good PROVE j \in good
  <2>1. j \in 1 .. n /\ j - 1 \in 0 .. n BY <1>2, <1>9
  <2>2. h[j - 1] \in D /\ h[j] = Advanced(c, h[j - 1], seq[j]) /\ seq[j] \in Arcs(net) /\ From(seq[j]) = v
    BY <1>2, <1>7, <2>1
  <2>3. /\ \A b \in Arcs(net) : Eligible(b) /\ From(b) \in x.done /\ Spread(h[j - 1], b) => Spread(h[j], b)
        /\ Eligible(seq[j]) => Spread(h[j], seq[j])
    BY <1>4, <2>2
  <2>4. ASSUME NEW i \in 1 .. j, Eligible(seq[i]) PROVE Spread(h[j], seq[i])
    <3>1. CASE i = j BY <2>3, <2>4, <3>1
    <3>2. CASE i # j BY <1>2, <1>9, <2>1, <2>3, <2>4, <3>2
    <3> QED BY <3>1, <3>2
  <2> QED BY <2>4
<1> HIDE DEF good
<1>10. 0 .. n \subseteq good BY <1>2, <1>8, <1>9, UpToInduction
<1>11. n \in 0 .. n BY <1>2
<1>12. n \in good /\ h[n] \in D BY <1>7, <1>10, <1>11
<1>13. \A a \in Arcs(net) : Eligible(a) /\ From(a) = v => Spread(h[n], a) BY <1>2, <1>12 DEF good
<1>14. Advances(roots, x, h[n], v) BY <1>12 DEF D
<1> QED BY <1>a, <1>6, <1>13, <1>14 DEF seq

\* The open node settled next is a nearest one.
LEMMA SoonestIs ==
    ASSUME net \in Problems, NEW s \in DijkstraShapes, Open(s) # {}
    PROVE  Soonest(s) \in Open(s) /\ \A w \in Open(s) : s.dist[Soonest(s)] <= s.dist[w]
<1>1. s.dist \in [DOMAIN s.dist -> Nat] /\ DOMAIN s.dist \in SUBSET net.nodes BY PartialMap DEF DijkstraShapes
<1>2. IsFiniteSet(net.nodes) /\ net.nodes \subseteq Nat BY NodeCount
<1>3. IsFiniteSet(Open(s)) /\ Open(s) \subseteq net.nodes /\ \A u \in Open(s) : s.dist[u] \in Nat
  BY <1>1, <1>2, FS_Subset DEF Open
<1> DEFINE T == {s.dist[u] : u \in Open(s)}
<1>4. PICK d \in T : \A e \in T : d <= e
  <2>1. IsFiniteSet(T) /\ T # {} /\ T \subseteq Int BY <1>3, FiniteImage
  <2> HIDE DEF T
  <2> QED BY <2>1, LeastExists
<1> DEFINE W == {u \in Open(s) : s.dist[u] = d}
<1>5. PICK v \in W : \A u \in W : v <= u
  <2>1. IsFiniteSet(W) /\ W # {} /\ W \subseteq Int BY <1>2, <1>3, <1>4, FS_Subset
  <2> HIDE DEF W
  <2> QED BY <2>1, LeastExists
<1>6. v \in Open(s) /\ \A w \in Open(s) : s.dist[v] < s.dist[w] \/ (s.dist[v] = s.dist[w] /\ v <= w)
  <2> SUFFICES ASSUME NEW w \in Open(s) PROVE s.dist[v] < s.dist[w] \/ (s.dist[v] = s.dist[w] /\ v <= w)
    BY <1>5
  <2>1. s.dist[v] = d /\ d <= s.dist[w] /\ d \in Nat /\ s.dist[w] \in Nat BY <1>3, <1>4, <1>5
  <2>2. CASE s.dist[w] = d BY <1>5, <2>1, <2>2
  <2>3. CASE s.dist[w] # d BY <2>1, <2>3
  <2> QED BY <2>2, <2>3
<1>7. /\ Soonest(s) \in Open(s)
      /\ \A w \in Open(s) : s.dist[Soonest(s)] < s.dist[w] \/ (s.dist[Soonest(s)] = s.dist[w] /\ Soonest(s) <= w)
  BY <1>6 DEF Soonest
<1> QED BY <1>3, <1>7

\* A search between two nodes settled: no arc that counts of a settled node is left.
Between(roots, s, i) ==
    /\ \E c \in Nat : Spreads(roots, s, c)
    /\ \A a \in Arcs(net) : Eligible(a) /\ From(a) \in s.done => Spread(s, a)
    /\ Open(s) = {} \/ Cardinality(s.done) = i

\* Settling one node leaves the search between two settlings.
LEMMA SettleSpreads ==
    ASSUME Searchable, NEW roots, NEW s, NEW i \in Nat, Between(roots, s, i)
    PROVE  Between(roots, Settle(s), i + 1)
<1>1. CASE Open(s) = {} BY <1>1, SettleIs DEF Between
<1>2. CASE Open(s) # {}
  <2>1. PICK c \in Nat : Spreads(roots, s, c) BY DEF Between
  <2>2. /\ s \in DijkstraShapes /\ roots \subseteq DOMAIN s.dist /\ s.done \subseteq DOMAIN s.dist
        /\ Tree(net, DOMAIN s.dist, s.by, roots)
        /\ \A y \in DOMAIN s.dist \ roots :
               From(s.by[y]) \in s.done /\ Eligible(s.by[y]) /\ s.dist[y] = s.dist[From(s.by[y])] + Weight(s.by[y])
        /\ \A y \in roots : s.dist[y] = 0
        /\ \A y \in s.done : s.dist[y] <= c /\ s.dist[y] % Digit < Cardinality(s.done)
        /\ \A y \in Open(s) : s.dist[y] >= c
        /\ \A y \in DOMAIN s.dist : s.dist[y] % Digit <= Cardinality(s.done)
    BY <2>1 DEF Spreads
  <2>3. PICK v : v = Soonest(s) OBVIOUS
  <2>4. v \in Open(s) /\ \A w \in Open(s) : s.dist[v] <= s.dist[w]
    BY <1>2, <2>2, <2>3, SoonestIs DEF Searchable
  <2>5. s.dist \in [DOMAIN s.dist -> Nat] /\ DOMAIN s.dist \in SUBSET net.nodes /\ s.done \in SUBSET net.nodes
    BY <2>2, PartialMap DEF DijkstraShapes
  <2>6. v \in DOMAIN s.dist /\ v \notin s.done /\ v \in net.nodes /\ s.dist[v] \in Nat /\ c <= s.dist[v]
    BY <2>2, <2>4, <2>5 DEF Open
  <2>7. IsFiniteSet(s.done) /\ Cardinality(s.done) = i /\ Cardinality(s.done \cup {v}) = i + 1
    BY <1>2, <2>5, <2>6, NodeCount, FS_Subset, FS_AddElement DEF Searchable, Between
  <2> DEFINE x == [s EXCEPT !.done = @ \cup {v}]
  <2>8. x \in DijkstraShapes /\ x.dist = s.dist /\ x.by = s.by /\ x.done = s.done \cup {v}
    BY <2>2, <2>6 DEF DijkstraShapes
  <2>9. Settle(s) = AdvancedAll(x.dist[v], x, net.outgoing[v]) BY <1>2, <2>3, <2>8, SettleIs DEF SettledAt
  <2> HIDE DEF x
  <2>10. \A y \in DOMAIN s.dist : s.dist[y] \in Nat /\ s.dist[y] % Digit \in Int
    BY <2>5, NodeCount, DivMod DEF Digit, Searchable
  <2>11. \A y \in x.done : x.dist[y] <= x.dist[v] /\ x.dist[y] % Digit < Cardinality(x.done)
    BY <2>2, <2>6, <2>7, <2>8, <2>10
  <2>12. \A y \in Open(x) : x.dist[y] >= x.dist[v] BY <2>4, <2>6, <2>8, <2>10 DEF Open
  <2>13. \A y \in DOMAIN x.dist : x.dist[y] % Digit <= Cardinality(x.done) BY <2>2, <2>7, <2>8, <2>10
  <2>14. Spreads(roots, x, x.dist[v]) BY <2>2, <2>6, <2>8, <2>11, <2>12, <2>13 DEF Spreads
  <2>15. v \in x.done BY <2>8
  <2>16. PICK y : /\ y = AdvancedAll(x.dist[v], x, net.outgoing[v]) /\ Advances(roots, x, y, v)
                  /\ \A a \in Arcs(net) : Eligible(a) /\ From(a) = v => Spread(y, a)
    BY <2>14, <2>15, AllAdvanced
  <2>17. /\ Spreads(roots, y, x.dist[v]) /\ y.done = x.done
         /\ \A b \in Arcs(net) : Eligible(b) /\ From(b) \in x.done /\ Spread(x, b) => Spread(y, b)
    BY <2>16 DEF Advances
  <2>18. ASSUME NEW a \in Arcs(net), Eligible(a), From(a) \in y.done PROVE Spread(y, a)
    BY <2>8, <2>16, <2>17, <2>18 DEF Between, Spread
  <2> QED BY <2>6, <2>7, <2>8, <2>9, <2>16, <2>17, <2>18 DEF Between
<1> QED BY <1>1, <1>2

\* As many nodes settled as there are: none is left open.
LEMMA AllSettled ==
    ASSUME Searchable, NEW roots \in SUBSET net.nodes, NEW base,
           base = [dist |-> [v \in roots |-> 0], by |-> <<>>, last |-> 0, done |-> {}]
    PROVE  \E s : s = Repeat(Settle, N, base) /\ Between(roots, s, N) /\ Open(s) = {}
<1> DEFINE seq == [i \in 1 .. N |-> i]
           D == {s \in DijkstraShapes : \E i \in Nat : Between(roots, s, i)}
<1>1. Between(roots, base, 0)
  <2>1. DOMAIN base.dist = roots /\ base.dist \in Partial(net.nodes, Nat) /\ \A v \in roots : base.dist[v] = 0
    BY DEF Partial
  <2>2. base.by \in Partial(net.nodes, Arcs(net)) BY DEF Partial
  <2>3. base \in DijkstraShapes /\ base.done = {} BY <2>1, <2>2 DEF DijkstraShapes
  <2>4. Tree(net, roots, base.by, roots) BY DEF Tree, NoClosedSet
  <2>5. Digit \in Nat \ {0} BY NodeCount DEF Digit, Searchable
  <2>6. 0 % Digit = 0 BY <2>5
  <2>7. Cardinality({}) = 0 BY FS_EmptySet
  <2>8. Spreads(roots, base, 0) BY <2>1, <2>3, <2>4, <2>6, <2>7 DEF Spreads, Open
  <2> QED BY <2>3, <2>7, <2>8 DEF Between
<1>2. base \in D BY <1>1 DEF Between, Spreads
<1>3. SettlesWithin(D, N, seq)
  <2> SUFFICES ASSUME NEW s \in D PROVE Settle(s) \in D BY DEF SettlesWithin
  <2>1. PICK i \in Nat : Between(roots, s, i) OBVIOUS
  <2>2. Between(roots, Settle(s), i + 1) BY <2>1, SettleSpreads
  <2>3. Settle(s) \in DijkstraShapes BY <2>2 DEF Between, Spreads
  <2>4. i + 1 \in Nat OBVIOUS
  <2> QED BY <2>2, <2>3, <2>4
<1>4. N \in Nat /\ DOMAIN seq = 1 .. N BY NodeCount DEF Searchable
<1> HIDE DEF D
<1>5. PICK h : SettlingRun(h, N, D, base, seq) /\ h[N] = Repeat(Settle, N, base)
  BY <1>2, <1>3, <1>4, SettledRuns
<1>6. h[0] = base /\ \A i \in 1 .. N : h[i] = Settle(h[i - 1]) BY <1>5 DEF SettlingRun
<1> DEFINE good == {i \in 0 .. N : Between(roots, h[i], i)}
<1>7. 0 \in good BY <1>1, <1>4, <1>6
<1>8. ASSUME NEW i \in 0 .. N, i > 0, i - 1 \in good PROVE i \in good
  <2>1. i \in 1 .. N /\ i - 1 \in Nat /\ (i - 1) + 1 = i BY <1>4, <1>8
  <2>2. Between(roots, Settle(h[i - 1]), (i - 1) + 1) BY <1>8, <2>1, SettleSpreads
  <2> QED BY <1>6, <2>1, <2>2
<1> HIDE DEF good
<1>9. 0 .. N \subseteq good BY <1>4, <1>7, <1>8, UpToInduction
<1>10. N \in 0 .. N BY <1>4
<1>11. Between(roots, h[N], N) BY <1>9, <1>10 DEF good
<1>12. Open(h[N]) = {}
  <2>1. CASE Cardinality(h[N].done) = N
    <3>1. h[N] \in DijkstraShapes BY <1>11 DEF Between, Spreads
    <3>2. h[N].done \in SUBSET net.nodes /\ DOMAIN h[N].dist \in SUBSET net.nodes
      BY <3>1, PartialMap DEF DijkstraShapes
    <3>3. IsFiniteSet(net.nodes) /\ N = Cardinality(net.nodes) BY NodeCount DEF Searchable
    <3>4. h[N].done = net.nodes BY <2>1, <3>2, <3>3, FS_Subset
    <3> QED BY <3>2, <3>4 DEF Open
  <2> QED BY <1>11, <2>1 DEF Between
<1> QED BY <1>5, <1>11, <1>12

(***************************************************************************)
(* A tree of cheapest paths, whoever searched for it, and what prices made  *)
(* of its distances prove before and after flow has gone along one of them. *)
(***************************************************************************)

PricedAt(g, fl, p, width) == \A a \in Arcs(g) : Residual(g, fl, a) >= width => Plain(g, p, a) >= 0
CheapTree(g, fl, p, width, roots, V, by, d) ==
    /\ Tree(g, V, by, roots) /\ roots \subseteq V /\ d \in [V -> Int]
    /\ \A y \in V \ roots :
           Residual(g, fl, by[y]) >= width /\ d[y] = d[ArcFrom(g, by[y])] + Plain(g, p, by[y])
    /\ \A a \in Arcs(g) : Residual(g, fl, a) >= width /\ ArcFrom(g, a) \in V =>
           ArcTo(g, a) \in V /\ d[ArcTo(g, a)] <= d[ArcFrom(g, a)] + Plain(g, p, a)
Risen(g, p, V, d, cut) == [v \in g.nodes |-> p[v] + (IF v \in V THEN Finite!Min({d[v], cut}) ELSE cut)]

\* The ends of an arc of a problem, and its cost under prices.
LEMMA PlainIs ==
    ASSUME NEW g \in Problems, NEW p \in [g.nodes -> Int], NEW a \in Arcs(g)
    PROVE  /\ ArcFrom(g, a) \in g.nodes /\ ArcTo(g, a) \in g.nodes /\ ArcCost(g, a) \in Int
           /\ Plain(g, p, a) \in Int
<1>1. /\ g.from \in [Edges(g) -> g.nodes] /\ g.to \in [Edges(g) -> g.nodes] /\ g.cost \in [Edges(g) -> Int]
  BY ProblemsAssumption DEF IsNetwork
<1>2. a[1] \in Edges(g) BY ArcParts
<1>3. ArcFrom(g, a) \in g.nodes /\ ArcTo(g, a) \in g.nodes BY <1>1, <1>2 DEF ArcFrom, ArcTo
<1>4. ArcCost(g, a) \in Int BY <1>1, <1>2 DEF ArcCost
<1> QED BY <1>3, <1>4 DEF Plain

\* No node on a way back from a node is farther than the node.
LEMMA NearerBack ==
    ASSUME NEW g \in Problems, NEW fl, NEW p \in [g.nodes -> Int], NEW width, PricedAt(g, fl, p, width),
           NEW roots, NEW V, NEW by, NEW d, CheapTree(g, fl, p, width, roots, V, by, d),
           NEW w, NEW path, NEW n, NEW c, Tracks(g, V, by, roots, w, path, n, c)
    PROVE  \A i \in 0 .. n : d[c[i]] <= d[w]
<1>1. /\ n \in Nat /\ c \in [0 .. n -> V] /\ c[0] = w /\ d \in [V -> Int]
      /\ \A i \in 0 .. (n - 1) : c[i] \notin roots
      /\ \A i \in 1 .. n : path[i] = by[c[n - i]] /\ ArcFrom(g, path[i]) = c[(n - i) + 1]
      /\ \A y \in V \ roots : by[y] \in Arcs(g)
  BY DEF Tracks, CheapTree, Tree
<1> DEFINE good == {i \in 0 .. n : d[c[i]] <= d[w]}
<1>2. 0 \in good BY <1>1
<1>3. ASSUME NEW i \in 0 .. n, i > 0, i - 1 \in good PROVE i \in good
  <2>1. i - 1 \in 0 .. (n - 1) /\ (n - i) + 1 \in 1 .. n /\ n - ((n - i) + 1) = i - 1 /\ (i - 1) + 1 = i
    BY <1>1, <1>3
  <2>2. c[i - 1] \in V \ roots /\ c[i] \in V /\ c[i - 1] \in V /\ w \in V BY <1>1, <1>3, <2>1
  <2>3. ArcFrom(g, by[c[i - 1]]) = c[i] BY <1>1, <2>1
  <2>4. Residual(g, fl, by[c[i - 1]]) >= width /\ d[c[i - 1]] = d[c[i]] + Plain(g, p, by[c[i - 1]])
    BY <2>2, <2>3 DEF CheapTree
  <2>5. Plain(g, p, by[c[i - 1]]) \in Int /\ Plain(g, p, by[c[i - 1]]) >= 0
    BY <1>1, <2>2, <2>4, PlainIs DEF PricedAt
  <2>6. d[c[i]] \in Int /\ d[w] \in Int /\ d[c[i - 1]] <= d[w] BY <1>1, <1>3, <2>2
  <2> QED BY <2>4, <2>5, <2>6
<1> HIDE DEF good
<1>4. 0 .. n \subseteq good BY <1>1, <1>2, <1>3, UpToInduction
<1> QED BY <1>4 DEF good

\* Prices risen by the distances up to one of them still hold, and leave no slack on the
\* arcs by which nodes not farther are reached.
LEMMA RisenHold ==
    ASSUME NEW g \in Problems, NEW fl, NEW p \in [g.nodes -> Int], NEW width, PricedAt(g, fl, p, width),
           NEW roots, NEW V, NEW by, NEW d, CheapTree(g, fl, p, width, roots, V, by, d), NEW cut \in Int
    PROVE  /\ Risen(g, p, V, d, cut) \in [g.nodes -> Int]
           /\ PricedAt(g, fl, Risen(g, p, V, d, cut), width)
           /\ \A y \in V \ roots : d[y] <= cut => Plain(g, Risen(g, p, V, d, cut), by[y]) = 0
<1> DEFINE m == [v \in g.nodes |-> IF v \in V THEN Finite!Min({d[v], cut}) ELSE cut]
<1>a. PICK q : q = Risen(g, p, V, d, cut) OBVIOUS
<1>1. d \in [V -> Int] /\ V \in SUBSET g.nodes BY DEF CheapTree, Tree
<1>2. /\ m \in [g.nodes -> Int] /\ \A v \in g.nodes : m[v] <= cut
      /\ \A v \in V : m[v] <= d[v] /\ (m[v] = d[v] \/ m[v] = cut)
      /\ \A v \in g.nodes \ V : m[v] = cut
  <2>1. \A v \in V : /\ Finite!Min({d[v], cut}) \in {d[v], cut}
                     /\ Finite!Min({d[v], cut}) <= d[v] /\ Finite!Min({d[v], cut}) <= cut
    BY <1>1, MinOfTwo
  <2> QED BY <1>1, <2>1
<1> HIDE DEF m
<1>3. q \in [g.nodes -> Int] /\ \A v \in g.nodes : q[v] = p[v] + m[v] BY <1>2, <1>a DEF m, Risen
<1>4. ASSUME NEW a \in Arcs(g)
      PROVE  /\ ArcFrom(g, a) \in g.nodes /\ ArcTo(g, a) \in g.nodes /\ Plain(g, p, a) \in Int
             /\ m[ArcFrom(g, a)] \in Int /\ m[ArcTo(g, a)] \in Int
             /\ Plain(g, q, a) = Plain(g, p, a) + m[ArcFrom(g, a)] - m[ArcTo(g, a)]
  BY <1>2, <1>3, PlainIs DEF Plain
<1>5. ASSUME NEW a \in Arcs(g), Residual(g, fl, a) >= width PROVE Plain(g, q, a) >= 0
  <2>1. Plain(g, p, a) >= 0 BY <1>5 DEF PricedAt
  <2>2. CASE m[ArcFrom(g, a)] = cut BY <1>2, <1>4, <2>1, <2>2
  <2>3. CASE m[ArcFrom(g, a)] # cut
    <3>1. ArcFrom(g, a) \in V /\ m[ArcFrom(g, a)] = d[ArcFrom(g, a)] BY <1>2, <1>4, <2>3
    <3>2. ArcTo(g, a) \in V /\ d[ArcTo(g, a)] <= d[ArcFrom(g, a)] + Plain(g, p, a) BY <1>5, <3>1 DEF CheapTree
    <3>3. m[ArcTo(g, a)] <= d[ArcTo(g, a)] /\ d[ArcTo(g, a)] \in Int /\ d[ArcFrom(g, a)] \in Int
      BY <1>1, <1>2, <3>1, <3>2
    <3> QED BY <1>4, <3>1, <3>2, <3>3
  <2> QED BY <2>2, <2>3
<1>6. ASSUME NEW y \in V \ roots, d[y] <= cut PROVE Plain(g, q, by[y]) = 0
  <2>1. by[y] \in Arcs(g) /\ ArcTo(g, by[y]) = y /\ ArcFrom(g, by[y]) \in V BY DEF CheapTree, Tree
  <2>2. Residual(g, fl, by[y]) >= width /\ d[y] = d[ArcFrom(g, by[y])] + Plain(g, p, by[y]) BY DEF CheapTree
  <2>3. Plain(g, p, by[y]) >= 0 /\ Plain(g, p, by[y]) \in Int BY <1>4, <2>1, <2>2 DEF PricedAt
  <2>4. d[y] \in Int /\ d[ArcFrom(g, by[y])] \in Int /\ d[ArcFrom(g, by[y])] <= cut
    BY <1>1, <1>6, <2>1, <2>2, <2>3
  <2>5. ASSUME NEW v \in V, d[v] <= cut PROVE m[v] = d[v] BY <1>1, <1>2, <2>5
  <2>6. m[y] = d[y] /\ m[ArcFrom(g, by[y])] = d[ArcFrom(g, by[y])] BY <1>6, <2>1, <2>4, <2>5
  <2>7. Plain(g, q, by[y]) = Plain(g, p, by[y]) + m[ArcFrom(g, by[y])] - m[y] BY <1>4, <2>1
  <2> QED BY <2>2, <2>3, <2>4, <2>6, <2>7
<1> QED BY <1>3, <1>5, <1>6, <1>a DEF PricedAt

\* An arc gains room only from flow on the arc back.
LEMMA NewRoom ==
    ASSUME NEW g \in Problems, NEW fl, WithinBounds(g, fl), NEW width, width \in Nat,
           NEW n, NEW path, PathIn(g, path, n), NEW amount \in Nat,
           NEW b \in Arcs(g), Residual(g, Augment(g, fl, path, amount), b) >= width
    PROVE  Residual(g, fl, b) >= width \/ \E i \in 1 .. n : path[i] = Opposite(b)
<1>1. IsNetwork(g) /\ Listed(g, path, n) /\ amount \in Int BY ProblemsAssumption DEF PathIn
<1>2. /\ Residual(g, fl, b) \in Nat
      /\ Residual(g, Augment(g, fl, path, amount), b)
             = Residual(g, fl, b) - Carries(path, b, amount) + Carries(path, Opposite(b), amount)
  BY <1>1, AugmentedResidual
<1>3. Carries(path, b, amount) \in Nat /\ (Opposite(b) \notin ArcsOf(path) => Carries(path, Opposite(b), amount) = 0)
  BY DEF Carries
<1>4. CASE Opposite(b) \in ArcsOf(path) BY <1>1, <1>4 DEF ArcsOf, Listed
<1>5. CASE Opposite(b) \notin ArcsOf(path) BY <1>2, <1>3, <1>5
<1> QED BY <1>4, <1>5

\* What goes along arcs without slack opens only their reverses, without slack too.
LEMMA AugmentPriced ==
    ASSUME NEW g \in Problems, NEW fl, WithinBounds(g, fl), NEW q \in [g.nodes -> Int], NEW width, width \in Nat,
           PricedAt(g, fl, q, width), NEW n, NEW path, PathIn(g, path, n), NEW amount \in Nat,
           \A i \in 1 .. n : Plain(g, q, path[i]) = 0
    PROVE  PricedAt(g, Augment(g, fl, path, amount), q, width)
<1>a. PICK next : next = Augment(g, fl, path, amount) OBVIOUS
<1> SUFFICES ASSUME NEW b \in Arcs(g), Residual(g, next, b) >= width PROVE Plain(g, q, b) >= 0
  BY <1>a DEF PricedAt
<1>1. CASE Residual(g, fl, b) >= width BY <1>1 DEF PricedAt
<1>2. CASE ~(Residual(g, fl, b) >= width)
  <2>2. PICK i \in 1 .. n : path[i] = Opposite(b) BY <1>a, <1>2, NewRoom
  <2>3. Plain(g, q, Opposite(b)) = 0 BY <2>2
  <2>4. /\ ArcFrom(g, Opposite(b)) = ArcTo(g, b) /\ ArcTo(g, Opposite(b)) = ArcFrom(g, b)
        /\ b[1] \in Edges(g) /\ b[2] \in {"forward", "reverse"}
    BY ArcParts
  <2>5. ArcCost(g, Opposite(b)) = -ArcCost(g, b) /\ ArcCost(g, b) \in Int
    BY <2>4, ProblemsAssumption DEF ArcCost, Opposite
  <2>6. q[ArcFrom(g, b)] \in Int /\ q[ArcTo(g, b)] \in Int BY PlainIs
  <2> QED BY <2>3, <2>4, <2>5, <2>6 DEF Plain
<1> QED BY <1>1, <1>2

\* What flow along a path takes from one node and gives to another.
LEMMA PathAccounts ==
    ASSUME NEW g \in Problems, NEW fl, NEW ex, Accounts(g, fl, ex), NEW n, NEW path, PathIn(g, path, n),
           NEW amount \in Nat, \A i \in 1 .. n : amount <= Residual(g, fl, path[i])
    PROVE  Accounts(g, Augment(g, fl, path, amount), Moved(ex, ArcFrom(g, path[1]), ArcTo(g, path[n]), amount))
<1>0. PICK v, w : v = ArcFrom(g, path[1]) /\ w = ArcTo(g, path[n]) OBVIOUS
<1>6. IsNetwork(g) /\ WithinBounds(g, fl) /\ fl \in [Edges(g) -> Int] /\ ex \in [g.nodes -> Int]
  BY ProblemsAssumption DEF Accounts
<1>7. /\ WithinBounds(g, Augment(g, fl, path, amount))
      /\ \A u : /\ Divergence(g, fl, u) \in Int
                /\ Divergence(g, Augment(g, fl, path, amount), u) = Divergence(g, fl, u)
                       + (IF u = ArcFrom(g, path[1]) THEN amount ELSE 0)
                       - (IF u = ArcTo(g, path[n]) THEN amount ELSE 0)
  BY <1>6, AugmentAlong
<1>8. /\ WithinBounds(g, Augment(g, fl, path, amount))
      /\ \A u : /\ Divergence(g, fl, u) \in Int
                /\ Divergence(g, Augment(g, fl, path, amount), u) = Divergence(g, fl, u)
                       + (IF u = v THEN amount ELSE 0) - (IF u = w THEN amount ELSE 0)
  BY <1>0, <1>7
<1>9. Augment(g, fl, path, amount) \in [Edges(g) -> Int]
  <2>1. DOMAIN Augment(g, fl, path, amount) = Edges(g) BY DEF Augment
  <2>2. \A e \in Edges(g) : Augment(g, fl, path, amount)[e] \in Int BY <1>6, <1>8 DEF IsNetwork, WithinBounds
  <2>3. Augment(g, fl, path, amount) = [e \in Edges(g) |-> Augment(g, fl, path, amount)[e]] BY DEF Augment
  <2> QED BY <2>2, <2>3
<1>10. /\ Moved(ex, v, w, amount) \in [g.nodes -> Int]
       /\ \A u \in g.nodes : Moved(ex, v, w, amount)[u]
              = ex[u] - (IF u = v THEN amount ELSE 0) + (IF u = w THEN amount ELSE 0)
  BY <1>6 DEF Moved
<1>11. \A u \in g.nodes : Divergence(g, Augment(g, fl, path, amount), u) + Moved(ex, v, w, amount)[u] = g.required[u]
  <2> TAKE u \in g.nodes
  <2>1. Divergence(g, fl, u) + ex[u] = g.required[u] /\ ex[u] \in Int BY <1>6 DEF Accounts
  <2> QED BY <1>8, <1>10, <2>1
<1> QED BY <1>0, <1>8, <1>9, <1>10, <1>11 DEF Accounts

\* Flow sent along a cheapest path, at prices that have risen up to its end.
LEMMA CheapAugment ==
    ASSUME NEW g \in Problems, NEW fl, NEW ex, Accounts(g, fl, ex), NEW p \in [g.nodes -> Int],
           NEW width, width \in Nat, PricedAt(g, fl, p, width),
           NEW V, NEW by, NEW d, NEW v, CheapTree(g, fl, p, width, {v}, V, by, d),
           NEW w \in V, w # v, NEW path, NEW n, NEW c, Tracks(g, V, by, {v}, w, path, n, c),
           NEW amount \in Nat, \A i \in 1 .. n : amount <= Residual(g, fl, path[i])
    PROVE  /\ Accounts(g, Augment(g, fl, path, amount), Moved(ex, v, w, amount))
           /\ Risen(g, p, V, d, d[w]) \in [g.nodes -> Int]
           /\ PricedAt(g, Augment(g, fl, path, amount), Risen(g, p, V, d, d[w]), width)
<1>a. PICK q : q = Risen(g, p, V, d, d[w]) OBVIOUS
<1>1. d \in [V -> Int] /\ d[w] \in Int /\ V \in SUBSET g.nodes BY DEF CheapTree, Tree
<1>2. /\ q \in [g.nodes -> Int] /\ PricedAt(g, fl, q, width)
      /\ \A y \in V \ {v} : d[y] <= d[w] => Plain(g, q, by[y]) = 0
  <2>1. PICK cut \in Int : cut = d[w] BY <1>1
  <2>2. PICK roots : roots = {v} OBVIOUS
  <2>3. CheapTree(g, fl, p, width, roots, V, by, d) /\ q = Risen(g, p, V, d, cut) BY <1>a, <2>1, <2>2
  <2>4. /\ Risen(g, p, V, d, cut) \in [g.nodes -> Int]
        /\ PricedAt(g, fl, Risen(g, p, V, d, cut), width)
        /\ \A y \in V \ roots : d[y] <= cut => Plain(g, Risen(g, p, V, d, cut), by[y]) = 0
    BY <2>3, RisenHold
  <2> QED BY <2>1, <2>2, <2>3, <2>4
<1>3. \A i \in 0 .. n : d[c[i]] <= d[w] BY NearerBack
<1>4. /\ PathIn(g, path, n) /\ ArcFrom(g, path[1]) = v /\ ArcTo(g, path[n]) = w BY TrackedPath
<1>5. ASSUME NEW i \in 1 .. n PROVE Plain(g, q, path[i]) = 0
  <2>1. n \in Nat /\ c \in [0 .. n -> V] /\ \A j \in 0 .. (n - 1) : c[j] \notin {v} BY DEF Tracks
  <2>2. path[i] = by[c[n - i]] BY DEF Tracks
  <2>3. n - i \in 0 .. (n - 1) /\ n - i \in 0 .. n BY <2>1
  <2>4. c[n - i] \in V \ {v} /\ d[c[n - i]] <= d[w] BY <1>3, <2>1, <2>3
  <2> QED BY <1>2, <2>2, <2>4
<1>6. IsNetwork(g) /\ WithinBounds(g, fl) /\ fl \in [Edges(g) -> Int] /\ ex \in [g.nodes -> Int]
  BY ProblemsAssumption DEF Accounts
<1>7. PricedAt(g, Augment(g, fl, path, amount), q, width) BY <1>2, <1>4, <1>5, <1>6, AugmentPriced
<1>8. Accounts(g, Augment(g, fl, path, amount), Moved(ex, v, w, amount)) BY <1>4, PathAccounts
<1> QED BY <1>2, <1>7, <1>8, <1>a

\* What a search finds: cheapest paths to all that the arcs that count reach.
LEMMA DijkstraIs ==
    ASSUME Searchable, NEW roots \in SUBSET net.nodes
    PROVE  \E s : /\ s = Dijkstra(roots) /\ s.dist \in [DOMAIN s.dist -> Nat]
                  /\ CheapTree(net, flow, price, k.scale, roots, DOMAIN s.dist, s.by, s.dist)
<1> DEFINE base == [dist |-> [v \in roots |-> 0], by |-> <<>>, last |-> 0, done |-> {}]
<1>1. PICK t : t = Repeat(Settle, N, base) /\ Between(roots, t, N) /\ Open(t) = {} BY AllSettled
<1>2. PICK s : s = [t EXCEPT !.dist = [v \in DOMAIN t.dist |-> t.dist[v] \div Digit]] OBVIOUS
<1>3. s = Dijkstra(roots) BY <1>1, <1>2 DEF Dijkstra, With
<1> HIDE DEF base
<1>4. PICK c \in Nat : Spreads(roots, t, c) BY <1>1 DEF Between
<1> DEFINE V == DOMAIN t.dist
<1>5. /\ t \in DijkstraShapes /\ roots \subseteq V /\ t.done \subseteq V /\ Tree(net, V, t.by, roots)
      /\ \A y \in V \ roots :
             From(t.by[y]) \in t.done /\ Eligible(t.by[y]) /\ t.dist[y] = t.dist[From(t.by[y])] + Weight(t.by[y])
      /\ \A y \in t.done : t.dist[y] % Digit < Cardinality(t.done)
  BY <1>4 DEF Spreads
<1>6. t.dist \in [V -> Nat] /\ V \in SUBSET net.nodes /\ t.done \in SUBSET net.nodes /\ V = t.done
  BY <1>1, <1>5, PartialMap DEF DijkstraShapes, Open
<1>7. Digit \in Nat \ {0} /\ \A y \in t.done : t.dist[y] % Digit \in Nat /\ (t.dist[y] % Digit) + 1 < Digit
  <2>1. N \in Nat /\ IsFiniteSet(net.nodes) /\ N = Cardinality(net.nodes) /\ Digit = N + 1
    BY NodeCount DEF Searchable, Digit
  <2>2. Cardinality(t.done) \in Nat /\ Cardinality(t.done) <= N BY <1>6, <2>1, FS_Subset, FS_CardinalityType
  <2>3. Digit \in Nat \ {0} BY <2>1
  <2>4. ASSUME NEW y \in t.done PROVE t.dist[y] % Digit \in Nat
    <3>1. t.dist[y] \in Int BY <1>5, <1>6
    <3> QED BY <2>3, <3>1, DivMod
  <2> QED BY <1>5, <2>1, <2>2, <2>3, <2>4
<1> HIDE DEF V
<1>8. DOMAIN s.dist = V /\ s.by = t.by /\ \A y \in V : s.dist[y] = t.dist[y] \div Digit
  BY <1>2, <1>5 DEF DijkstraShapes, V
<1>9. s.dist \in [V -> Nat]
  <2>1. s.dist = [v \in DOMAIN t.dist |-> t.dist[v] \div Digit] BY <1>2, <1>5 DEF DijkstraShapes
  <2>2. ASSUME NEW y \in V PROVE t.dist[y] \div Digit \in Nat
    <3>1. PICK x \in Nat : x = t.dist[y] BY <1>6
    <3>2. PICK m \in Nat \ {0} : m = Digit BY <1>7
    <3>3. x \div m \in Nat BY DivMonotone, DivMod
    <3> QED BY <3>1, <3>2, <3>3
  <2> QED BY <2>1, <2>2 DEF V
<1>10. ASSUME NEW a \in Arcs(net), Eligible(a), From(a) \in V
       PROVE  /\ t.dist[From(a)] + Weight(a) \in Nat
              /\ (t.dist[From(a)] + Weight(a)) \div Digit = s.dist[From(a)] + Plain(net, price, a)
  <2>1. PICK u \in {0, 1} : Weight(a) = ReducedCost(price, a) * Digit + u BY <1>10, WeightIs
  <2>2. ReducedCost(price, a) \in Nat /\ Weight(a) \in Nat BY <1>10, WeightIs
  <2>3. PICK x \in Nat : x = t.dist[From(a)] BY <1>6, <1>10
  <2>4. PICK m \in Nat \ {0} : m = Digit BY <1>7
  <2>5. x % m \in Nat /\ (x % m) + 1 < m BY <1>6, <1>7, <1>10, <2>3, <2>4
  <2>6. (x % m) + u < m BY <2>5
  <2>7. PICK r \in Nat : r = ReducedCost(price, a) BY <2>2
  <2>8. (x + (r * m + u)) \div m = x \div m + r BY <2>6, DigitAdds
  <2>9. r = Plain(net, price, a) BY <2>7, PlainCost DEF Searchable, Plain, From, To
  <2> QED BY <1>8, <1>10, <2>1, <2>2, <2>3, <2>4, <2>7, <2>8, <2>9
<1>11. ASSUME NEW y \in V \ roots
       PROVE  /\ Residual(net, flow, s.by[y]) >= k.scale
              /\ s.dist[y] = s.dist[ArcFrom(net, s.by[y])] + Plain(net, price, s.by[y])
  BY <1>5, <1>6, <1>8, <1>10 DEF Tree, V, Eligible, R, From
<1>12. ASSUME NEW a \in Arcs(net), Residual(net, flow, a) >= k.scale, ArcFrom(net, a) \in V
       PROVE  /\ ArcTo(net, a) \in V
              /\ s.dist[ArcTo(net, a)] <= s.dist[ArcFrom(net, a)] + Plain(net, price, a)
  <2>1. Eligible(a) /\ From(a) \in V BY <1>12 DEF Eligible, R, From
  <2>2. Spread(t, a) BY <1>1, <1>6, <2>1 DEF Between
  <2>3. To(a) \in V /\ t.dist[To(a)] <= t.dist[From(a)] + Weight(a) BY <2>2 DEF Spread, V
  <2>4. /\ t.dist[From(a)] + Weight(a) \in Nat
        /\ (t.dist[From(a)] + Weight(a)) \div Digit = s.dist[From(a)] + Plain(net, price, a)
    BY <1>10, <2>1
  <2>5. PICK e \in Int : e = t.dist[From(a)] + Weight(a) BY <2>4
  <2>6. PICK x \in Int : x = t.dist[To(a)] BY <1>6, <2>3
  <2>7. PICK m \in Nat \ {0} : m = Digit BY <1>7
  <2>8. x \div m <= e \div m BY <2>3, <2>5, <2>6, DivMonotone
  <2> QED BY <1>8, <2>3, <2>4, <2>5, <2>6, <2>7, <2>8 DEF From, To
<1>13. s.dist \in [V -> Int] BY <1>9
<1>14. Tree(net, V, s.by, roots) /\ roots \subseteq V BY <1>5, <1>8 DEF V
<1>15. CheapTree(net, flow, price, k.scale, roots, V, s.by, s.dist)
  BY <1>11, <1>12, <1>13, <1>14 DEF CheapTree
<1> QED BY <1>3, <1>8, <1>9, <1>15

(***************************************************************************)
(* Where the arcs of the improvements lead round, distances fall on the     *)
(* way: a negative cycle. Prices that hold exclude that, and passes from    *)
(* one node then end with cheapest paths.                                   *)
(***************************************************************************)

\* Whatever the arcs of the improvements never leave has one that falls.
RoundsFall(x) == \A S \in SUBSET DOMAIN x.by :
    S # {} /\ (\A z \in S : From(x.by[z]) \in S) =>
        \E z \in S : x.dist[z] > x.dist[From(x.by[z])] + ArcCost(net, x.by[z])

\* What every improvement keeps passes keep.
LEMMA PassesKeep ==
    ASSUME net \in Problems, NEW G,
           \A x \in G : [x EXCEPT !.last = 0] \in G,
           \A x \in G : \A a \in Arcs(net) : ImproveOver(x, a) \in G,
           NEW x \in G, NEW n \in Nat
    PROVE  Repeat(Pass, n, x) \in G
<1> DEFINE seq == [i \in 1 .. n |-> i]
<1>1. ASSUME NEW y \in G PROVE Pass(y) \in G
  <2> DEFINE base == [y EXCEPT !.last = 0]
             arcs == NodeArcs
             m == Len(NodeArcs)
  <2>1. base \in G OBVIOUS
  <2>2. m \in Nat /\ DOMAIN arcs = 1 .. m /\ \A l \in 1 .. m : arcs[l] \in Arcs(net)
    BY NodeArcsList, LenProperties
  <2>3. PassesWithin(G, m, arcs) BY <2>2 DEF PassesWithin
  <2> HIDE DEF base, m, arcs
  <2>4. PICK h : PassingRun(h, m, G, base, arcs) /\ h[m] = Pass(y)
    BY <2>1, <2>2, <2>3, PassedRuns DEF base, arcs
  <2>5. m \in 0 .. m BY <2>2
  <2> QED BY <2>4, <2>5 DEF PassingRun
<1>2. RepeatsPassWithin(G, n, seq) BY <1>1 DEF RepeatsPassWithin
<1>3. DOMAIN seq = 1 .. n OBVIOUS
<1>4. PICK h : PassesRun(h, n, G, x, seq) /\ h[n] = Repeat(Pass, n, x) BY <1>2, <1>3, RepeatedPasses
<1>5. n \in 0 .. n OBVIOUS
<1> QED BY <1>4, <1>5 DEF PassesRun

\* An improvement leaves distances falling on the way round.
LEMMA ImproveFalls ==
    ASSUME net \in Problems, NEW x \in Shapes, Hung(x), RoundsFall(x), NEW a \in Arcs(net)
    PROVE  ImproveOver(x, a) \in Shapes /\ Hung(ImproveOver(x, a)) /\ RoundsFall(ImproveOver(x, a))
<1>1. CASE ImproveOver(x, a) = x BY <1>1
<1>2. CASE ImproveOver(x, a) # x
  <2>a. PICK w : w = To(a) OBVIOUS
  <2>b. PICK u : u = From(a) OBVIOUS
  <2>c. PICK c : c = ArcCost(net, a) OBVIOUS
  <2>d. PICK y : y = ImproveOver(x, a) OBVIOUS
  <2>1. R(a) > 0 /\ u \in DOMAIN x.dist /\ ~Rests(x, a) /\ Improved(x, y, a)
    BY <1>2, <2>b, <2>d, ImproveOverIs
  <2>2. y \in Shapes /\ Hung(y) BY <2>1, <2>b, HungBelow DEF Improved
  <2>3. /\ DOMAIN y.dist = DOMAIN x.dist \cup {w} /\ DOMAIN y.by = DOMAIN x.by \cup {w}
        /\ y.dist[w] = x.dist[u] + c /\ y.by[w] = a
        /\ \A z \in DOMAIN x.dist : z # w => y.dist[z] = x.dist[z]
        /\ \A z \in DOMAIN x.by : z # w => y.by[z] = x.by[z]
    BY <2>1, <2>a, <2>b, <2>c DEF Improved
  <2>4. c \in Int /\ x.dist \in [DOMAIN x.dist -> Int] /\ x.dist[u] \in Int
    BY <2>1, PartialMap, <2>c, ArcEnds DEF Shapes
  <2>5. w \in DOMAIN x.dist => x.dist[w] > y.dist[w] BY <2>1, <2>3, <2>4, <2>a, <2>b, <2>c DEF Rests
  <2>6. ASSUME NEW S \in SUBSET DOMAIN y.by, S # {}, \A z \in S : From(y.by[z]) \in S
        PROVE  \E z \in S : y.dist[z] > y.dist[From(y.by[z])] + ArcCost(net, y.by[z])
    <3>0. ASSUME NEW z \in S, z # w
          PROVE  /\ z \in DOMAIN x.by /\ y.by[z] = x.by[z] /\ z \in DOMAIN x.dist /\ y.dist[z] = x.dist[z]
                 /\ From(x.by[z]) \in DOMAIN x.dist /\ x.dist[z] >= x.dist[From(x.by[z])] + ArcCost(net, x.by[z])
                 /\ x.dist[z] \in Int /\ x.dist[From(x.by[z])] \in Int /\ ArcCost(net, x.by[z]) \in Int
      <4>1. z \in DOMAIN x.by /\ y.by[z] = x.by[z] BY <2>3, <2>6, <3>0
      <4>2. /\ z \in DOMAIN x.dist /\ From(x.by[z]) \in DOMAIN x.dist
            /\ x.dist[z] >= x.dist[From(x.by[z])] + ArcCost(net, x.by[z])
        BY <4>1 DEF Hung
      <4>3. x.by[z] \in Arcs(net) BY <4>1, PartialMap DEF Shapes
      <4> QED BY <2>3, <2>4, <3>0, <4>1, <4>2, <4>3, ArcEnds
    <3>1. CASE w \notin S
      <4>1. \A z \in S : z \in DOMAIN x.by /\ From(x.by[z]) \in S BY <2>6, <3>0, <3>1
      <4>2. PICK z \in S : x.dist[z] > x.dist[From(x.by[z])] + ArcCost(net, x.by[z])
        BY <2>6, <4>1 DEF RoundsFall
      <4>3. From(x.by[z]) \in S /\ From(x.by[z]) # w BY <3>1, <4>1
      <4> QED BY <2>3, <3>0, <3>1, <4>2, <4>3
    <3>2. CASE w \in S /\ \E z \in S : z # w /\ From(y.by[z]) = w
      <4>1. PICK z \in S : z # w /\ From(y.by[z]) = w BY <3>2
      <4>2. /\ y.by[z] = x.by[z] /\ y.dist[z] = x.dist[z] /\ w \in DOMAIN x.dist /\ From(x.by[z]) = w
            /\ x.dist[z] >= x.dist[w] + ArcCost(net, x.by[z])
            /\ x.dist[z] \in Int /\ x.dist[w] \in Int /\ ArcCost(net, x.by[z]) \in Int
        BY <3>0, <4>1
      <4>3. y.dist[w] \in Int BY <2>3, <2>4
      <4>4. y.dist[z] > y.dist[w] + ArcCost(net, y.by[z]) BY <2>5, <4>2, <4>3
      <4> QED BY <4>1, <4>4
    <3>3. CASE w \in S /\ u = w
      <4>1. x.dist[w] > y.dist[w] /\ x.dist[w] \in Int /\ y.dist[w] = x.dist[w] + c
        BY <2>1, <2>3, <2>4, <2>5, <3>3
      <4>2. y.dist[w] > y.dist[w] + c BY <2>4, <4>1
      <4>3. From(y.by[w]) = w /\ ArcCost(net, y.by[w]) = c BY <2>3, <2>b, <2>c, <3>3
      <4> QED BY <3>3, <4>2, <4>3
    <3>4. CASE w \in S /\ u # w /\ \A z \in S : z # w => From(y.by[z]) # w
      <4> DEFINE T == S \ {w}
      <4>1. u \in T BY <2>3, <2>6, <3>4, <2>b
      <4>2. \A z \in T : z \in DOMAIN x.by /\ From(x.by[z]) \in T BY <2>6, <3>0, <3>4
      <4>3. T \in SUBSET DOMAIN x.by /\ T # {} BY <4>1, <4>2
      <4> HIDE DEF T
      <4>4. PICK z \in T : x.dist[z] > x.dist[From(x.by[z])] + ArcCost(net, x.by[z])
        BY <4>2, <4>3 DEF RoundsFall
      <4>5. z \in S /\ z # w /\ From(x.by[z]) # w BY <4>2 DEF T
      <4> QED BY <2>3, <3>0, <4>4, <4>5
    <3> QED BY <3>1, <3>2, <3>3, <3>4
  <2> QED BY <2>2, <2>6, <2>d DEF RoundsFall
<1> QED BY <1>1, <1>2

\* Under prices that hold the arcs of the improvements lead out of every set but to the start.
LEMMA NoRounds ==
    ASSUME net \in Problems, NEW p, Proves(net, flow, p), NEW x \in Shapes, Hung(x), RoundsFall(x),
           NEW S \in SUBSET DOMAIN x.by, S # {}
    PROVE  \E z \in S : From(x.by[z]) \notin S
<1> SUFFICES ASSUME \A z \in S : From(x.by[z]) \in S PROVE FALSE OBVIOUS
<1> DEFINE d == [z \in S |-> x.dist[z] - p[z]]
<1>1. /\ x.dist \in [DOMAIN x.dist -> Int] /\ x.by \in [DOMAIN x.by -> Arcs(net)] /\ DOMAIN x.by \in SUBSET net.nodes
      /\ p \in [net.nodes -> Int]
  BY PartialMap DEF Shapes, Proves
<1>2. ASSUME NEW z \in S
      PROVE  /\ d[z] \in Int /\ d[From(x.by[z])] \in Int /\ x.by[z] \in Arcs(net) /\ ArcCost(net, x.by[z]) \in Int
             /\ d[z] = x.dist[z] - p[z] /\ d[From(x.by[z])] = x.dist[From(x.by[z])] - p[From(x.by[z])]
             /\ x.dist[z] \in Int /\ p[z] \in Int /\ x.dist[From(x.by[z])] \in Int /\ p[From(x.by[z])] \in Int
             /\ ArcCost(net, x.by[z]) + p[From(x.by[z])] - p[z] >= 0
             /\ x.dist[z] >= x.dist[From(x.by[z])] + ArcCost(net, x.by[z])
  <2>1. /\ z \in DOMAIN x.dist /\ To(x.by[z]) = z /\ From(x.by[z]) \in DOMAIN x.dist /\ R(x.by[z]) > 0
        /\ x.dist[z] >= x.dist[From(x.by[z])] + ArcCost(net, x.by[z])
    BY DEF Hung
  <2>2. x.by[z] \in Arcs(net) /\ z \in net.nodes /\ From(x.by[z]) \in net.nodes BY <1>1
  <2>3. ArcCost(net, x.by[z]) + p[From(x.by[z])] - p[z] >= 0 BY <2>1, <2>2 DEF Proves, R, From, To
  <2>4. ArcCost(net, x.by[z]) \in Int BY <2>2, ArcEnds
  <2> QED BY <1>1, <2>1, <2>2, <2>3, <2>4
<1>3. PICK least \in Int : (\E z \in S : d[z] = least) /\ \A z \in S : least <= d[z]
  <2> DEFINE T == {d[z] : z \in S}
  <2>1. IsFiniteSet(S) BY <1>1, NodeCount, FS_Subset
  <2> HIDE DEF d
  <2>2. IsFiniteSet(T) /\ T # {} /\ T \subseteq Int BY <1>2, <2>1, FiniteImage
  <2> HIDE DEF T
  <2>3. PICK least \in T : \A e \in T : least <= e BY <2>2, LeastExists
  <2> QED BY <2>2, <2>3 DEF T
<1> HIDE DEF d
<1> DEFINE T == {z \in S : d[z] = least}
<1>4. ASSUME NEW z \in T PROVE From(x.by[z]) \in T
  <2>1. From(x.by[z]) \in S /\ least <= d[From(x.by[z])] /\ d[z] = least BY <1>3
  <2>2. d[From(x.by[z])] <= d[z] BY <1>2
  <2> QED BY <1>2, <2>1, <2>2
<1>5. T # {} /\ T \in SUBSET DOMAIN x.by BY <1>3
<1>6. PICK z \in T : x.dist[z] > x.dist[From(x.by[z])] + ArcCost(net, x.by[z]) BY <1>4, <1>5 DEF RoundsFall
<1>7. d[z] = least /\ d[From(x.by[z])] = least /\ z \in S BY <1>4
<1> QED BY <1>2, <1>6, <1>7

\* Where steps back stay inside a set so long that they meet a node again, they go round.
LEMMA BackNeverMeets ==
    ASSUME net \in Problems, NEW p, Proves(net, flow, p), NEW s \in Shapes, Hung(s), RoundsFall(s),
           NEW x, NEW n \in Nat, \A i \in 0 .. n : i < n => BackBy(s, i, x) \in DOMAIN s.by
    PROVE  \A i \in 0 .. n : \A j \in 0 .. n : i < j => BackBy(s, i, x) # BackBy(s, j, x)
<1> SUFFICES ASSUME NEW i \in 0 .. n, NEW j \in 0 .. n, i < j, BackBy(s, i, x) = BackBy(s, j, x) PROVE FALSE
  OBVIOUS
<1> DEFINE b(m) == BackBy(s, m, x)
           S == {b(m) : m \in i .. (j - 1)}
<1>1. S \in SUBSET DOMAIN s.by /\ S # {} OBVIOUS
<1>2. ASSUME NEW z \in S PROVE From(s.by[z]) \in S
  <2>1. PICK m \in i .. (j - 1) : z = b(m) OBVIOUS
  <2>2. m \in Nat /\ (m + 1 \in i .. (j - 1) \/ m + 1 = j) OBVIOUS
  <2>3. b(m + 1) = From(s.by[b(m)]) BY <2>2, BackSteps
  <2>4. i \in i .. (j - 1) OBVIOUS
  <2> HIDE DEF b
  <2>5. b(i) = b(j) BY DEF b
  <2> QED BY <2>1, <2>2, <2>3, <2>4, <2>5
<1> HIDE DEF S
<1> QED BY <1>1, <1>2, NoRounds

\* How a search starts there is nothing to lead round.
LEMMA SearchFalls ==
    ASSUME net \in Problems, NEW roots \in SUBSET net.nodes, NEW dist \in [roots -> Int]
    PROVE  /\ Search(dist) \in Shapes /\ Hung(Search(dist)) /\ RoundsFall(Search(dist))
           /\ Search(dist).by = <<>> /\ Search(dist).dist = dist
<1>1. Search(dist) \in Shapes BY PassesStart
<1>2. Search(dist).by = <<>> /\ DOMAIN <<>> = {} /\ Search(dist).dist = dist BY DEF Search
<1> QED BY <1>1, <1>2 DEF Hung, RoundsFall

\* So does the start of another pass.
LEMMA RestartFalls ==
    ASSUME NEW x \in Shapes, Hung(x), RoundsFall(x)
    PROVE  /\ [x EXCEPT !.last = 0] \in Shapes /\ Hung([x EXCEPT !.last = 0]) /\ RoundsFall([x EXCEPT !.last = 0])
<1> DEFINE y == [x EXCEPT !.last = 0]
<1>1. y \in Shapes /\ y.dist = x.dist /\ y.by = x.by BY DEF Shapes
<1> HIDE DEF y
<1>2. Hung(y) /\ RoundsFall(y) BY <1>1 DEF Hung, RoundsFall
<1> QED BY <1>1, <1>2 DEF y

\* The passes from all nodes at once have the distances falling on the way round.
LEMMA ZeroPassesFall ==
    ASSUME net \in Problems PROVE ZeroPasses \in Shapes /\ Hung(ZeroPasses) /\ RoundsFall(ZeroPasses)
<1> DEFINE s == ZeroPasses
           G == {y \in Shapes : Hung(y) /\ RoundsFall(y)}
           dist == [v \in net.nodes |-> 0]
<1>2. N \in Nat BY NodeCount
<1>3. s \in G
  <2>1. net.nodes \in SUBSET net.nodes /\ dist \in [net.nodes -> Int] OBVIOUS
  <2> HIDE DEF dist
  <2>2. Search(dist) \in G BY <2>1, SearchFalls
  <2>3. \A y \in G : [y EXCEPT !.last = 0] \in G BY RestartFalls
  <2>4. \A y \in G : \A a \in Arcs(net) : ImproveOver(y, a) \in G BY ImproveFalls
  <2> HIDE DEF G
  <2>5. Repeat(Pass, N, Search(dist)) \in G BY <1>2, <2>2, <2>3, <2>4, PassesKeep
  <2> QED BY <2>5 DEF ZeroPasses, dist
<1> QED BY <1>3

\* Where some prices hold the last pass improves nothing.
LEMMA PricesEndPasses ==
    ASSUME net \in Problems, NEW p, Proves(net, flow, p) PROVE ~HasNegativeCycle
<1> SUFFICES ASSUME ZeroPasses.last # 0 PROVE FALSE BY DEF HasNegativeCycle
<1> DEFINE s == ZeroPasses
           x == s.last
<1>1. Passing(net.nodes, N, Len(NodeArcs), s) /\ DOMAIN s.dist = net.nodes BY ZeroPassesTimed
<1>2. N \in Nat /\ N > 0 /\ IsFiniteSet(net.nodes) /\ N = Cardinality(net.nodes) BY NodeCount
<1>4. s \in Shapes /\ Hung(s) /\ RoundsFall(s) BY ZeroPassesFall
<1>a. s.last # 0 OBVIOUS
<1> HIDE DEF s
<1>5. PICK t : TimedBy(N, Len(NodeArcs), s, t) BY <1>1 DEF Passing
<1>6. x \in DOMAIN s.dist /\ t[x] = N BY <1>a, <1>5 DEF TimedBy
<1> HIDE DEF x
<1>7. \A i \in 0 .. N : BackBy(s, i, x) \in net.nodes /\ (i < N => BackBy(s, i, x) \in DOMAIN s.by)
  BY <1>1, <1>2, <1>4, <1>5, <1>6, BackIsTimed
<1>8. \E i \in 0 .. N : \E j \in 0 .. N : i < j /\ BackBy(s, i, x) = BackBy(s, j, x)
  BY <1>2, <1>7, BackMeetsTwice
<1>9. \A i \in 0 .. N : \A j \in 0 .. N : i < j => BackBy(s, i, x) # BackBy(s, j, x)
  BY <1>2, <1>4, <1>7, BackNeverMeets
<1> QED BY <1>8, <1>9

\* A search from one node: it stays at no distance, nothing is nearer in terms of prices that hold.
Rooted(p, v, x) ==
    /\ x \in Shapes /\ Hung(x) /\ RoundsFall(x) /\ v \in DOMAIN x.dist /\ v \notin DOMAIN x.by /\ x.dist[v] = 0
    /\ \A z \in DOMAIN x.dist : x.dist[z] - p[z] >= -p[v]

\* Where prices hold, an improvement leaves the search rooted in its one node.
LEMMA ImproveRooted ==
    ASSUME net \in Problems, NEW p, Proves(net, flow, p), NEW v \in net.nodes, NEW x, Rooted(p, v, x), NEW a \in Arcs(net)
    PROVE  Rooted(p, v, ImproveOver(x, a))
<1>1. CASE ImproveOver(x, a) = x BY <1>1
<1>2. CASE ImproveOver(x, a) # x
  <2>d. PICK y : y = ImproveOver(x, a) OBVIOUS
  <2>1. x \in Shapes /\ Hung(x) /\ RoundsFall(x) BY DEF Rooted
  <2>2. y \in Shapes /\ Hung(y) /\ RoundsFall(y) BY <2>1, <2>d, ImproveFalls
  <2>3. R(a) > 0 /\ From(a) \in DOMAIN x.dist /\ ~Rests(x, a) /\ Improved(x, y, a)
    BY <1>2, <2>1, <2>d, ImproveOverIs
  <2>4. /\ DOMAIN y.dist = DOMAIN x.dist \cup {To(a)} /\ DOMAIN y.by = DOMAIN x.by \cup {To(a)}
        /\ y.dist[To(a)] = x.dist[From(a)] + ArcCost(net, a)
        /\ \A z \in DOMAIN x.dist : z # To(a) => y.dist[z] = x.dist[z]
    BY <2>3 DEF Improved
  <2>5. x.dist \in [DOMAIN x.dist -> Int] /\ p \in [net.nodes -> Int] BY <2>1, PartialMap DEF Shapes, Proves
  <2>6. From(a) \in net.nodes /\ To(a) \in net.nodes /\ ArcCost(net, a) \in Int BY ArcEnds DEF From, To
  <2>7. /\ p[v] \in Int /\ p[From(a)] \in Int /\ p[To(a)] \in Int /\ x.dist[From(a)] \in Int
    BY <2>3, <2>5, <2>6
  <2>8. ArcCost(net, a) + p[From(a)] - p[To(a)] >= 0 BY <2>3 DEF Proves, R, From, To
  <2>9. x.dist[From(a)] - p[From(a)] >= -p[v] BY <2>3 DEF Rooted
  <2>10. y.dist[To(a)] - p[To(a)] >= -p[v] BY <2>4, <2>6, <2>7, <2>8, <2>9
  <2>11. To(a) # v
    <3> SUFFICES ASSUME To(a) = v PROVE FALSE OBVIOUS
    <3>1. x.dist[v] = 0 /\ v \in DOMAIN x.dist BY DEF Rooted
    <3>2. x.dist[From(a)] + ArcCost(net, a) >= 0 BY <2>6, <2>7, <2>8, <2>9
    <3> QED BY <2>3, <3>1, <3>2 DEF Rests
  <2>12. v \in DOMAIN y.dist /\ v \notin DOMAIN y.by /\ y.dist[v] = 0 BY <2>4, <2>11 DEF Rooted
  <2>13. \A z \in DOMAIN y.dist : y.dist[z] - p[z] >= -p[v] BY <2>4, <2>10 DEF Rooted
  <2> QED BY <2>2, <2>12, <2>13, <2>d DEF Rooted
<1> QED BY <1>1, <1>2

\* One pass fewer than there are nodes leaves nothing to improve: where the last one still
\* improved, the way back is through all nodes, and nothing on it is farther.
LEMMA RootedRests ==
    ASSUME net \in Problems, NEW p, Proves(net, flow, p), NEW v \in net.nodes, NEW s, Rooted(p, v, s),
           N > 1, NEW t, TimedBy(N - 1, Len(NodeArcs), s, t),
           NEW a \in Arcs(net), R(a) > 0, From(a) \in DOMAIN s.dist
    PROVE  Rests(s, a)
<1>a. PICK x : x = From(a) OBVIOUS
<1>b. PICK w : w = To(a) OBVIOUS
<1>c. PICK n \in Nat : n = N - 1 /\ n > 0 /\ N = n + 1 BY NodeCount
<1>1. s \in Shapes /\ Hung(s) /\ RoundsFall(s) BY DEF Rooted
<1>2. x \in DOMAIN s.dist /\ t[x] \in 0 .. n BY <1>a, <1>c DEF TimedBy
<1>3. CASE t[x] < n
  <2>1. t[x] <= n - 2 \/ t[x] = n - 1 BY <1>2, <1>3
  <2>2. \E m \in 1 .. Len(NodeArcs) : NodeArcs[m] = a BY NodeArcsList
  <2> QED BY <1>a, <1>c, <2>1, <2>2 DEF TimedBy
<1>4. CASE t[x] = n
  <2>0. TimedBy(n, Len(NodeArcs), s, t) BY <1>c
  <2>1. \A i \in 0 .. n : BackBy(s, i, x) \in DOMAIN s.dist /\ (i < n => BackBy(s, i, x) \in DOMAIN s.by)
    BY <1>1, <1>2, <1>4, <2>0, BackIsTimed
  <2>2. DOMAIN s.dist \in SUBSET net.nodes /\ s.dist \in [DOMAIN s.dist -> Int] /\ s.by \in [DOMAIN s.by -> Arcs(net)]
        /\ p \in [net.nodes -> Int]
    BY <1>1, PartialMap DEF Shapes, Proves
  <2>3. w \in net.nodes /\ ArcCost(net, a) \in Int BY <1>b, ArcEnds DEF To
  <2>4. PICK i \in 0 .. n : BackBy(s, i, x) = w
    <3> SUFFICES ASSUME \A i \in 0 .. n : BackBy(s, i, x) # w PROVE FALSE OBVIOUS
    <3> DEFINE V == net.nodes \ {w}
    <3>1. IsFiniteSet(V) /\ Cardinality(V) <= n
      <4>1. IsFiniteSet(net.nodes) /\ Cardinality(net.nodes) = n + 1 BY <1>c, NodeCount
      <4>2. IsFiniteSet(V) /\ Cardinality(V) = Cardinality(net.nodes) - 1 BY <2>3, <4>1, FS_RemoveElement
      <4> QED BY <4>1, <4>2
    <3>2. \A i \in 0 .. n : BackBy(s, i, x) \in V BY <2>1, <2>2
    <3> HIDE DEF V
    <3>3. \E i \in 0 .. n : \E j \in 0 .. n : i < j /\ BackBy(s, i, x) = BackBy(s, j, x)
      BY <3>1, <3>2, BackMeetsTwice
    <3>4. \A i \in 0 .. n : \A j \in 0 .. n : i < j => BackBy(s, i, x) # BackBy(s, j, x)
      BY <1>1, <2>1, BackNeverMeets
    <3> QED BY <3>3, <3>4
  <2> DEFINE b(l) == BackBy(s, l, x)
             good == {l \in 0 .. n : s.dist[b(l)] - p[b(l)] <= s.dist[x] - p[x]}
  <2>5. 0 \in good BY <1>2, <2>2, BackSteps
  <2>6. ASSUME NEW l \in 0 .. n, l > 0, l - 1 \in good PROVE l \in good
    <3>1. l - 1 \in Nat /\ l - 1 \in 0 .. n /\ l - 1 < n /\ (l - 1) + 1 = l BY <2>6
    <3>2. PICK z : z = b(l - 1) OBVIOUS
    <3>3. z \in DOMAIN s.by /\ b(l) = From(s.by[z]) BY <2>1, <3>1, <3>2, BackSteps
    <3>4. /\ z \in DOMAIN s.dist /\ To(s.by[z]) = z /\ From(s.by[z]) \in DOMAIN s.dist /\ R(s.by[z]) > 0
          /\ s.dist[z] >= s.dist[From(s.by[z])] + ArcCost(net, s.by[z])
      BY <1>1, <3>3 DEF Hung
    <3>5. s.by[z] \in Arcs(net) /\ ArcCost(net, s.by[z]) \in Int BY <2>2, <3>3, ArcEnds
    <3>6. ArcCost(net, s.by[z]) + p[From(s.by[z])] - p[z] >= 0 BY <3>4, <3>5 DEF Proves, R, From, To
    <3>7. /\ s.dist[z] \in Int /\ p[z] \in Int /\ s.dist[From(s.by[z])] \in Int /\ p[From(s.by[z])] \in Int
          /\ s.dist[x] \in Int /\ p[x] \in Int
      BY <1>2, <2>2, <3>4
    <3>8. s.dist[z] - p[z] <= s.dist[x] - p[x] BY <2>6, <3>2
    <3> HIDE DEF b
    <3>9. s.dist[b(l)] - p[b(l)] <= s.dist[x] - p[x] BY <3>3, <3>4, <3>5, <3>6, <3>7, <3>8
    <3> QED BY <3>9
  <2> HIDE DEF good
  <2>7. 0 .. n \subseteq good BY <2>5, <2>6, UpToInduction
  <2>8. s.dist[w] - p[w] <= s.dist[x] - p[x] BY <2>4, <2>7 DEF good
  <2>9. ArcCost(net, a) + p[x] - p[w] >= 0 BY <1>a, <1>b DEF Proves, R, From, To
  <2>10. w \in DOMAIN s.dist BY <2>1, <2>4
  <2>11. s.dist[w] \in Int /\ s.dist[x] \in Int /\ p[w] \in Int /\ p[x] \in Int BY <1>2, <2>2, <2>10
  <2>12. s.dist[w] <= s.dist[x] + ArcCost(net, a) BY <2>3, <2>8, <2>9, <2>11
  <2> QED BY <1>a, <1>b, <2>10, <2>12 DEF Rests
<1> QED BY <1>2, <1>3, <1>4

\* What a search from one node finds: cheapest paths in terms of any prices that hold.
LEMMA PassesFind ==
    ASSUME net \in Problems, flow \in [Edges(net) -> Int], NEW p, Proves(net, flow, p), NEW v \in net.nodes
    PROVE  \E s : /\ s = Repeat(Pass, N - 1, Search([u \in {v} |-> 0])) /\ s.dist \in [DOMAIN s.dist -> Int]
                  /\ CheapTree(net, flow, p, 1, {v}, DOMAIN s.dist, s.by,
                               [y \in DOMAIN s.dist |-> s.dist[y] - p[y] + p[v]])
<1> DEFINE dist == [u \in {v} |-> 0]
           start == Search(dist)
           G == {y \in Shapes : Rooted(p, v, y)}
<1>a. PICK s : s = Repeat(Pass, N - 1, start) OBVIOUS
<1>1. N \in Nat /\ N > 1 /\ N - 1 \in Nat /\ N - 1 > 0
  <2>1. net.source \in net.nodes /\ net.sink \in net.nodes /\ net.source # net.sink
    BY ProblemsAssumption DEF IsNetwork
  <2>2. N \in Nat /\ N > 0 /\ net.nodes = 1 .. N BY NodeCount
  <2>3. N # 1 BY <2>1, <2>2
  <2> QED BY <2>2, <2>3
<1>2. {v} \in SUBSET net.nodes /\ dist \in [{v} -> Int] /\ dist[v] = 0 /\ DOMAIN dist = {v} /\ p[v] \in Int
  BY DEF Proves
<1> HIDE DEF dist
<1>3. start \in Shapes /\ Hung(start) /\ RoundsFall(start) /\ start.by = <<>> /\ start.dist = dist
  BY <1>2, SearchFalls
<1>4. start \in G BY <1>2, <1>3 DEF Rooted
<1>5. s \in G
  <2>1. \A y \in G : [y EXCEPT !.last = 0] \in G
    <3> SUFFICES ASSUME NEW y \in G PROVE [y EXCEPT !.last = 0] \in G OBVIOUS
    <3>1. Hung(y) /\ RoundsFall(y) BY DEF Rooted
    <3> DEFINE z == [y EXCEPT !.last = 0]
    <3>2. z \in Shapes /\ Hung(z) /\ RoundsFall(z) BY <3>1, RestartFalls
    <3>3. z.dist = y.dist /\ z.by = y.by BY DEF Shapes
    <3> HIDE DEF z
    <3>4. Rooted(p, v, z) BY <3>2, <3>3 DEF Rooted
    <3> QED BY <3>2, <3>4 DEF z
  <2>2. \A y \in G : \A a \in Arcs(net) : ImproveOver(y, a) \in G BY ImproveRooted DEF Rooted
  <2> HIDE DEF G, start
  <2>3. Repeat(Pass, N - 1, start) \in G BY <1>1, <1>4, <2>1, <2>2, PassesKeep
  <2> QED BY <1>a, <2>3
<1>6. Passing({v}, N - 1, Len(NodeArcs), s) BY <1>1, <1>2, <1>3, PassesStart, <1>a, PassesTimed
<1>7. PICK t : TimedBy(N - 1, Len(NodeArcs), s, t) BY <1>6 DEF Passing
<1>8. /\ Rooted(p, v, s) /\ s \in Shapes /\ Hung(s) /\ RoundsFall(s) /\ v \in DOMAIN s.dist
      /\ DOMAIN s.dist \ {v} \subseteq DOMAIN s.by /\ v \notin DOMAIN s.by
  BY <1>5, <1>6 DEF Rooted, Passing
<1> HIDE DEF G, start
<1> DEFINE V == DOMAIN s.dist
<1>9. s.dist \in [V -> Int] /\ V \in SUBSET net.nodes /\ p \in [net.nodes -> Int] /\ s.by \in [DOMAIN s.by -> Arcs(net)]
  BY <1>8, PartialMap DEF Shapes, Proves
<1>10. PICK d : d = [y \in V |-> s.dist[y] - p[y] + p[v]] OBVIOUS
<1>11. d \in [V -> Int] /\ \A y \in V : d[y] = s.dist[y] - p[y] + p[v] /\ s.dist[y] \in Int /\ p[y] \in Int
  BY <1>2, <1>9, <1>10
<1>12. ASSUME NEW a \in Arcs(net), R(a) > 0, From(a) \in V
       PROVE  To(a) \in V /\ d[To(a)] <= d[From(a)] + Plain(net, p, a) /\ ArcCost(net, a) \in Int
  <2>1. Rests(s, a) BY <1>1, <1>7, <1>8, <1>12, RootedRests
  <2>2. To(a) \in V /\ s.dist[To(a)] <= s.dist[From(a)] + ArcCost(net, a) BY <2>1 DEF Rests
  <2>3. ArcCost(net, a) \in Int BY ArcEnds
  <2> HIDE DEF V
  <2>4. d[To(a)] <= d[From(a)] + (ArcCost(net, a) + p[From(a)] - p[To(a)]) BY <1>2, <1>11, <1>12, <2>2, <2>3
  <2> QED BY <2>2, <2>3, <2>4 DEF Plain, From, To
<1>13. ASSUME NEW y \in V \ {v}
       PROVE  /\ y \in DOMAIN s.by /\ s.by[y] \in Arcs(net) /\ To(s.by[y]) = y /\ From(s.by[y]) \in V /\ R(s.by[y]) > 0
              /\ d[y] = d[From(s.by[y])] + Plain(net, p, s.by[y])
  <2>1. y \in DOMAIN s.by /\ s.by[y] \in Arcs(net) BY <1>8, <1>9
  <2>2. /\ To(s.by[y]) = y /\ From(s.by[y]) \in V /\ R(s.by[y]) > 0
        /\ s.dist[y] >= s.dist[From(s.by[y])] + ArcCost(net, s.by[y])
    BY <1>8, <2>1 DEF Hung
  <2>3. d[y] <= d[From(s.by[y])] + Plain(net, p, s.by[y]) /\ ArcCost(net, s.by[y]) \in Int
    BY <1>12, <2>1, <2>2
  <2>4. Plain(net, p, s.by[y]) = ArcCost(net, s.by[y]) + p[From(s.by[y])] - p[y] BY <2>2 DEF Plain, From, To
  <2> HIDE DEF V
  <2>5. d[y] >= d[From(s.by[y])] + (ArcCost(net, s.by[y]) + p[From(s.by[y])] - p[y])
    BY <1>2, <1>11, <2>2, <2>3
  <2>6. d[y] \in Int /\ d[From(s.by[y])] \in Int /\ p[y] \in Int /\ p[From(s.by[y])] \in Int BY <1>11, <2>2
  <2> QED BY <2>1, <2>2, <2>3, <2>4, <2>5, <2>6
<1>14. Tree(net, V, s.by, {v}) BY <1>8, <1>9, <1>13, NoRounds DEF From, Tree, NoClosedSet, To
<1>15. \A a \in Arcs(net) : Residual(net, flow, a) \in Int
  <2>1. net.lower \in [Edges(net) -> Nat] /\ net.capacity \in [Edges(net) -> Nat]
    BY ProblemsAssumption DEF IsNetwork
  <2> QED BY <2>1, ArcParts DEF Residual
<1>16. CheapTree(net, flow, p, 1, {v}, V, s.by, d)
  BY <1>8, <1>11, <1>12, <1>13, <1>14, <1>15 DEF CheapTree, From, To, R
<1> QED BY <1>9, <1>10, <1>16, <1>a DEF start, dist

(***************************************************************************)
(* One more unit round a cycle on which the distances of a search fall is   *)
(* cheaper, and leaves every node as it was.                                *)
(***************************************************************************)

\* Two flows that leave every node alike differ in cost by what the edges cost under
\* whatever prices.
LEMMA CostsDiffer ==
    ASSUME NEW g \in Problems, NEW fl, WithinBounds(g, fl), NEW h, WithinBounds(g, h),
           \A v \in g.nodes : Divergence(g, h, v) = Divergence(g, fl, v),
           NEW p \in [g.nodes -> Int], NEW c, DOMAIN c = Edges(g),
           \A e \in Edges(g) : c[e] = (g.cost[e] + p[g.from[e]] - p[g.to[e]]) * (h[e] - fl[e])
    PROVE  FlowCost(g, h) = FlowCost(g, fl) + Total(c, Edges(g))
<1> DEFINE E == Edges(g)
           V == g.nodes
           x == [e \in E |-> h[e] - fl[e]]
           out == [v \in V |-> Total(x, OfClass(E, g.from, v))]
           in == [v \in V |-> Total(x, OfClass(E, g.to, v))]
           a == Times(p, out, V)
           b == Times(p, in, V)
           af == ByClass(p, g.from, E)
           at == ByClass(p, g.to, E)
           F == Times(af, x, E)
           T == Times(at, x, E)
           K == Times(g.cost, x, E)
           Kf == Times(g.cost, fl, E)
           Kh == Times(g.cost, h, E)
           KF == [e \in E |-> K[e] + F[e]]
<1>1. /\ IsFiniteSet(E) /\ IsFiniteSet(V) /\ \A S \in SUBSET E : IsFiniteSet(S)
      /\ \A v \in V : p[v] \in Int
      /\ \A e \in E : g.from[e] \in V /\ g.to[e] \in V /\ g.cost[e] \in Int /\ fl[e] \in Int /\ h[e] \in Int
  <2>1. IsFiniteSet(E) BY ProblemTypes
  <2>2. \A S \in SUBSET E : IsFiniteSet(S) BY <2>1, FS_Subset
  <2>3. \A e \in E : g.from[e] \in V /\ g.to[e] \in V /\ g.cost[e] \in Int /\ fl[e] \in Int /\ h[e] \in Int
    BY ProblemTypes
  <2> QED BY <2>1, <2>2, <2>3, ProblemTypes
<1>2. \A e \in E : x[e] \in Int /\ h[e] = fl[e] + x[e] BY <1>1
<1>3. ASSUME NEW S \in SUBSET E
      PROVE  Total(h, S) = Total(fl, S) + Total(x, S) /\ Total(fl, S) \in Int /\ Total(x, S) \in Int
  <2>1. IsFiniteSet(S) /\ \A e \in S : fl[e] \in Int /\ x[e] \in Int /\ h[e] = fl[e] + x[e] BY <1>1, <1>2
  <2> HIDE DEF x
  <2> QED BY <2>1, TotalPlus, TotalType
<1>4. \A v \in V : out[v] = in[v]
  <2> TAKE v \in V
  <2> DEFINE S == OfClass(E, g.from, v)
             U == OfClass(E, g.to, v)
  <2>1. S \in SUBSET E /\ U \in SUBSET E BY DEF OfClass
  <2>2. Divergence(g, h, v) = Total(h, S) - Total(h, U) /\ Divergence(g, fl, v) = Total(fl, S) - Total(fl, U)
    BY SumIsTotal DEF Divergence, OfClass
  <2>3. out[v] = Total(x, S) /\ in[v] = Total(x, U) OBVIOUS
  <2> HIDE DEF S, U, x
  <2>4. /\ Total(h, S) = Total(fl, S) + Total(x, S) /\ Total(fl, S) \in Int /\ Total(x, S) \in Int
        /\ Total(h, U) = Total(fl, U) + Total(x, U) /\ Total(fl, U) \in Int /\ Total(x, U) \in Int
    BY <1>3, <2>1
  <2>5. Divergence(g, h, v) = Divergence(g, fl, v) OBVIOUS
  <2> QED BY <2>2, <2>3, <2>4, <2>5
<1>5. /\ \A v \in V : out[v] = Total(x, OfClass(E, g.from, v))
      /\ \A v \in V : in[v] = Total(x, OfClass(E, g.to, v))
  OBVIOUS
<1> HIDE DEF x, out, in, E, V
<1>6. (\A v \in V : out[v] \in Int) /\ Total(a, V) = Total(F, E) BY <1>1, <1>2, <1>5, WeightedByClass
<1>7. (\A v \in V : in[v] \in Int) /\ Total(b, V) = Total(T, E) BY <1>1, <1>2, <1>5, WeightedByClass
<1>8. Total(F, E) = Total(T, E)
  <2>1. \A v \in V : a[v] \in Int /\ a[v] = p[v] * out[v] BY <1>1, <1>6, TimesIsInt
  <2>2. \A v \in V : b[v] \in Int /\ b[v] = p[v] * in[v] BY <1>1, <1>7, TimesIsInt
  <2> HIDE DEF a, b, F, T
  <2>3. \A v \in V : a[v] \in Int /\ a[v] = b[v] BY <1>4, <2>1, <2>2
  <2>4. Total(a, V) = Total(b, V) BY <1>1, <2>3, TotalSame
  <2> QED BY <1>6, <1>7, <2>4
<1>9. \A e \in E : af[e] = p[g.from[e]] /\ af[e] \in Int /\ at[e] = p[g.to[e]] /\ at[e] \in Int
  BY <1>1 DEF ByClass
<1> HIDE DEF af, at
<1>10. \A e \in E : F[e] \in Int /\ F[e] = af[e] * x[e] BY <1>2, <1>9, TimesIsInt
<1>11. \A e \in E : T[e] \in Int /\ T[e] = at[e] * x[e] BY <1>2, <1>9, TimesIsInt
<1>12. \A e \in E : K[e] \in Int /\ K[e] = g.cost[e] * x[e] BY <1>1, <1>2, TimesIsInt
<1>13. \A e \in E : Kf[e] \in Int /\ Kf[e] = g.cost[e] * fl[e] BY <1>1, TimesIsInt
<1>14. \A e \in E : Kh[e] \in Int /\ Kh[e] = g.cost[e] * h[e] BY <1>1, TimesIsInt
<1>15. FlowCost(g, fl) = Total(Kf, E) /\ FlowCost(g, h) = Total(Kh, E) BY SumIsTotal DEF FlowCost, Times, E
<1> HIDE DEF F, T, K, Kf, Kh
<1>16. Total(Kh, E) = Total(Kf, E) + Total(K, E) BY <1>1, <1>2, <1>12, <1>13, <1>14, Distributes, TotalPlus
<1>17. \A e \in E : KF[e] \in Int /\ KF[e] = K[e] + F[e] BY <1>10, <1>12
<1> HIDE DEF KF
<1>18. Total(KF, E) = Total(K, E) + Total(F, E) BY <1>1, <1>10, <1>12, <1>17, TotalPlus
<1>19. ASSUME NEW e \in E PROVE c[e] \in Int /\ KF[e] = c[e] + T[e]
  <2>1. PICK i \in Int : i = g.cost[e] BY <1>1
  <2>2. PICK j \in Int : j = af[e] BY <1>9
  <2>3. PICK m \in Int : m = at[e] BY <1>9
  <2>4. PICK u \in Int : u = x[e] BY <1>2
  <2>5. c[e] = (i + j - m) * u BY <1>1, <1>2, <1>9, <2>1, <2>2, <2>3, <2>4 DEF E
  <2>6. (i + j - m) * u = i * u + j * u - m * u /\ i * u \in Int /\ j * u \in Int /\ m * u \in Int OBVIOUS
  <2>7. KF[e] = i * u + j * u /\ T[e] = m * u BY <1>10, <1>11, <1>12, <1>17, <2>1, <2>2, <2>3, <2>4
  <2> QED BY <2>5, <2>6, <2>7
<1>20. Total(KF, E) = Total(c, E) + Total(T, E) BY <1>1, <1>11, <1>17, <1>19, TotalPlus
<1>21. /\ Total(c, E) \in Int /\ Total(T, E) \in Int /\ Total(F, E) \in Int /\ Total(K, E) \in Int
  BY <1>1, <1>10, <1>11, <1>12, <1>19, TotalType
<1>22. Total(K, E) = Total(c, E)
  <2>1. PICK i \in Int : i = Total(K, E) BY <1>21
  <2>2. PICK j \in Int : j = Total(F, E) BY <1>21
  <2>3. PICK m \in Int : m = Total(c, E) BY <1>21
  <2>4. i + j = m + j BY <1>8, <1>18, <1>20, <2>1, <2>2, <2>3
  <2>5. i = m BY <2>4
  <2> QED BY <2>1, <2>3, <2>5
<1> QED BY <1>15, <1>16, <1>22 DEF E

\* A unit more along arcs whose cost under some prices is nowhere positive, and somewhere
\* negative, all of them with room.
LEMMA CycleIsCheaper ==
    ASSUME NEW g \in Problems, NEW fl, WithinBounds(g, fl), NEW cycle, NEW n, PathIn(g, cycle, n),
           ArcTo(g, cycle[n]) = ArcFrom(g, cycle[1]), \A i \in 1 .. n : Residual(g, fl, cycle[i]) >= 1,
           NEW p \in [g.nodes -> Int], \A i \in 1 .. n : Plain(g, p, cycle[i]) <= 0,
           NEW m \in 1 .. n, Plain(g, p, cycle[m]) < 0
    PROVE  \E h \in [Edges(g) -> Int] :
               /\ WithinBounds(g, h) /\ \A v \in g.nodes : Divergence(g, h, v) = Divergence(g, fl, v)
               /\ FlowCost(g, h) < FlowCost(g, fl)
<1>a. PICK h : h = Augment(g, fl, cycle, 1) OBVIOUS
<1>1. IsNetwork(g) /\ Listed(g, cycle, n) /\ 1 \in Nat /\ 1 \in Int BY ProblemsAssumption DEF PathIn
<1>2. /\ WithinBounds(g, h)
      /\ \A v : /\ Divergence(g, fl, v) \in Int
                /\ Divergence(g, h, v) = Divergence(g, fl, v)
                       + (IF v = ArcFrom(g, cycle[1]) THEN 1 ELSE 0) - (IF v = ArcTo(g, cycle[n]) THEN 1 ELSE 0)
  BY <1>1, <1>a, AugmentAlong
<1>3. \A v \in g.nodes : Divergence(g, h, v) = Divergence(g, fl, v) BY <1>2
<1>4. /\ IsFiniteSet(Edges(g))
      /\ \A e \in Edges(g) : /\ g.from[e] \in g.nodes /\ g.to[e] \in g.nodes /\ g.cost[e] \in Int
                             /\ fl[e] \in Int /\ h[e] \in Int
  BY <1>2, ProblemTypes
<1>5. h \in [Edges(g) -> Int] BY <1>4, <1>a DEF Augment
<1> DEFINE w(e) == g.cost[e] + p[g.from[e]] - p[g.to[e]]
           c == [e \in Edges(g) |-> w(e) * (h[e] - fl[e])]
           In(b) == b \in ArcsOf(cycle)
<1>6. ASSUME NEW b \in Arcs(g), In(b)
      PROVE  Plain(g, p, b) <= 0
  BY <1>1, <1>6 DEF ArcsOf, Listed
<1>7. ASSUME NEW e \in Edges(g)
      PROVE  /\ <<e, "forward">> \in Arcs(g) /\ <<e, "reverse">> \in Arcs(g) /\ w(e) \in Int
             /\ Plain(g, p, <<e, "forward">>) = w(e) /\ Plain(g, p, <<e, "reverse">>) = -w(e)
             /\ h[e] - fl[e] = (IF In(<<e, "forward">>) THEN 1 ELSE 0) - (IF In(<<e, "reverse">>) THEN 1 ELSE 0)
  <2>1. <<e, "forward">> \in Arcs(g) /\ <<e, "reverse">> \in Arcs(g) BY DEF Arcs
  <2>2. p[g.from[e]] \in Int /\ p[g.to[e]] \in Int /\ g.cost[e] \in Int BY <1>4
  <2>3. Plain(g, p, <<e, "forward">>) = w(e) /\ Plain(g, p, <<e, "reverse">>) = -w(e) /\ w(e) \in Int
    BY <2>2 DEF Plain, ArcCost, ArcFrom, ArcTo
  <2>4. /\ Carries(cycle, <<e, "forward">>, 1) = (IF In(<<e, "forward">>) THEN 1 ELSE 0)
        /\ Carries(cycle, <<e, "reverse">>, 1) = (IF In(<<e, "reverse">>) THEN 1 ELSE 0)
    BY DEF Carries
  <2>5. h[e] = fl[e] + Carries(cycle, <<e, "forward">>, 1) - Carries(cycle, <<e, "reverse">>, 1)
    BY <1>1, <1>4, <1>a, AugmentOnce
  <2>6. h[e] - fl[e] = (IF In(<<e, "forward">>) THEN 1 ELSE 0) - (IF In(<<e, "reverse">>) THEN 1 ELSE 0)
    BY <1>4, <2>4, <2>5
  <2> QED BY <2>1, <2>3, <2>6
<1> HIDE DEF In, w
<1>8. ASSUME NEW e \in Edges(g)
      PROVE  /\ c[e] \in Int /\ c[e] <= 0
             /\ (w(e) < 0 /\ In(<<e, "forward">>)) \/ (w(e) > 0 /\ In(<<e, "reverse">>)) => c[e] < 0
  <2>1. c[e] = w(e) * (h[e] - fl[e]) OBVIOUS
  <2>2. In(<<e, "forward">>) => w(e) <= 0 BY <1>6, <1>7
  <2>3. In(<<e, "reverse">>) => -w(e) <= 0 BY <1>6, <1>7
  <2>4. PICK i \in Int : i = w(e) BY <1>7
  <2>5. PICK x \in Int : x = h[e] - fl[e] BY <1>4
  <2> HIDE DEF c
  <2>6. c[e] = i * x BY <2>1, <2>4, <2>5
  <2>7. CASE In(<<e, "forward">>) /\ In(<<e, "reverse">>) BY <1>7, <2>2, <2>3, <2>4, <2>5, <2>6, <2>7
  <2>8. CASE In(<<e, "forward">>) /\ ~In(<<e, "reverse">>) BY <1>7, <2>2, <2>4, <2>5, <2>6, <2>8
  <2>9. CASE ~In(<<e, "forward">>) /\ In(<<e, "reverse">>) BY <1>7, <2>3, <2>4, <2>5, <2>6, <2>9
  <2>10. CASE ~In(<<e, "forward">>) /\ ~In(<<e, "reverse">>) BY <1>7, <2>5, <2>6, <2>10
  <2> QED BY <2>7, <2>8, <2>9, <2>10
<1>9. PICK e \in Edges(g) : c[e] < 0
  <2>1. cycle[m] \in Arcs(g) /\ In(cycle[m]) BY <1>1 DEF Listed, ArcsOf, In
  <2>2. PICK e : e = cycle[m][1] OBVIOUS
  <2>3. e \in Edges(g) /\ (cycle[m] = <<e, "forward">> \/ cycle[m] = <<e, "reverse">>) BY <2>1, <2>2, ArcParts
  <2>4. (w(e) < 0 /\ In(<<e, "forward">>)) \/ (w(e) > 0 /\ In(<<e, "reverse">>)) BY <1>7, <2>1, <2>3
  <2> QED BY <1>8, <2>3, <2>4
<1>10. DOMAIN c = Edges(g) /\ \A d \in Edges(g) : c[d] = (g.cost[d] + p[g.from[d]] - p[g.to[d]]) * (h[d] - fl[d])
  BY DEF w
<1> HIDE DEF c
<1>11. FlowCost(g, h) = FlowCost(g, fl) + Total(c, Edges(g)) BY <1>2, <1>3, <1>10, CostsDiffer
<1>12. Total(c, Edges(g)) \in Int /\ Total(c, Edges(g)) < 0 BY <1>4, <1>8, <1>9, TotalFalls
<1>13. FlowCost(g, fl) \in Int BY CostIsInt
<1> QED BY <1>2, <1>3, <1>5, <1>11, <1>12, <1>13

\* What goes round a cycle that a search found at the lower bounds undercuts them.
LEMMA CycleFalls ==
    ASSUME net \in Problems, ZeroPasses.last # 0
    PROVE  \E cycle, n, p, m :
               /\ PathIn(net, cycle, n) /\ ArcTo(net, cycle[n]) = ArcFrom(net, cycle[1])
               /\ \A i \in 1 .. n : Residual(net, flow, cycle[i]) > 0
               /\ p \in [net.nodes -> Int] /\ \A i \in 1 .. n : Plain(net, p, cycle[i]) <= 0
               /\ m \in 1 .. n /\ Plain(net, p, cycle[m]) < 0
<1> DEFINE s == ZeroPasses
           cycle == CycleOf(s)
<1>1. s \in Shapes /\ Hung(s) /\ RoundsFall(s) BY ZeroPassesFall
<1>2. s.dist \in [net.nodes -> Int] BY ZeroPassesTimed
<1>3. PICK start, l : Returns(s, start, l) /\ cycle = [i \in 1 .. l |-> s.by[BackBy(s, l - i, start)]]
  BY RoundFound
<1> HIDE DEF s, cycle
<1> DEFINE y(m) == BackBy(s, m, start)
           S == {y(m) : m \in 0 .. (l - 1)}
<1>4. /\ l \in Nat \ {0} /\ y(l) = start /\ y(0) = start
      /\ \A m \in Nat : y(m) \in DOMAIN s.by /\ y(m + 1) = From(s.by[y(m)])
  BY <1>3, BackSteps DEF Returns
<1>5. /\ PathIn(net, cycle, l) /\ ArcTo(net, cycle[l]) = ArcFrom(net, cycle[1])
      /\ \A i \in 1 .. l : Residual(net, flow, cycle[i]) > 0
  BY <1>1, <1>3, RoundIsCycle DEF Returns
<1>6. \A i \in 1 .. l : l - i \in 0 .. (l - 1) /\ cycle[i] = s.by[y(l - i)] BY <1>3, <1>4
<1> HIDE DEF y
<1>7. ASSUME NEW z \in DOMAIN s.by
      PROVE  /\ s.by[z] \in Arcs(net) /\ ArcCost(net, s.by[z]) \in Int
             /\ Plain(net, s.dist, s.by[z]) = ArcCost(net, s.by[z]) + s.dist[From(s.by[z])] - s.dist[z]
             /\ s.dist[From(s.by[z])] \in Int /\ s.dist[z] \in Int
             /\ s.dist[z] >= s.dist[From(s.by[z])] + ArcCost(net, s.by[z])
  <2>1. s.by[z] \in Arcs(net) BY <1>1, PartialMap DEF Shapes
  <2>2. ArcCost(net, s.by[z]) \in Int /\ From(s.by[z]) \in net.nodes /\ To(s.by[z]) \in net.nodes
    BY <2>1, ArcEnds DEF From, To
  <2>3. To(s.by[z]) = z /\ s.dist[z] >= s.dist[From(s.by[z])] + ArcCost(net, s.by[z]) BY <1>1 DEF Hung
  <2> QED BY <1>2, <2>1, <2>2, <2>3 DEF Plain, From, To
<1>8. ASSUME NEW i \in 1 .. l PROVE Plain(net, s.dist, cycle[i]) <= 0 BY <1>4, <1>6, <1>7
<1>9. PICK z \in S : s.dist[z] > s.dist[From(s.by[z])] + ArcCost(net, s.by[z])
  <2>1. S # {} /\ S \in SUBSET DOMAIN s.by BY <1>4
  <2>2. ASSUME NEW z \in S PROVE From(s.by[z]) \in S BY <1>4
  <2> HIDE DEF S
  <2> QED BY <1>1, <2>1, <2>2 DEF RoundsFall
<1>10. PICK m \in 0 .. (l - 1) : z = y(m) OBVIOUS
<1>11. l - m \in 1 .. l /\ l - (l - m) = m BY <1>4
<1>12. cycle[l - m] = s.by[z] /\ z \in DOMAIN s.by BY <1>4, <1>6, <1>10, <1>11
<1>13. Plain(net, s.dist, cycle[l - m]) < 0 BY <1>7, <1>9, <1>12
<1> QED BY <1>2, <1>5, <1>8, <1>11, <1>13

\* A flow within the bounds is one of those that a limit on all bounds leaves.
LEMMA WithinIsBounded ==
    ASSUME NEW g \in Problems, NEW fl \in [Edges(g) -> Int], WithinBounds(g, fl) PROVE fl \in FlowsWithin(g)
<1> DEFINE caps == {0} \cup {g.capacity[e] : e \in Edges(g)}
           top == Finite!Max(caps)
<1>1. IsFiniteSet(Edges(g)) /\ g.capacity \in [Edges(g) -> Nat] /\ g.lower \in [Edges(g) -> Nat]
  BY ProblemsAssumption DEF IsNetwork
<1>2. IsFiniteSet(caps) /\ caps \subseteq Int /\ caps # {} /\ \A e \in Edges(g) : g.capacity[e] \in caps
  <2>1. IsFiniteSet({g.capacity[e] : e \in Edges(g)}) BY <1>1, FiniteImage
  <2>2. IsFiniteSet({g.capacity[e] : e \in Edges(g)} \cup {0}) BY <2>1, FS_AddElement
  <2>3. caps = {g.capacity[e] : e \in Edges(g)} \cup {0} OBVIOUS
  <2> QED BY <1>1, <2>2, <2>3
<1> HIDE DEF caps
<1>3. top \in Int /\ \A e \in Edges(g) : g.capacity[e] <= top BY <1>2, MaxIsGreatest
<1> HIDE DEF top
<1>5. ASSUME NEW e \in Edges(g) PROVE fl[e] \in 0 .. top BY <1>1, <1>3 DEF WithinBounds
<1>6. fl \in [Edges(g) -> 0 .. top] BY <1>5
<1> QED BY <1>6 DEF FlowsWithin, top, caps

\* A negative cycle at the lower bounds is a way to undercut them.
LEMMA NegativeCycleUndercuts ==
    ASSUME net \in Problems, flow = net.lower, WithinBounds(net, flow), HasNegativeCycle PROVE Undercut(net)
<1>1. PICK cycle, n, p, m :
          /\ PathIn(net, cycle, n) /\ ArcTo(net, cycle[n]) = ArcFrom(net, cycle[1])
          /\ \A i \in 1 .. n : Residual(net, flow, cycle[i]) > 0
          /\ p \in [net.nodes -> Int] /\ \A i \in 1 .. n : Plain(net, p, cycle[i]) <= 0
          /\ m \in 1 .. n /\ Plain(net, p, cycle[m]) < 0
  BY CycleFalls DEF HasNegativeCycle
<1>2. \A i \in 1 .. n : Residual(net, flow, cycle[i]) >= 1
  <2> SUFFICES ASSUME NEW i \in 1 .. n PROVE Residual(net, flow, cycle[i]) >= 1 OBVIOUS
  <2>1. Residual(net, flow, cycle[i]) > 0 /\ cycle[i] \in Arcs(net) BY <1>1 DEF PathIn, Listed
  <2>2. Residual(net, flow, cycle[i]) \in Int
    <3>1. net.lower \in [Edges(net) -> Nat] /\ net.capacity \in [Edges(net) -> Nat] /\ cycle[i][1] \in Edges(net)
      BY <2>1, ProblemsAssumption, ArcParts DEF IsNetwork
    <3> QED BY <3>1 DEF Residual
  <2> QED BY <2>1, <2>2
<1>3. PICK h \in [Edges(net) -> Int] :
          /\ WithinBounds(net, h) /\ \A v \in net.nodes : Divergence(net, h, v) = Divergence(net, flow, v)
          /\ FlowCost(net, h) < FlowCost(net, flow)
  BY <1>1, <1>2, CycleIsCheaper
<1>4. h \in FlowsWithin(net) BY <1>3, WithinIsBounded
<1> QED BY <1>3, <1>4 DEF Undercut

(***************************************************************************)
(* The solvers that route along one cheapest path at a time, with scaling   *)
(* or without. Scales are powers of two.                                    *)
(***************************************************************************)

RedoublesWithin(D, n, seq, top) == \A x \in D : \A i \in 1 .. n : Redoubled(top, x) \in D
RedoublingRun(h, n, D, base, seq, top) ==
    /\ h \in [0 .. n -> D] /\ h[0] = base
    /\ \A i \in 1 .. n : h[i] = Redoubled(top, h[i - 1])

\* Doublings as a run.
LEMMA RedoubledRuns ==
    ASSUME NEW top, NEW D, NEW base, base \in D, NEW n \in Nat, NEW seq, DOMAIN seq = 1 .. n,
           RedoublesWithin(D, n, seq, top),
           seq = [i \in 1 .. n |-> i], n = top, base = 1
    PROVE  \E h : RedoublingRun(h, n, D, base, seq, top) /\ h[n] = PowerWithin(top)
<1> DEFINE step(x, i) == Redoubled(top, x)
           op == [z \in D \X (1 .. n) |-> step(z[1], z[2])]
           raw(g, y) == IF y = {} THEN base ELSE
                          With(g[y \ {Seqs!Max(y)}], LAMBDA u : With(seq[Seqs!Max(y)],
                                                       LAMBDA b : Redoubled(top, u)))
           E(g) == g = [y \in SUBSET (1 .. n) |-> raw(g, y)]
           c == CHOOSE g : E(g)
<1>1. PowerWithin(top) = c[1 .. n] BY DEF PowerWithin, Repeat, Folded, Seqs!FoldLeft, Seqs!MapThenFoldSet
<1>2. \A g, y : raw(g, y) = IF y = {} THEN base ELSE step(g[y \ {Finite!Max(y)}], Finite!Max(y))
  BY SeqsMax DEF With
<1>3. IsStep(op, D, 1 .. n) /\ \A x \in D : \A i \in 1 .. n : op[<<x, i>>] = step(x, i)
  BY DEF IsStep, RedoublesWithin
<1> HIDE DEF raw, step, op
<1>4. PICK g : g \in [SUBSET (1 .. n) -> D] /\ Follows(g, n, D, base, op) BY <1>3, FollowerExists
<1>5. E(g) BY <1>2, <1>3, <1>4, BeforeLast DEF Follows
<1>6. \A y \in SUBSET (1 .. n) : c[y] = raw(c, y) BY <1>5
<1> HIDE DEF c
<1>7. Follows(c, n, D, base, op) BY <1>2, <1>3, <1>6, BeforeLast DEF Follows
<1>8. PICK h : IsRun(h, n, D, base, op) /\ h[n] = c[1 .. n] BY <1>3, <1>7, FollowsIsRun
<1>9. \A i \in 1 .. n : i - 1 \in 0 .. n OBVIOUS
<1>10. \A i \in 1 .. n : h[i] = step(h[i - 1], i) BY <1>3, <1>8, <1>9 DEF IsRun
<1> QED BY <1>1, <1>8, <1>10 DEF IsRun, step, RedoublingRun

\* The scale that a scaling solver starts with is a power of two.
LEMMA InitialScaleIs ==
    ASSUME net \in Problems, excess \in [net.nodes -> Int] PROVE InitialScale \in Twos
<1> DEFINE more == {excess[v] : v \in net.nodes}
           less == {-excess[v] : v \in net.nodes}
           S == {1} \cup more \cup less
           top == Finite!Max(S)
<1>1. IsFiniteSet(S) /\ S # {} /\ S \subseteq Int /\ 1 \in S
  <2>1. IsFiniteSet(net.nodes) BY NodeCount
  <2>2. IsFiniteSet(more) BY <2>1, FiniteImage
  <2>3. IsFiniteSet(less)
    <3> DEFINE m == [v \in net.nodes |-> -excess[v]]
    <3>1. IsFiniteSet({m[v] : v \in net.nodes}) BY <2>1, FiniteImage
    <3>2. less = {m[v] : v \in net.nodes} OBVIOUS
    <3> QED BY <3>1, <3>2
  <2>4. more \subseteq Int /\ less \subseteq Int OBVIOUS
  <2> HIDE DEF more, less
  <2>5. IsFiniteSet({1} \cup more) BY <2>2, FS_Union, FS_Singleton
  <2>6. IsFiniteSet(S) BY <2>3, <2>5, FS_Union
  <2> QED BY <2>4, <2>6
<1>2. InitialScale = PowerWithin(top) BY DEF InitialScale
<1> HIDE DEF S
<1>3. top \in Nat
  <2>1. top \in Int /\ top >= 1 BY <1>1, MaxIsGreatest
  <2> QED BY <2>1
<1> HIDE DEF top
<1> DEFINE seq == [i \in 1 .. top |-> i]
<1>4. RedoublesWithin(Twos, top, seq, top) BY TwosDouble DEF RedoublesWithin, Redoubled
<1>5. DOMAIN seq = 1 .. top OBVIOUS
<1>6. PICK h : RedoublingRun(h, top, Twos, 1, seq, top) /\ h[top] = PowerWithin(top)
  BY <1>3, <1>4, <1>5, OneIsTwos, RedoubledRuns
<1>7. top \in 0 .. top BY <1>3
<1> QED BY <1>2, <1>6, <1>7 DEF RedoublingRun

\* The solvers that route one imbalance at a time.
Routing == {"bellman-ford-ssp", "potential-dijkstra-ssp", "capacity-scaling", "excess-scaling"}

\* They are the successive solvers without the blocking one, apart from all others.
LEMMA RoutingIs ==
    ASSUME alg \in Routing
    PROVE  /\ alg \in Successive \ {"blocking-primal-dual"} /\ alg \notin CostScalers /\ alg \notin Improving
           /\ alg \notin Scaling => alg \in {"bellman-ford-ssp", "potential-dijkstra-ssp"}
           /\ alg \in Scaling => alg # "bellman-ford-ssp"
BY DEF Routing, Successive, CostScalers, Improving, Scaling

\* The model's Priced without a cost scaler is about plain costs.
LEMMA PricedIs ==
    ASSUME net \in Problems, alg \notin CostScalers, NEW fl, NEW p \in [net.nodes -> Int], NEW width
    PROVE  Priced(fl, p, width) <=> PricedAt(net, fl, p, width)
<1>1. ASSUME NEW a \in Arcs(net) PROVE ReducedCost(p, a) = Plain(net, p, a) BY PlainCost DEF Plain, From, To
<1> QED BY <1>1 DEF Priced, PricedAt

\* What a solver's search from a node finds, at the prices it keeps or, without
\* prices, at any that would hold.
Searched(q, v, s, d) ==
    /\ s.dist \in [DOMAIN s.dist -> Int] /\ DOMAIN s.dist \in SUBSET net.nodes
    /\ CheapTree(net, flow, q, k.scale, {v}, DOMAIN s.dist, s.by, d)
    /\ alg # "bellman-ford-ssp" => d = s.dist

\* The search of these solvers, Dijkstra's or Bellman and Ford's, finds such a tree.
LEMMA ShortestIs ==
    ASSUME net \in Problems, alg \in Routing, Accounts(net, flow, excess), price \in [net.nodes -> Int],
           k.scale \in Nat \ {0}, alg \notin Scaling => k.scale = 1,
           NEW q \in [net.nodes -> Int], PricedAt(net, flow, q, k.scale), alg # "bellman-ford-ssp" => q = price,
           NEW v \in net.nodes
    PROVE  \E s, d : s = ShortestFrom(v) /\ Searched(q, v, s, d)
<1>0. alg \notin CostScalers /\ flow \in [Edges(net) -> Int] BY RoutingIs DEF Accounts
<1>1. CASE alg = "bellman-ford-ssp"
  <2>1. k.scale = 1 /\ Proves(net, flow, q) BY <1>1, RoutingIs, ResidualIsNat DEF PricedAt, Plain, Proves
  <2>2. PICK s : /\ s = Repeat(Pass, N - 1, Search([u \in {v} |-> 0]))
                 /\ s.dist \in [DOMAIN s.dist -> Int]
                 /\ CheapTree(net, flow, q, 1, {v}, DOMAIN s.dist, s.by,
                              [y \in DOMAIN s.dist |-> s.dist[y] - q[y] + q[v]])
    BY <1>0, <2>1, PassesFind
  <2>3. s = ShortestFrom(v) BY <1>1, <2>2 DEF ShortestFrom
  <2>4. DOMAIN s.dist \in SUBSET net.nodes BY <2>2 DEF CheapTree, Tree
  <2>5. PICK d : d = [y \in DOMAIN s.dist |-> s.dist[y] - q[y] + q[v]] OBVIOUS
  <2>6. Searched(q, v, s, d) BY <1>1, <2>1, <2>2, <2>4, <2>5 DEF Searched
  <2> QED BY <2>3, <2>6
<1>2. CASE alg # "bellman-ford-ssp"
  <2>1. Searchable BY <1>0, <1>2, PricedIs DEF Searchable
  <2>2. PICK roots : roots = {v} /\ roots \in SUBSET net.nodes OBVIOUS
  <2>3. PICK s : /\ s = Dijkstra(roots) /\ s.dist \in [DOMAIN s.dist -> Nat]
                 /\ CheapTree(net, flow, price, k.scale, roots, DOMAIN s.dist, s.by, s.dist)
    BY <2>1, <2>2, DijkstraIs
  <2>4. s = ShortestFrom(v) BY <1>2, <2>2, <2>3 DEF ShortestFrom
  <2>5. DOMAIN s.dist \in SUBSET net.nodes BY <2>3 DEF CheapTree, Tree
  <2>6. s.dist \in [DOMAIN s.dist -> Int] BY <2>3
  <2>7. Searched(q, v, s, s.dist) BY <1>2, <2>2, <2>3, <2>5, <2>6 DEF Searched
  <2> QED BY <2>4, <2>7
<1> QED BY <1>1, <1>2

\* What the solvers compare ends by is a number.
LEMMA FarnessIsInt ==
    ASSUME net \in Problems, price \in [net.nodes -> Int], NEW q, NEW v \in net.nodes, NEW s, NEW d,
           Searched(q, v, s, d), NEW w \in DOMAIN s.dist
    PROVE  Farness(s, v, w) \in Int
<1>1. s.dist[w] \in Int /\ w \in net.nodes /\ price[w] \in Int /\ price[v] \in Int BY DEF Searched
<1>2. Len(PathTo(s, {v}, w)) \in Nat
  <2>1. PICK V, roots : V = DOMAIN s.dist /\ roots = {v} OBVIOUS
  <2>2. Tree(net, V, s.by, roots) /\ w \in V BY <2>1 DEF Searched, CheapTree
  <2>3. PICK n, c : Tracks(net, V, s.by, roots, w, PathTo(s, roots, w), n, c) BY <2>2, PathIsTracked
  <2>4. PathTo(s, roots, w) \in Seq(Arcs(net)) /\ Len(PathTo(s, roots, w)) = n /\ n \in Nat BY <2>3 DEF Tracks
  <2> QED BY <2>1, <2>4
<1>3. Digit \in Int BY NodeCount DEF Digit
<1>4. \A x, y \in Int : x * y \in Int OBVIOUS
<1>5. s.dist[w] * Digit \in Int BY <1>1, <1>3, <1>4
<1>6. s.dist[w] * Digit + Len(PathTo(s, {v}, w)) \in Int BY <1>2, <1>5
<1>7. s.dist[w] + price[w] - price[v] \in Int BY <1>1
<1>8. CASE alg = "potential-dijkstra-ssp" BY <1>7, <1>8 DEF Farness, Scaling
<1>9. CASE alg \in Scaling BY <1>6, <1>9 DEF Farness, Scaling
<1>10. CASE alg # "potential-dijkstra-ssp" /\ alg \notin Scaling BY <1>1, <1>10 DEF Farness, Scaling
<1> QED BY <1>8, <1>9, <1>10

\* The nearest end is one of the ends.
LEMMA NearestIs ==
    ASSUME net \in Problems, price \in [net.nodes -> Int], NEW q, NEW v \in net.nodes, NEW s, NEW d,
           Searched(q, v, s, d), Ends(s) # {}
    PROVE  Nearest(s, v) \in Ends(s)
<1> DEFINE f == [w \in Ends(s) |-> Farness(s, v, w)]
<1>1. Ends(s) \subseteq DOMAIN s.dist /\ DOMAIN s.dist \subseteq net.nodes BY DEF Ends, Searched
<1>2. IsFiniteSet(Ends(s)) /\ Ends(s) \subseteq Int BY <1>1, NodeCount, FS_Subset
<1>3. f \in [Ends(s) -> Int] BY <1>1, FarnessIsInt
<1> HIDE DEF f
<1>4. PICK w \in Ends(s) : \A u \in Ends(s) : f[w] < f[u] \/ (f[w] = f[u] /\ w <= u) BY <1>2, <1>3, LeastBoth
<1>5. \A u \in Ends(s) : Farness(s, v, w) < Farness(s, v, u) \/ (Farness(s, v, w) = Farness(s, v, u) /\ w <= u)
  BY <1>4 DEF f
<1> QED BY <1>5 DEF Nearest

\* Excess scaling moves whole multiples of its scale, and every edge keeps room
\* for all that the nodes have left to send: an arc that is of use at all can
\* carry the scale for as long as a node has that much to send.
Supply(ex) == [v \in DOMAIN ex |-> IF ex[v] >= 1 THEN ex[v] ELSE 0]
Roomy(g, fl, ex, scale) == \A e \in Edges(g) :
    /\ \E m \in Int : fl[e] - g.lower[e] = scale * m
    /\ g.capacity[e] - fl[e] >= Total(Supply(ex), g.nodes)

\* What is left to send is nowhere negative, and in all no less than at any node.
LEMMA SupplyIs ==
    ASSUME NEW g \in Problems, NEW ex \in [g.nodes -> Int]
    PROVE  /\ \A v \in g.nodes : Supply(ex)[v] \in Int /\ Supply(ex)[v] >= 0
           /\ \A v \in g.nodes : Supply(ex)[v] = (IF ex[v] >= 1 THEN ex[v] ELSE 0)
           /\ Total(Supply(ex), g.nodes) \in Int
           /\ \A v \in g.nodes : Total(Supply(ex), g.nodes) >= ex[v]
<1>1. IsFiniteSet(g.nodes) BY ProblemsAssumption DEF IsNetwork
<1>2. \A v \in g.nodes : /\ Supply(ex)[v] = (IF ex[v] >= 1 THEN ex[v] ELSE 0)
                         /\ Supply(ex)[v] \in Int /\ Supply(ex)[v] >= 0 /\ Supply(ex)[v] >= ex[v]
  BY DEF Supply
<1>3. PICK f : f = Supply(ex) OBVIOUS
<1>4. Total(f, g.nodes) \in Int BY <1>1, <1>2, <1>3, TotalType
<1>5. ASSUME NEW v \in g.nodes PROVE Total(f, g.nodes) >= ex[v]
  <2>1. PICK S : S = g.nodes \ {v} OBVIOUS
  <2>2. IsFiniteSet(S) /\ \A x \in S : f[x] \in Int /\ f[x] >= 0 BY <1>1, <1>2, <1>3, <2>1, FS_Subset
  <2>3. Total(f, S) \in Int BY <2>2, TotalType
  <2>4. Total(f, S) >= 0
    <3>1. PICK z : z = [x \in S |-> 0] OBVIOUS
    <3>2. \A x \in S : z[x] \in Int /\ z[x] = 0 BY <3>1
    <3>3. \A x \in S : z[x] \in Int /\ f[x] \in Int /\ z[x] <= f[x] BY <2>2, <3>2
    <3>4. Total(z, S) = 0 BY <2>2, <3>2, TotalZero
    <3>5. Total(z, S) <= Total(f, S) BY <2>2, <3>3, TotalLeq
    <3> QED BY <2>3, <3>4, <3>5
  <2>5. Total(f, g.nodes) = f[v] + Total(f, g.nodes \ {v}) BY <1>1, <1>2, <1>3, TotalRemove
  <2> QED BY <1>2, <1>3, <2>1, <2>3, <2>4, <2>5
<1> QED BY <1>2, <1>3, <1>4, <1>5

\* A delivery from a node that has it to one that lacks it leaves that much less to send.
LEMMA SupplyMoved ==
    ASSUME NEW g \in Problems, NEW ex \in [g.nodes -> Int], NEW v \in g.nodes, NEW w \in g.nodes,
           NEW scale \in Nat \ {0}, ex[v] >= scale, ex[w] <= -scale
    PROVE  Total(Supply(Moved(ex, v, w, scale)), g.nodes) = Total(Supply(ex), g.nodes) - scale
<1>1. v # w OBVIOUS
<1>2. PICK next : next = Moved(ex, v, w, scale) OBVIOUS
<1>3. /\ next \in [g.nodes -> Int]
      /\ \A u \in g.nodes : next[u] = ex[u] - (IF u = v THEN scale ELSE 0) + (IF u = w THEN scale ELSE 0)
  BY <1>2, MovedIs
<1>4. PICK f, h : f = Supply(ex) /\ h = Supply(next) OBVIOUS
<1>5. IsFiniteSet(g.nodes) BY ProblemsAssumption DEF IsNetwork
<1>6. \A u \in g.nodes : f[u] \in Int /\ f[u] = (IF ex[u] >= 1 THEN ex[u] ELSE 0) BY <1>4, SupplyIs
<1>7. \A u \in g.nodes : h[u] \in Int /\ h[u] = (IF next[u] >= 1 THEN next[u] ELSE 0) BY <1>3, <1>4, SupplyIs
<1>8. ASSUME NEW u \in g.nodes \ {v} PROVE h[u] = f[u] BY <1>1, <1>3, <1>6, <1>7
<1>9. f[v] = ex[v] /\ h[v] = ex[v] - scale BY <1>1, <1>3, <1>6, <1>7
<1>10. Total(h, g.nodes) = Total(f, g.nodes) + h[v] - f[v]
  <2>1. PICK S : S = g.nodes OBVIOUS
  <2>2. \A u \in S : f[u] \in Int /\ h[u] \in Int BY <1>6, <1>7, <2>1
  <2>3. \A u \in S \ {v} : h[u] = f[u] BY <1>8, <2>1
  <2>4. IsFiniteSet(S) /\ v \in S BY <1>5, <2>1
  <2>5. Total(h, S) = Total(f, S) + h[v] - f[v] BY <2>2, <2>3, <2>4, TotalChange
  <2> QED BY <2>1, <2>5
<1>11. Total(f, g.nodes) \in Int /\ ex[v] \in Int BY <1>4, SupplyIs
<1> QED BY <1>2, <1>4, <1>9, <1>10, <1>11

\* With enough left at some node, an arc that is of any use can carry the scale.
LEMMA RoomyArcs ==
    ASSUME NEW g \in Problems, NEW fl, NEW ex, Accounts(g, fl, ex), NEW scale \in Nat \ {0},
           Roomy(g, fl, ex, scale), NEW v \in g.nodes, ex[v] >= scale,
           NEW a \in Arcs(g), Residual(g, fl, a) > 0
    PROVE  Residual(g, fl, a) >= scale
<1>1. /\ a[1] \in Edges(g) /\ a[2] \in {"forward", "reverse"} /\ ex \in [g.nodes -> Int]
      /\ fl[a[1]] \in Int /\ g.capacity[a[1]] \in Int /\ g.lower[a[1]] \in Int
  BY ArcEnds, ProblemTypes DEF Accounts
<1>2. CASE a[2] = "forward" BY <1>1, <1>2, SupplyIs DEF Roomy, Residual
<1>3. CASE a[2] = "reverse"
  <2>1. PICK m \in Int : fl[a[1]] - g.lower[a[1]] = scale * m BY <1>1 DEF Roomy
  <2>2. Residual(g, fl, a) = scale * m BY <1>3, <2>1 DEF Residual
  <2>3. \A x, y, c \in Int : (x < y => c >= 0) /\ (y < x => c <= 0) => c * x <= c * y BY Monotone
  <2>4. m > 0
    <3> SUFFICES ASSUME m <= 0 PROVE FALSE OBVIOUS
    <3>1. scale * m <= scale * 0 BY <2>3
    <3>2. scale * 0 = 0 /\ scale * m \in Int OBVIOUS
    <3> QED BY <2>2, <3>1, <3>2
  <2>5. scale * 1 <= scale * m /\ scale * 1 = scale BY <2>3, <2>4
  <2> QED BY <2>2, <2>5
<1> QED BY <1>1, <1>2, <1>3

\* A delivery along a path leaves room for what is left to send.
LEMMA RoomyAugment ==
    ASSUME NEW g \in Problems, NEW fl, NEW ex, Accounts(g, fl, ex), NEW scale \in Nat \ {0},
           Roomy(g, fl, ex, scale), NEW n, NEW path, PathIn(g, path, n),
           NEW v \in g.nodes, NEW w \in g.nodes, ex[v] >= scale, ex[w] <= -scale
    PROVE  Roomy(g, Augment(g, fl, path, scale), Moved(ex, v, w, scale), scale)
<1>1. ex \in [g.nodes -> Int] BY DEF Accounts
<1>2. PICK next, left : next = Augment(g, fl, path, scale) /\ left = Total(Supply(Moved(ex, v, w, scale)), g.nodes)
  OBVIOUS
<1>3. left = Total(Supply(ex), g.nodes) - scale /\ Total(Supply(ex), g.nodes) \in Int
  BY <1>1, <1>2, SupplyMoved, SupplyIs
<1>4. ASSUME NEW e \in Edges(g)
      PROVE  /\ \E m \in Int : next[e] - g.lower[e] = scale * m
             /\ g.capacity[e] - next[e] >= left
  <2>1. fl[e] \in Int /\ g.capacity[e] \in Int /\ g.lower[e] \in Int BY ProblemTypes DEF Accounts
  <2>2. Listed(g, path, n) /\ scale \in Int BY DEF PathIn
  <2>3. next[e] = fl[e] + Carries(path, <<e, "forward">>, scale) - Carries(path, <<e, "reverse">>, scale)
    BY <1>2, <2>1, <2>2, AugmentOnce
  <2>4. \E u \in {-1, 0, 1} : next[e] = fl[e] + scale * u BY <2>1, <2>3 DEF Carries
  <2>5. PICK u \in {-1, 0, 1} : next[e] = fl[e] + scale * u BY <2>4
  <2>6. PICK m \in Int : fl[e] - g.lower[e] = scale * m BY DEF Roomy
  <2>7. next[e] - g.lower[e] = scale * (m + u) /\ m + u \in Int
    <3>1. \A a, b, c \in Int : a * b \in Int /\ a * (b + c) = a * b + a * c BY Distributes
    <3>2. scale * (m + u) = scale * m + scale * u /\ scale * m \in Int /\ scale * u \in Int BY <3>1
    <3> QED BY <2>1, <2>5, <2>6, <3>2
  <2>8. g.capacity[e] - fl[e] >= Total(Supply(ex), g.nodes) BY DEF Roomy
  <2>9. next[e] <= fl[e] + scale /\ next[e] \in Int BY <2>1, <2>5
  <2> QED BY <1>3, <2>1, <2>7, <2>8, <2>9
<1> QED BY <1>2, <1>4 DEF Roomy

\* Half the scale is accommodated where the scale is.
LEMMA RoomyHalf ==
    ASSUME NEW g \in Problems, NEW fl, NEW ex, NEW scale \in Nat, NEW half \in Nat, scale = 2 * half,
           Roomy(g, fl, ex, scale)
    PROVE  Roomy(g, fl, ex, half)
<1> SUFFICES ASSUME NEW e \in Edges(g) PROVE \E m \in Int : fl[e] - g.lower[e] = half * m BY DEF Roomy
<1>1. PICK m \in Int : fl[e] - g.lower[e] = scale * m BY DEF Roomy
<1>2. scale * m = half * (2 * m) /\ 2 * m \in Int
  <2>1. half * (m + m) = half * m + half * m /\ half * m \in Int BY Distributes
  <2>2. m * (half + half) = m * half + m * half BY Distributes
  <2>3. m * half = half * m /\ scale = half + half /\ scale * m = m * scale /\ 2 * m = m + m OBVIOUS
  <2> QED BY <2>1, <2>2, <2>3
<1> QED BY <1>1, <1>2

\* What these solvers keep: prices at which every arc that counts is cheap
\* enough, for Bellman-Ford some that nobody computes; under excess scaling on
\* every arc that is of any use.
PricesFor(g, al, fl, p, width) ==
    \E q \in [g.nodes -> Int] : PricedAt(g, fl, q, width) /\ (al # "bellman-ford-ssp" => q = p)
Steady(g, fl, ex, p, scale) == PricedAt(g, fl, p, 1) /\ Roomy(g, fl, ex, scale)

RoutingPhases == {"start", "infeasible", "unbounded", "narrow", "scale", "route", "failed", "certify", "done"}
RoutingKeeps(g, al, fl, ex, p, ph, kk) ==
    /\ Accounts(g, fl, ex) /\ p \in [g.nodes -> Int] /\ ph \in RoutingPhases
    /\ kk = [Kernel(g) EXCEPT !.scale = kk.scale] /\ kk.scale \in Twos
    /\ al \notin Scaling => kk.scale = 1
    /\ ph = "start" => fl = g.lower
    /\ ph = "infeasible" => Feasible[g] = {}
    /\ ph \notin {"start", "infeasible"} => Feasible[g] # {}
    /\ ph = "unbounded" => Undercut(g)
    /\ ph \in {"route", "failed", "certify", "done"} => PricesFor(g, al, fl, p, kk.scale)
    /\ al = "excess-scaling" /\ ph \in {"scale", "route", "failed", "certify", "done"} =>
           Steady(g, fl, ex, p, kk.scale)
    /\ ph \in {"certify", "done"} => kk.scale = 1 /\ \A v \in g.nodes : ex[v] = 0

RoutingNow == RoutingKeeps(net, alg, flow, excess, price, phase, k)
RoutingNext == RoutingKeeps(net, alg, flow', excess', price', phase', k')

\* What the invariant says of the state's parts.
LEMMA RoutingTypes ==
    ASSUME RoutingNow
    PROVE  /\ Accounts(net, flow, excess) /\ price \in [net.nodes -> Int] /\ k.scale \in Nat \ {0}
           /\ flow \in [Edges(net) -> Int] /\ excess \in [net.nodes -> Int]
           /\ alg \notin Scaling => k.scale = 1
BY DEF RoutingNow, RoutingKeeps, Twos, Accounts

\* Where every arc of use is wide enough to count, none is left out by a search.
LEMMA TreeOfAll ==
    ASSUME NEW g \in Problems, NEW fl, NEW ex, Accounts(g, fl, ex), NEW scale \in Nat \ {0},
           \A a \in Arcs(g) : Residual(g, fl, a) > 0 => Residual(g, fl, a) >= scale,
           NEW p, NEW roots, NEW V, NEW by, NEW d, CheapTree(g, fl, p, scale, roots, V, by, d)
    PROVE  CheapTree(g, fl, p, 1, roots, V, by, d)
<1>1. \A a \in Arcs(g) : Residual(g, fl, a) \in Int BY ResidualIsNat
<1>2. \A a \in Arcs(g) : Residual(g, fl, a) >= 1 <=> Residual(g, fl, a) >= scale BY <1>1
<1>3. \A y \in V \ roots : by[y] \in Arcs(g) BY DEF CheapTree, Tree
<1> QED BY <1>2, <1>3 DEF CheapTree

\* The amount sent, and that every arc of the path has room for it.
LEMMA SentFits ==
    ASSUME net \in Problems, alg \in Routing, RoutingNow, NEW q, NEW v \in Surpluses(k.scale), NEW s, NEW d,
           Searched(q, v, s, d), NEW w \in Ends(s), NEW path,
           NEW n, NEW c, Tracks(net, DOMAIN s.dist, s.by, {v}, w, path, n, c), v # w
    PROVE  /\ Sent(path, v, w) \in Nat
           /\ \A i \in 1 .. n : Sent(path, v, w) <= Residual(net, flow, path[i])
<1>1. /\ Accounts(net, flow, excess) /\ k.scale \in Nat \ {0} /\ excess \in [net.nodes -> Int]
      /\ v \in net.nodes /\ w \in net.nodes /\ excess[v] >= k.scale /\ excess[w] <= -k.scale
  BY RoutingTypes DEF Surpluses, Ends, Deficits
<1>2. PICK V, roots : V = DOMAIN s.dist /\ roots = {v} OBVIOUS
<1>3. Tracks(net, V, s.by, roots, w, path, n, c) /\ w \notin roots BY <1>2
<1>4. PathIn(net, path, n) BY <1>3, TrackedPath
<1>5. n \in Nat /\ n > 0 /\ path \in [1 .. n -> Arcs(net)] BY <1>4 DEF PathIn, Listed
<1>6. CASE alg = "excess-scaling"
  <2>1. Sent(path, v, w) = k.scale BY <1>6 DEF Sent
  <2>2. ASSUME NEW i \in 1 .. n PROVE k.scale <= Residual(net, flow, path[i])
    <3>1. c \in [0 .. n -> V] /\ \A j \in 0 .. (n - 1) : c[j] \notin roots BY <1>3 DEF Tracks
    <3>2. path[i] = s.by[c[n - i]] BY <1>3 DEF Tracks
    <3>3. n - i \in 0 .. (n - 1) /\ n - i \in 0 .. n BY <1>5
    <3>4. c[n - i] \in V \ roots BY <3>1, <3>3
    <3>5. \A y \in V \ roots : Residual(net, flow, s.by[y]) >= k.scale BY <1>2 DEF Searched, CheapTree
    <3>6. Residual(net, flow, path[i]) >= k.scale BY <3>2, <3>4, <3>5
    <3>7. Residual(net, flow, path[i]) \in Int BY <1>1, <1>5, ResidualIsNat
    <3> QED BY <1>1, <3>6, <3>7
  <2> QED BY <1>1, <2>1, <2>2
<1>7. CASE alg # "excess-scaling"
  <2>1. PICK b : b = Bottleneck(net, flow, path) OBVIOUS
  <2>2. b \in Nat /\ \A i \in 1 .. n : b <= Residual(net, flow, path[i]) BY <1>1, <1>5, <2>1, BottleneckIs
  <2>3. PICK x, y : x = excess[v] /\ y = -excess[w] OBVIOUS
  <2>4. x \in Nat /\ y \in Nat BY <1>1, <2>3
  <2>5. Sent(path, v, w) = Finite!Min({b, x, y}) BY <1>7, <2>1, <2>3 DEF Sent
  <2>6. Sent(path, v, w) \in Nat /\ Sent(path, v, w) <= b BY <2>2, <2>4, <2>5, LeastOfThree
  <2>7. \A i \in 1 .. n : Residual(net, flow, path[i]) \in Int BY <1>1, <1>5, ResidualIsNat
  <2> QED BY <2>2, <2>6, <2>7
<1> QED BY <1>6, <1>7

\* An end of a search lacks at least the scale.
LEMMA EndIs ==
    ASSUME excess \in [net.nodes -> Int], k.scale \in Nat \ {0}, NEW v \in Surpluses(k.scale), NEW s, NEW w \in Ends(s)
    PROVE  w \in net.nodes /\ w \in DOMAIN s.dist /\ excess[w] <= -k.scale /\ w # v
<1>1. PICK scale \in Nat \ {0} : scale = k.scale OBVIOUS
<1>2. w \in net.nodes /\ w \in DOMAIN s.dist /\ excess[w] <= -scale /\ v \in net.nodes /\ excess[v] >= scale
  BY <1>1 DEF Ends, Deficits, Surpluses
<1>3. excess[v] \in Int /\ excess[w] \in Int BY <1>2
<1>4. excess[v] # excess[w] BY <1>2, <1>3
<1> QED BY <1>1, <1>2, <1>4

\* The search from a node with something to send finds cheapest paths.
LEMMA RouteFound ==
    ASSUME net \in Problems, alg \in Routing, RoutingNow, phase = "route", NEW v \in Surpluses(k.scale)
    PROVE  \E q \in [net.nodes -> Int] : \E s, d :
               /\ PricedAt(net, flow, q, k.scale) /\ (alg # "bellman-ford-ssp" => q = price)
               /\ s = ShortestFrom(v) /\ Searched(q, v, s, d)
<1>1. /\ Accounts(net, flow, excess) /\ price \in [net.nodes -> Int] /\ k.scale \in Nat \ {0}
      /\ alg \notin Scaling => k.scale = 1
  BY RoutingTypes
<1>2. v \in net.nodes BY DEF Surpluses
<1>3. PICK q \in [net.nodes -> Int] : PricedAt(net, flow, q, k.scale) /\ (alg # "bellman-ford-ssp" => q = price)
  BY DEF RoutingNow, RoutingKeeps, PricesFor
<1>4. \E s, d : s = ShortestFrom(v) /\ Searched(q, v, s, d) BY <1>1, <1>2, <1>3, ShortestIs
<1> QED BY <1>3, <1>4

\* Under excess scaling all arcs of any use are wide enough, so that prices
\* hold on all of them.
LEMMA SendsCheaply ==
    ASSUME net \in Problems, RoutingNow, phase = "route", NEW v \in Surpluses(k.scale),
           NEW q \in [net.nodes -> Int], PricedAt(net, flow, q, k.scale), alg # "bellman-ford-ssp" => q = price,
           NEW V, NEW by, NEW d, CheapTree(net, flow, q, k.scale, {v}, V, by, d), NEW w \in V, w # v,
           NEW path, NEW n, NEW c, Tracks(net, V, by, {v}, w, path, n, c),
           NEW amount \in Nat, \A i \in 1 .. n : amount <= Residual(net, flow, path[i]),
           NEW width, width = IF alg = "excess-scaling" THEN 1 ELSE k.scale
    PROVE  /\ width \in Nat /\ width <= k.scale
           /\ Accounts(net, Augment(net, flow, path, amount), Moved(excess, v, w, amount))
           /\ Risen(net, q, V, d, d[w]) \in [net.nodes -> Int]
           /\ PricedAt(net, Augment(net, flow, path, amount), Risen(net, q, V, d, d[w]), width)
<1>1. /\ Accounts(net, flow, excess) /\ price \in [net.nodes -> Int] /\ k.scale \in Nat \ {0}
      /\ excess \in [net.nodes -> Int]
  BY RoutingTypes
<1>2. v \in net.nodes /\ excess[v] >= k.scale BY DEF Surpluses
<1>3. /\ width \in Nat /\ width <= k.scale /\ PricedAt(net, flow, q, width)
      /\ CheapTree(net, flow, q, width, {v}, V, by, d)
  <2>1. CASE alg = "excess-scaling"
    <3>1. width = 1 /\ alg # "bellman-ford-ssp" /\ Steady(net, flow, excess, price, k.scale)
      BY <2>1 DEF RoutingNow, RoutingKeeps
    <3>2. PricedAt(net, flow, q, 1) /\ Roomy(net, flow, excess, k.scale) BY <3>1 DEF Steady
    <3>3. \A a \in Arcs(net) : Residual(net, flow, a) > 0 => Residual(net, flow, a) >= k.scale
      BY <1>1, <1>2, <3>2, RoomyArcs
    <3>4. PICK scale, roots : scale = k.scale /\ roots = {v} OBVIOUS
    <3>5. CheapTree(net, flow, q, scale, roots, V, by, d) /\ scale \in Nat \ {0} BY <1>1, <3>4
    <3>6. \A a \in Arcs(net) : Residual(net, flow, a) > 0 => Residual(net, flow, a) >= scale BY <3>3, <3>4
    <3>7. CheapTree(net, flow, q, 1, roots, V, by, d) BY <1>1, <3>5, <3>6, TreeOfAll
    <3> QED BY <1>1, <3>1, <3>2, <3>4, <3>7
  <2>2. CASE alg # "excess-scaling" BY <1>1, <2>2
  <2> QED BY <2>1, <2>2
<1>4. /\ Accounts(net, Augment(net, flow, path, amount), Moved(excess, v, w, amount))
      /\ Risen(net, q, V, d, d[w]) \in [net.nodes -> Int]
      /\ PricedAt(net, Augment(net, flow, path, amount), Risen(net, q, V, d, d[w]), width)
  BY <1>1, <1>3, CheapAugment
<1> QED BY <1>3, <1>4

\* Sending along a cheapest path, under prices that have risen up to its end.
SteadyTo(s, w, fl, ex) ==
    /\ Accounts(net, fl, ex)
    /\ \E r \in [net.nodes -> Int] :
           /\ PricedAt(net, fl, r, IF alg = "excess-scaling" THEN 1 ELSE k.scale)
           /\ alg # "bellman-ford-ssp" => r = Tightened(price, s.dist, s.dist[w])
    /\ alg = "excess-scaling" => Roomy(net, fl, ex, k.scale)

\* Sending along the path found keeps prices made of the distances good.
LEMMA SendsKeep ==
    ASSUME net \in Problems, alg \in Routing, RoutingNow, phase = "route", NEW v \in Surpluses(k.scale),
           NEW q \in [net.nodes -> Int], PricedAt(net, flow, q, k.scale), alg # "bellman-ford-ssp" => q = price,
           NEW s, NEW d, Searched(q, v, s, d), NEW w \in Ends(s),
           NEW path, NEW n, NEW c, Tracks(net, DOMAIN s.dist, s.by, {v}, w, path, n, c),
           NEW amount \in Nat, \A i \in 1 .. n : amount <= Residual(net, flow, path[i]),
           alg = "excess-scaling" => amount = k.scale
    PROVE  SteadyTo(s, w, Augment(net, flow, path, amount), Moved(excess, v, w, amount))
<1>1. /\ Accounts(net, flow, excess) /\ price \in [net.nodes -> Int] /\ k.scale \in Nat \ {0}
      /\ excess \in [net.nodes -> Int]
  BY RoutingTypes
<1>2. v \in net.nodes /\ excess[v] >= k.scale BY DEF Surpluses
<1>3. w \in net.nodes /\ w \in DOMAIN s.dist /\ excess[w] <= -k.scale /\ w # v BY <1>1, EndIs
<1>4. PICK V, by, width : V = DOMAIN s.dist /\ by = s.by /\ width = IF alg = "excess-scaling" THEN 1 ELSE k.scale
  OBVIOUS
<1>5. CheapTree(net, flow, q, k.scale, {v}, V, by, d) /\ (alg # "bellman-ford-ssp" => d = s.dist)
  BY <1>4 DEF Searched
<1>6. Tracks(net, V, by, {v}, w, path, n, c) /\ w \in V BY <1>3, <1>4
<1>7. /\ Accounts(net, Augment(net, flow, path, amount), Moved(excess, v, w, amount))
      /\ Risen(net, q, V, d, d[w]) \in [net.nodes -> Int]
      /\ PricedAt(net, Augment(net, flow, path, amount), Risen(net, q, V, d, d[w]), width)
  BY <1>3, <1>4, <1>5, <1>6, SendsCheaply
<1>8. ASSUME alg # "bellman-ford-ssp" PROVE Risen(net, q, V, d, d[w]) = Tightened(price, s.dist, s.dist[w])
  BY <1>4, <1>5, <1>8 DEF Tightened, Risen
<1>9. \E r \in [net.nodes -> Int] :
         /\ PricedAt(net, Augment(net, flow, path, amount), r, width)
         /\ alg # "bellman-ford-ssp" => r = Tightened(price, s.dist, s.dist[w])
  BY <1>7, <1>8
<1>10. ASSUME alg = "excess-scaling"
       PROVE  Roomy(net, Augment(net, flow, path, amount), Moved(excess, v, w, amount), k.scale)
  <2>1. PathIn(net, path, n) BY <1>3, <1>6, TrackedPath
  <2>2. Roomy(net, flow, excess, k.scale) BY <1>10 DEF RoutingNow, RoutingKeeps, Steady
  <2>3. PICK scale \in Nat \ {0} : scale = k.scale BY <1>1
  <2>4. Roomy(net, Augment(net, flow, path, scale), Moved(excess, v, w, scale), scale)
    BY <1>1, <1>2, <1>3, <2>1, <2>2, <2>3, RoomyAugment
  <2> QED BY <1>10, <2>3, <2>4
<1> QED BY <1>4, <1>7, <1>9, <1>10 DEF SteadyTo

\* So what the solver sends on its way leaves prices that hold.
LEMMA RouteSends ==
    ASSUME net \in Problems, alg \in Routing, RoutingNow, phase = "route",
           NEW v \in Surpluses(k.scale), NEW s, s = ShortestFrom(v), Ends(s) # {},
           NEW p, p = IF alg = "bellman-ford-ssp" THEN price ELSE Tightened(price, s.dist, s.dist[Nearest(s, v)])
    PROVE  \E w, path, amount :
              /\ w = Nearest(s, v) /\ path = PathTo(s, {v}, w) /\ amount = Sent(path, v, w)
              /\ Accounts(net, Augment(net, flow, path, amount), Moved(excess, v, w, amount))
              /\ p \in [net.nodes -> Int] /\ PricesFor(net, alg, Augment(net, flow, path, amount), p, k.scale)
              /\ alg = "excess-scaling" =>
                     Steady(net, Augment(net, flow, path, amount), Moved(excess, v, w, amount), p, k.scale)
<1>1. /\ Accounts(net, flow, excess) /\ price \in [net.nodes -> Int] /\ k.scale \in Nat \ {0}
      /\ excess \in [net.nodes -> Int]
  BY RoutingTypes
<1>2. v \in net.nodes BY DEF Surpluses
<1>3. PICK q \in [net.nodes -> Int] : \E t, d :
           /\ PricedAt(net, flow, q, k.scale) /\ (alg # "bellman-ford-ssp" => q = price)
           /\ t = ShortestFrom(v) /\ Searched(q, v, t, d)
  BY RouteFound
<1>4. PICK d : /\ PricedAt(net, flow, q, k.scale) /\ (alg # "bellman-ford-ssp" => q = price)
               /\ Searched(q, v, s, d)
  BY <1>3
<1>5. PICK w \in Ends(s) : w = Nearest(s, v) BY <1>1, <1>2, <1>4, NearestIs
<1>6. w \in net.nodes /\ w \in DOMAIN s.dist /\ w # v BY <1>1, EndIs
<1>7. PICK path, n, c : path = PathTo(s, {v}, w) /\ Tracks(net, DOMAIN s.dist, s.by, {v}, w, path, n, c)
  <2>1. PICK V, roots : V = DOMAIN s.dist /\ roots = {v} OBVIOUS
  <2>2. Tree(net, V, s.by, roots) /\ w \in V BY <1>4, <1>6, <2>1 DEF Searched, CheapTree
  <2>3. \E n, c : Tracks(net, V, s.by, roots, w, PathTo(s, roots, w), n, c) BY <2>2, PathIsTracked
  <2> QED BY <2>1, <2>3
<1>8. Sent(path, v, w) \in Nat /\ \A i \in 1 .. n : Sent(path, v, w) <= Residual(net, flow, path[i])
  BY <1>4, <1>6, <1>7, SentFits
<1>9. PICK amount \in Nat : amount = Sent(path, v, w) /\ \A i \in 1 .. n : amount <= Residual(net, flow, path[i])
  BY <1>8
<1>10. alg = "excess-scaling" => amount = k.scale BY <1>9 DEF Sent
<1>11. PICK fl, ex : fl = Augment(net, flow, path, amount) /\ ex = Moved(excess, v, w, amount) OBVIOUS
<1>12. SteadyTo(s, w, fl, ex)
  <2>1. Tracks(net, DOMAIN s.dist, s.by, {v}, w, path, n, c) BY <1>7
  <2>2. \A i \in 1 .. n : amount <= Residual(net, flow, path[i]) BY <1>9
  <2>3. SteadyTo(s, w, Augment(net, flow, path, amount), Moved(excess, v, w, amount))
    BY <1>4, <1>10, <2>1, <2>2, SendsKeep
  <2> QED BY <1>11, <2>3
<1>13. PICK r \in [net.nodes -> Int] :
              /\ PricedAt(net, fl, r, IF alg = "excess-scaling" THEN 1 ELSE k.scale)
              /\ alg # "bellman-ford-ssp" => r = p
  BY <1>5, <1>12 DEF SteadyTo
<1>14. p \in [net.nodes -> Int] BY <1>1, <1>13
<1>15. PricesFor(net, alg, fl, p, k.scale)
  BY <1>1, <1>12, <1>13, ResidualIsNat DEF SteadyTo, PricedAt, PricesFor
<1>16. ASSUME alg = "excess-scaling" PROVE Steady(net, fl, ex, p, k.scale)
  BY <1>12, <1>13, <1>16 DEF Steady, SteadyTo
<1> QED BY <1>5, <1>7, <1>9, <1>11, <1>12, <1>14, <1>15, <1>16 DEF SteadyTo

\* The step for the node that sends and what its search found.
SendsAlong(s, v, w, path, amount) ==
    /\ flow' = Augment(net, flow, path, amount)
    /\ excess' = Moved(excess, v, w, amount)
    /\ price' = IF alg = "bellman-ford-ssp" THEN price ELSE Tightened(price, s.dist, s.dist[w])
    /\ phase' = IF /\ AugmentAccepts(net, flow, path, amount) /\ amount >= k.scale
                   /\ alg # "bellman-ford-ssp" => Priced(flow', price', k.scale)
                THEN phase ELSE "failed"
    /\ UNCHANGED k
RoutesBy(s, v) ==
    IF Ends(s) = {} THEN Stop("failed")
    ELSE \E w \in {Nearest(s, v)} : \E path \in {PathTo(s, {v}, w)} :
            \E amount \in {Sent(path, v, w)} : SendsAlong(s, v, w, path, amount)

\* What routing one imbalance does, by the search it makes.
LEMMA RouteImbalanceIs ==
    ASSUME RouteImbalance
    PROVE  phase = "route" /\ \E v \in Surpluses(k.scale) : RoutesBy(ShortestFrom(v), v)
<1>1. phase = "route" BY DEF RouteImbalance
<1>2. \E found \in {[v \in Surpluses(k.scale) |-> ShortestFrom(v)]} :
         \E v \in Surpluses(k.scale) :
            IF Ends(found[v]) = {} THEN Stop("failed")
            ELSE \E w \in {Nearest(found[v], v)} : \E path \in {PathTo(found[v], {v}, w)} :
                    \E amount \in {Sent(path, v, w)} : SendsAlong(found[v], v, w, path, amount)
  BY Zenon DEF RouteImbalance, SendsAlong
<1> DEFINE table == [v \in Surpluses(k.scale) |-> ShortestFrom(v)]
<1>3. \A v \in Surpluses(k.scale) : table[v] = ShortestFrom(v) OBVIOUS
<1>4. \E found \in {table} : \E v \in Surpluses(k.scale) : RoutesBy(found[v], v) BY <1>2, Zenon DEF RoutesBy
<1> HIDE DEF table
<1> QED BY <1>1, <1>3, <1>4

\* Routing one imbalance keeps the invariant.
LEMMA RouteImbalanceKeeps ==
    ASSUME net \in Problems, alg \in Routing, RoutingNow, RouteImbalance PROVE RoutingNext
<1>0. phase = "route" BY RouteImbalanceIs
<1>1. PICK v \in Surpluses(k.scale) : RoutesBy(ShortestFrom(v), v) BY RouteImbalanceIs
<1>2. PICK s : s = ShortestFrom(v) /\ RoutesBy(s, v) BY <1>1
<1>3. CASE Ends(s) = {}
  BY <1>0, <1>2, <1>3 DEF RoutesBy, Stop, RoutingNow, RoutingNext, RoutingKeeps, RoutingPhases
<1>4. CASE Ends(s) # {}
  <2>1. PICK w, path, amount :
           /\ w = Nearest(s, v) /\ path = PathTo(s, {v}, w) /\ amount = Sent(path, v, w)
           /\ flow' = Augment(net, flow, path, amount)
           /\ excess' = Moved(excess, v, w, amount)
           /\ price' = IF alg = "bellman-ford-ssp" THEN price ELSE Tightened(price, s.dist, s.dist[w])
           /\ phase' \in {phase, "failed"}
           /\ UNCHANGED k
    BY <1>2, <1>4 DEF RoutesBy, SendsAlong
  <2>2. PICK p : p = price' /\ p = IF alg = "bellman-ford-ssp" THEN price ELSE Tightened(price, s.dist, s.dist[Nearest(s, v)])
    BY <2>1
  <2>3. /\ Accounts(net, flow', excess') /\ p \in [net.nodes -> Int]
        /\ PricesFor(net, alg, flow', p, k.scale)
        /\ alg = "excess-scaling" => Steady(net, flow', excess', p, k.scale)
    BY <1>0, <1>2, <1>4, <2>1, <2>2, RouteSends
  <2> QED BY <1>0, <2>1, <2>2, <2>3 DEF RoutingNow, RoutingNext, RoutingKeeps, RoutingPhases
<1> QED BY <1>3, <1>4

\* Only the scale of the kernel is ever changed by these solvers.
LEMMA KernelScaled ==
    ASSUME NEW g, NEW kk, kk = [Kernel(g) EXCEPT !.scale = kk.scale], NEW x
    PROVE  /\ [kk EXCEPT !.scale = x] = [Kernel(g) EXCEPT !.scale = x] /\ [kk EXCEPT !.scale = x].scale = x
           /\ kk.cursor = [v \in g.nodes |-> 0]
<1>1. PICK s : s = kk.scale OBVIOUS
<1>2. kk = [Kernel(g) EXCEPT !.scale = s] BY <1>1
<1> QED BY <1>2 DEF Kernel

\* Nothing has been routed at first.
LEMMA RoutingStarts == ASSUME Init PROVE RoutingNow
<1>1. ImproverNow BY ImproverStarts
<1>2. /\ Accounts(net, flow, excess) /\ price \in [net.nodes -> Int]
      /\ phase = "start" /\ flow = net.lower /\ k = Kernel(net)
  BY <1>1 DEF ImproverNow, ImproverKeeps, Init
<1>3. k = [Kernel(net) EXCEPT !.scale = k.scale] /\ k.scale = 1 BY <1>2 DEF Kernel
<1> QED BY <1>2, <1>3, OneIsTwos DEF RoutingNow, RoutingKeeps, RoutingPhases

\* At the lower bounds all the room there must be is there.
LEMMA RoomyAtStart ==
    ASSUME net \in Problems, flow = net.lower, excess \in [net.nodes -> Int], ~TooNarrow, NEW scale \in Nat
    PROVE  Roomy(net, flow, excess, scale)
<1>1. /\ IsFiniteSet(net.nodes) /\ net.lower \in [Edges(net) -> Nat] /\ net.capacity \in [Edges(net) -> Nat]
  BY ProblemsAssumption DEF IsNetwork
<1>2. PICK S, U, f : S = Surpluses(1) /\ U = net.nodes \ S /\ f = Supply(excess) OBVIOUS
<1>3. /\ S \subseteq net.nodes
      /\ \A v \in S : excess[v] >= 1
      /\ \A v \in U : v \in net.nodes /\ ~(excess[v] >= 1)
  BY <1>2 DEF Surpluses
<1>4. /\ \A v \in net.nodes : f[v] \in Int /\ f[v] = (IF excess[v] >= 1 THEN excess[v] ELSE 0)
      /\ Total(f, net.nodes) \in Int
  BY <1>2, SupplyIs
<1>5. IsFiniteSet(S) /\ IsFiniteSet(U) /\ S \cap U = {} /\ S \cup U = net.nodes BY <1>1, <1>2, <1>3, FS_Subset
<1>6. Total(f, net.nodes) = Total(f, S) + Total(f, U) BY <1>4, <1>5, TotalUnion
<1>7. Total(f, U) = 0 BY <1>3, <1>4, <1>5, TotalZero
<1>8. Total(f, S) = Total(excess, S) /\ Total(f, S) \in Int BY <1>3, <1>4, <1>5, TotalSame, TotalType
<1>9. TotalSurplus = Total(f, net.nodes) BY <1>2, <1>6, <1>7, <1>8, SumIsTotal DEF TotalSurplus
<1> SUFFICES ASSUME NEW e \in Edges(net)
             PROVE  /\ \E m \in Int : flow[e] - net.lower[e] = scale * m
                    /\ net.capacity[e] - flow[e] >= Total(Supply(excess), net.nodes)
  BY DEF Roomy
<1>10. ~(net.capacity[e] - net.lower[e] < TotalSurplus) BY DEF TooNarrow
<1>11. flow[e] - net.lower[e] = 0 /\ scale * 0 = 0 /\ net.capacity[e] - flow[e] \in Int BY <1>1
<1> QED BY <1>2, <1>4, <1>9, <1>10, <1>11

\* Prices that prove a flow cheapest are prices at the scale of one.
LEMMA ProvesPriced ==
    ASSUME NEW g \in Problems, NEW fl, NEW ex, Accounts(g, fl, ex), NEW p
    PROVE  Proves(g, fl, p) <=> p \in [g.nodes -> Int] /\ PricedAt(g, fl, p, 1)
<1>1. \A a \in Arcs(g) : Residual(g, fl, a) > 0 <=> Residual(g, fl, a) >= 1 BY ResidualIsNat
<1> QED BY <1>1 DEF Proves, PricedAt, Plain

\* With scaling or without, these solvers begin at the lower bounds with prices that hold there.
LEMMA BeginSuccessiveKeeps ==
    ASSUME net \in Problems, RoutingNow, BeginSuccessive PROVE RoutingNext
<1>1. /\ Accounts(net, flow, excess) /\ price \in [net.nodes -> Int] /\ k.scale \in Nat \ {0}
      /\ excess \in [net.nodes -> Int] /\ WithinBounds(net, flow)
  BY RoutingTypes DEF Accounts
<1>2. /\ phase = "start" /\ flow = net.lower /\ phase' = Admission /\ UNCHANGED <<flow, excess>>
      /\ price' = IF phase' \in {"scale", "route"} /\ alg # "bellman-ford-ssp" THEN ZeroPasses.dist ELSE price
      /\ k' = IF alg \in Scaling THEN [k EXCEPT !.scale = InitialScale] ELSE k
  BY DEF BeginSuccessive, RoutingNow, RoutingKeeps
<1>3. /\ k' = [Kernel(net) EXCEPT !.scale = k'.scale] /\ k'.scale \in Twos /\ k'.scale \in Nat
      /\ alg \notin Scaling => k'.scale = 1
  <2>1. k = [Kernel(net) EXCEPT !.scale = k.scale] /\ k.scale \in Twos /\ (alg \notin Scaling => k.scale = 1)
    BY DEF RoutingNow, RoutingKeeps
  <2>2. PICK x : x = InitialScale OBVIOUS
  <2>3. x \in Twos BY <1>1, <2>2, InitialScaleIs
  <2>4. [k EXCEPT !.scale = x] = [Kernel(net) EXCEPT !.scale = x] /\ [k EXCEPT !.scale = x].scale = x
    BY <2>1, KernelScaled
  <2>5. \A y \in Twos : y \in Nat BY DEF Twos
  <2> QED BY <1>2, <2>1, <2>2, <2>3, <2>4, <2>5
<1>4. CASE Feasible[net] = {}
  BY <1>1, <1>2, <1>3, <1>4 DEF Admission, RoutingNext, RoutingKeeps, RoutingPhases
<1>5. CASE Feasible[net] # {} /\ HasNegativeCycle
  BY <1>1, <1>2, <1>3, <1>5, NegativeCycleUndercuts DEF Admission, RoutingNext, RoutingKeeps, RoutingPhases
<1>6. CASE Feasible[net] # {} /\ ~HasNegativeCycle
  <2>1. PICK p : p = ZeroPasses.dist OBVIOUS
  <2>2. Proves(net, flow, p) BY <1>6, <2>1, ZeroPassesProve DEF HasNegativeCycle
  <2>3. p \in [net.nodes -> Int] /\ PricedAt(net, flow, p, 1) BY <1>1, <2>2, ProvesPriced
  <2>4. DualFeasible(p) BY <2>2 DEF DualFeasible, Proves, R, From, To
  <2>5. phase' = IF alg = "excess-scaling" /\ TooNarrow THEN "narrow"
                 ELSE IF alg \in Scaling THEN "scale" ELSE "route"
    BY <1>2, <1>6, <2>1, <2>4 DEF Admission
  <2>6. CASE alg = "excess-scaling" /\ TooNarrow
    BY <1>1, <1>2, <1>3, <1>6, <2>5, <2>6 DEF RoutingNext, RoutingKeeps, RoutingPhases
  <2>7. CASE alg \in Scaling /\ ~(alg = "excess-scaling" /\ TooNarrow)
    BY <1>1, <1>2, <1>3, <1>6, <2>1, <2>3, <2>5, <2>7, RoomyAtStart DEF Scaling, Steady, RoutingNext,
       RoutingKeeps, RoutingPhases
  <2>8. CASE alg \notin Scaling
    <3>1. phase' = "route" /\ price' = (IF alg # "bellman-ford-ssp" THEN p ELSE price) /\ alg # "excess-scaling"
      BY <1>2, <2>1, <2>5, <2>8 DEF Scaling
    <3>2. k'.scale = 1 BY <1>3, <2>8
    <3>3. PricesFor(net, alg, flow, price', k'.scale) BY <2>3, <3>1, <3>2 DEF PricesFor
    <3>4. price' \in [net.nodes -> Int] BY <1>1, <2>3, <3>1
    <3> QED BY <1>1, <1>2, <1>3, <1>6, <3>1, <3>3, <3>4 DEF RoutingNext, RoutingKeeps, RoutingPhases
  <2> QED BY <2>6, <2>7, <2>8
<1> QED BY <1>4, <1>5, <1>6

\* The end of a scale, or of all of them, keeps the invariant.
LEMMA NothingToRouteKeeps ==
    ASSUME net \in Problems, alg \in Routing, RoutingNow, NothingToRoute PROVE RoutingNext
<1>1. /\ Accounts(net, flow, excess) /\ price \in [net.nodes -> Int] /\ k.scale \in Nat \ {0}
      /\ excess \in [net.nodes -> Int] /\ k.scale \in Twos
      /\ k = [Kernel(net) EXCEPT !.scale = k.scale]
  BY RoutingTypes DEF RoutingNow, RoutingKeeps
<1>2. phase = "route" BY DEF NothingToRoute
<1>3. CASE k.scale > 1
  <2>1. k' = [k EXCEPT !.scale = @ \div 2] /\ phase' = "scale" /\ UNCHANGED <<flow, excess, price>>
    BY <1>3 DEF NothingToRoute
  <2>2. PICK half : half = k.scale \div 2 OBVIOUS
  <2>3. half \in Twos /\ k.scale = 2 * half /\ half \in Nat BY <1>1, <1>3, <2>2, TwosHalve DEF Twos
  <2>4. k' = [Kernel(net) EXCEPT !.scale = half] /\ k'.scale = half BY <1>1, <2>1, <2>2, KernelScaled
  <2>5. alg \in Scaling BY <1>1, <1>3 DEF RoutingNow, RoutingKeeps
  <2>6. Feasible[net] # {} BY <1>2 DEF RoutingNow, RoutingKeeps
  <2>7. ASSUME alg = "excess-scaling" PROVE Steady(net, flow, excess, price, half)
    BY <1>1, <1>2, <2>3, <2>7, RoomyHalf DEF RoutingNow, RoutingKeeps, Steady
  <2> QED BY <1>1, <2>1, <2>3, <2>4, <2>5, <2>6, <2>7 DEF RoutingNext, RoutingKeeps, RoutingPhases
<1>4. CASE ~(k.scale > 1)
  <2>1. k.scale = 1 BY <1>1, <1>4
  <2>2. Stop(IF \A v \in net.nodes : excess[v] = 0 THEN "certify" ELSE "failed") BY <1>4 DEF NothingToRoute
  <2>3. UNCHANGED <<flow, excess, price, k>> BY <2>2 DEF Stop
  <2>4. (phase' = "certify" /\ \A v \in net.nodes : excess[v] = 0) \/ phase' = "failed" BY <2>2 DEF Stop
  <2> QED BY <1>2, <2>1, <2>3, <2>4 DEF RoutingNow, RoutingNext, RoutingKeeps, RoutingPhases
<1> QED BY <1>3, <1>4

\* Saturation that leaves every arc as it was changes nothing else.
LEMMA SameAccounts ==
    ASSUME NEW g \in Problems, NEW fl, NEW ex, Accounts(g, fl, ex), NEW h, NEW left, Accounts(g, h, left),
           \A a \in Arcs(g) : Residual(g, h, a) = Residual(g, fl, a)
    PROVE  h = fl /\ left = ex
<1>1. /\ fl \in [Edges(g) -> Int] /\ h \in [Edges(g) -> Int] /\ ex \in [g.nodes -> Int] /\ left \in [g.nodes -> Int]
  BY DEF Accounts
<1>2. ASSUME NEW e \in Edges(g) PROVE h[e] = fl[e]
  <2>1. PICK a \in Arcs(g) : a = <<e, "forward">> BY DEF Arcs
  <2>2. Residual(g, h, a) = Residual(g, fl, a) OBVIOUS
  <2>3. g.capacity[e] - h[e] = g.capacity[e] - fl[e] BY <2>1, <2>2 DEF Residual
  <2>4. g.capacity[e] \in Int /\ h[e] \in Int /\ fl[e] \in Int BY <1>1, ProblemTypes DEF Accounts
  <2> QED BY <2>3, <2>4
<1>3. h = fl BY <1>1, <1>2
<1>4. ASSUME NEW v \in g.nodes PROVE left[v] = ex[v]
  <2>1. Divergence(g, fl, v) + ex[v] = g.required[v] /\ Divergence(g, fl, v) + left[v] = g.required[v]
    BY <1>3 DEF Accounts
  <2>2. Divergence(g, fl, v) \in Int /\ ex[v] \in Int /\ left[v] \in Int BY <1>1, DivergenceIsInt DEF Accounts
  <2> QED BY <2>1, <2>2
<1> QED BY <1>1, <1>3, <1>4

\* A scale starts with the arcs saturated that had become wide enough; under excess scaling none is.
LEMMA BeginScaleKeeps ==
    ASSUME net \in Problems, alg \in Routing, RoutingNow, BeginScale PROVE RoutingNext
<1>1. /\ Accounts(net, flow, excess) /\ price \in [net.nodes -> Int] /\ k.scale \in Nat \ {0} BY RoutingTypes
<1>2. alg \in Scaling /\ phase = "scale" /\ alg \notin CostScalers /\ alg # "bellman-ford-ssp"
  BY RoutingIs DEF BeginScale
<1>3. PICK skipped : skipped = IF alg = "excess-scaling" THEN Edges(net) ELSE {} OBVIOUS
<1>4. PICK x : x = Saturated(k.scale, skipped) OBVIOUS
<1>5. /\ flow' = x.flow /\ excess' = x.excess /\ UNCHANGED <<price, k>>
      /\ phase' \in {"route", "failed"}
  BY <1>3, <1>4 DEF BeginScale
<1>6. /\ x \in States(net)
      /\ \A a \in Arcs(net) : /\ Shut(k.scale, x.flow, skipped, a)
                              /\ a[1] \in skipped => Residual(net, x.flow, a) = Residual(net, flow, a)
  BY <1>1, <1>4, SaturatedFills
<1>7. Accounts(net, x.flow, x.excess) BY <1>6 DEF States
<1>8. CASE alg # "excess-scaling"
  BY <1>1, <1>2, <1>3, <1>5, <1>6, <1>7, <1>8, PricedIs DEF Shut, Priced, PricesFor, RoutingNow, RoutingNext,
     RoutingKeeps, RoutingPhases
<1>9. CASE alg = "excess-scaling"
  <2>1. \A a \in Arcs(net) : Residual(net, x.flow, a) = Residual(net, flow, a)
    <3> TAKE a \in Arcs(net)
    <3>1. a[1] \in skipped BY <1>3, <1>9, ArcEnds
    <3> QED BY <1>6, <3>1
  <2>2. PICK h, left : h = x.flow /\ left = x.excess OBVIOUS
  <2>3. h = flow /\ left = excess BY <1>1, <1>7, <2>1, <2>2, SameAccounts
  <2>4. Steady(net, flow, excess, price, k.scale) BY <1>2, <1>9 DEF RoutingNow, RoutingKeeps
  <2>5. PricesFor(net, alg, flow, price, k.scale)
    <3>1. PricedAt(net, flow, price, 1) BY <2>4 DEF Steady
    <3>2. \A a \in Arcs(net) : Residual(net, flow, a) \in Int BY <1>1, ResidualIsNat
    <3>3. PricedAt(net, flow, price, k.scale) BY <1>1, <3>1, <3>2 DEF PricedAt
    <3> QED BY <1>1, <3>3 DEF PricesFor
  <2> QED BY <1>2, <1>5, <2>2, <2>3, <2>4, <2>5 DEF RoutingNow, RoutingNext, RoutingKeeps, RoutingPhases
<1> QED BY <1>8, <1>9

\* Every step of these solvers keeps the invariant.
LEMMA RoutingSteps ==
    ASSUME net \in Problems, alg \in Routing, RoutingNow, Next PROVE RoutingNext
<1>1. CASE Certify BY <1>1 DEF Certify, Stop, RoutingNow, RoutingNext, RoutingKeeps, RoutingPhases
<1>2. CASE ShortestPathStep
  BY <1>2, RoutingIs, BeginSuccessiveKeeps, RouteImbalanceKeeps, NothingToRouteKeeps, BeginScaleKeeps DEF
     LevelOrTighten, AdvanceBlock, RetreatBlock, AugmentBlock, ShortestPathStep
<1>3. CASE CycleCancelingStep
  BY <1>3, RoutingIs DEF RoutingNow, RoutingKeeps, RoutingPhases, CycleCancelingStep, BeginImproving,
     CancelNegativeCycle, CancelMinimumMean, SelectEdge, CorrectEdge, Routing
<1>4. CASE CostScalingStep
  BY <1>4, RoutingIs DEF RoutingNow, RoutingKeeps, RoutingPhases, CostScalingStep, BeginCostScaling,
     StartRefine, Push, Relabel, TakeRoot, ExtendPath, RelabelPathEnd, PushPath, FinishRefine, Discharging,
     Searching
<1> QED BY <1>1, <1>2, <1>3, <1>4 DEF Next

\* While a solver routes and afterwards there are prices that hold.
LEMMA RoutingPriced ==
    ASSUME net \in Problems, alg \in Successive, NEW ph \in {"route", "failed", "certify", "done"}, NEW kk,
           RoutingKeeps(net, alg, flow, excess, price, ph, kk)
    PROVE  /\ alg # "bellman-ford-ssp" => Priced(flow, price, kk.scale)
           /\ alg \notin Scaling \/ ph \in {"certify", "done"} => \E q : Proves(net, flow, q)
<1>1. /\ Accounts(net, flow, excess) /\ price \in [net.nodes -> Int] /\ alg \notin CostScalers
  BY DEF RoutingKeeps, Successive, CostScalers
<1>2. PICK q \in [net.nodes -> Int] : PricedAt(net, flow, q, kk.scale) /\ (alg # "bellman-ford-ssp" => q = price)
  BY DEF RoutingKeeps, PricesFor
<1>3. alg # "bellman-ford-ssp" => Priced(flow, price, kk.scale) BY <1>1, <1>2, PricedIs
<1>4. ASSUME alg \notin Scaling \/ ph \in {"certify", "done"} PROVE Proves(net, flow, q)
  BY <1>1, <1>2, <1>4, ProvesPriced DEF RoutingKeeps
<1> QED BY <1>3, <1>4

\* The invariant accounts for the flow and its prices.
LEMMA RoutingKeepsFlow ==
    ASSUME net \in Problems, alg \in Routing, RoutingNow PROVE SolverKeepsFlow
<1>1. FlowAccounted BY RoutingTypes DEF FlowAccounted, Accounts
<1>2. PricesHold
  <2> SUFFICES ASSUME phase \notin Refused \cup {"start", "scale"}
               PROVE  /\ alg \in {"potential-dijkstra-ssp", "blocking-primal-dual"} => Priced(flow, price, 1)
                      /\ alg \in Scaling => Priced(flow, price, k.scale)
                      /\ alg = "bellman-ford-ssp" => ~HasNegativeCycle
                      /\ alg \in CostScalers => OptimalUpTo(flow, price, k.fixed, k.scale)
    BY DEF PricesHold
  <2>1. phase \in {"route", "failed", "certify", "done"}
    BY DEF RoutingNow, RoutingKeeps, RoutingPhases, Refused
  <2>0. alg \in Successive BY RoutingIs
  <2>2. alg # "bellman-ford-ssp" => Priced(flow, price, k.scale) BY <2>0, <2>1, RoutingPriced DEF RoutingNow
  <2>3. ASSUME alg \notin Scaling PROVE k.scale = 1 /\ ~HasNegativeCycle
    BY <2>0, <2>1, <2>3, RoutingPriced, PricesEndPasses, RoutingTypes DEF RoutingNow
  <2>4. alg \notin CostScalers /\ alg # "blocking-primal-dual" /\ (alg \in Scaling => alg # "bellman-ford-ssp")
    BY RoutingIs DEF Routing
  <2>5. alg \in {"bellman-ford-ssp", "potential-dijkstra-ssp"} => alg \notin Scaling BY DEF Scaling
  <2> QED BY <2>2, <2>3, <2>4, <2>5
<1>3. PassedArcsStayShut
  <2>1. ASSUME NEW v \in net.nodes PROVE k.cursor[v] = 0
    <3>1. k.cursor = [x \in net.nodes |-> 0] BY KernelScaled DEF RoutingNow, RoutingKeeps
    <3> QED BY <3>1
  <2> QED BY <2>1 DEF PassedArcsStayShut
<1> QED BY <1>1, <1>2, <1>3 DEF SolverKeepsFlow

\* And in the end its prices prove the flow cheapest.
LEMMA RoutingIsCheapest ==
    ASSUME net \in Problems, alg \in Successive, NEW ph, ph = (IF phase = "block" THEN "route" ELSE phase), NEW kk,
           RoutingKeeps(net, alg, flow, excess, price, ph, kk)
    PROVE  OnlyCheapest
<1>1. /\ Accounts(net, flow, excess) /\ phase \in RoutingPhases \cup {"block"}
      /\ (phase = "infeasible" => Feasible[net] = {})
      /\ (phase \notin {"start", "infeasible"} => Feasible[net] # {})
      /\ (phase \in {"certify", "done"} => \A v \in net.nodes : excess[v] = 0)
      /\ (phase = "unbounded" => Undercut(net))
  BY DEF RoutingKeeps
<1>2. DOMAIN LeastCost = {h \in Problems : Feasible[h] # {}} BY DEF LeastCost
<1>3. phase = "infeasible" <=> phase # "start" /\ net \notin DOMAIN LeastCost BY <1>1, <1>2
<1>4. ASSUME phase \in {"certify", "done"}
      PROVE  (\A v \in net.nodes : excess[v] = 0) /\ FlowCost(net, flow) = LeastCost[net]
  <2>1. \A v \in net.nodes : excess[v] = 0 BY <1>1, <1>4
  <2>2. Meets(net, flow) /\ flow \in [Edges(net) -> Int] BY <1>1, <2>1, NothingLeftMeets DEF Accounts
  <2>3. PICK q : Proves(net, flow, q) BY <1>4, RoutingPriced
  <2>4. Cheapest(net, flow) BY <2>2, <2>3, NoFlowIsCheaper DEF Cheapest
  <2> QED BY <2>1, <2>2, <2>4, CheapestIsLeast
<1> QED BY <1>1, <1>3, <1>4 DEF OnlyCheapest

RoutingInv == net \in Problems /\ (alg \in Routing => RoutingKeeps(net, alg, flow, excess, price, phase, k))

\* The invariant starts.
LEMMA RoutingStarted == Init => RoutingInv
BY RoutingStarts DEF RoutingInv, RoutingNow, Init

\* And it steps.
LEMMA RoutingStepped == ASSUME RoutingInv, [Next]_vars PROVE RoutingInv'
<1>1. CASE Next BY <1>1, OnlyCertifyIsDone, RoutingSteps DEF RoutingInv, RoutingNow, RoutingNext
<1>2. CASE UNCHANGED vars BY <1>2 DEF vars, RoutingInv
<1> QED BY <1>1, <1>2

\* Successive shortest paths by Bellman-Ford and by Dijkstra under potentials and the
\* scaling of capacities and excesses, on whatever problem, account for all flow, and the
\* prices that Dijkstra's searches leave stand behind every arc that counts, at each scale,
\* whichever nodes a search did not reach and before any check of them is made; without
\* prices no path ever closes a negative cycle.
THEOREM RoutersKeepFlow == Spec => [](alg \in Routing => SolverKeepsFlow)
<1>1. RoutingInv => (alg \in Routing => SolverKeepsFlow) BY RoutingKeepsFlow DEF RoutingInv, RoutingNow
<1> QED BY <1>1, RoutingStarted, RoutingStepped, PTL DEF Spec

\* Where these solvers have routed all there is, the flow is a cheapest one before any
\* certificate is computed; a problem they refuse as infeasible has no flow that meets it,
\* and one they refuse as unbounded is undercut at its lower bounds.
THEOREM RoutersStopCheapest == Spec => [](alg \in Routing => OnlyCheapest)
<1>1. RoutingInv => (alg \in Routing => OnlyCheapest)
  BY RoutingIs, RoutingIsCheapest DEF RoutingInv, RoutingKeeps, RoutingPhases
<1> QED BY <1>1, RoutingStarted, RoutingStepped, PTL DEF Spec

(***************************************************************************)
(* Blocking primal-dual: levels, a path in work that climbs them, and       *)
(* cursors that pass only what has no way on.                               *)
(***************************************************************************)

Blocking == net \in Problems /\ IsNetwork(net) /\ alg = "blocking-primal-dual"

\* What is slackless, and a level arc, by the model's words.
LEMMA BlockingIs ==
    ASSUME Blocking, Accounts(net, flow, excess), price \in [net.nodes -> Int], NEW a \in Arcs(net)
    PROVE  /\ Slackless(a) <=> Plain(net, price, a) = 0
           /\ LevelArc(a) <=> Slope(net, flow, price, k, a)
<1>1. alg \notin CostScalers /\ alg \notin Scaling BY DEF Blocking, CostScalers, Scaling
<1>2. ReducedCost(price, a) = Plain(net, price, a) BY <1>1 DEF ReducedCost, Plain, From, To
<1> QED BY <1>2 DEF Slackless, LevelArc, Slope, R, From, To

\* The place a search goes on from is the next slope of its node.
LEMMA PlaceIs ==
    ASSUME Blocking, Accounts(net, flow, excess), price \in [net.nodes -> Int],
           PassedDead(net, flow, excess, price, k), NEW v \in net.nodes
    PROVE  \E place, out :
               /\ place = Place(v) /\ place \in 0 .. Len(out) /\ out = net.outgoing[v]
               /\ place = 0 => \A i \in k.cursor[v] + 1 .. Len(out) : ~Slope(net, flow, price, k, out[i])
               /\ place # 0 => /\ k.cursor[v] < place /\ Slope(net, flow, price, k, out[place])
                               /\ \A i \in k.cursor[v] + 1 .. place - 1 : ~Slope(net, flow, price, k, out[i])
<1>1. PICK out, c, n : out = net.outgoing[v] /\ c = k.cursor[v] /\ n = Len(out) OBVIOUS
<1>2. /\ n \in Nat /\ c \in 0 .. n /\ \A i \in 1 .. n : out[i] \in Arcs(net)
  BY <1>1, Outgoing DEF Blocking, PassedDead
<1>3. \A i \in 1 .. n : LevelArc(out[i]) <=> Slope(net, flow, price, k, out[i]) BY <1>2, BlockingIs
<1>4. PICK J : J = {i \in c + 1 .. n : LevelArc(out[i])} OBVIOUS
<1>5. Place(v) = IF J # {} THEN Finite!Min(J) ELSE 0
  BY <1>1, <1>4 DEF Place, Seqs!SelectInSubSeq, Seqs!Min, Finite!Min
<1>6. PICK place : /\ place = Place(v) /\ place \in 0 .. n /\ (place = 0 <=> J = {})
                   /\ place # 0 => place \in J /\ c < place /\ \A i \in J : place <= i
  <2>1. J \subseteq c + 1 .. n BY <1>4
  <2>2. PICK first : /\ first = (IF J # {} THEN Finite!Min(J) ELSE 0) /\ first \in 0 .. n /\ (first = 0 <=> J = {})
                     /\ first # 0 => first \in J /\ c < first /\ \A i \in J : first <= i
    BY <1>2, <2>1, FirstAt
  <2>3. Place(v) = first BY <1>5, <2>2
  <2> QED BY <2>2, <2>3
<1>7. \A i \in c + 1 .. n : i \in J <=> Slope(net, flow, price, k, out[i]) BY <1>2, <1>3, <1>4
<1>8. ASSUME place # 0, NEW i \in c + 1 .. place - 1 PROVE ~Slope(net, flow, price, k, out[i])
  BY <1>2, <1>6, <1>7, <1>8
<1>9. place # 0 => c < place /\ Slope(net, flow, price, k, out[place]) BY <1>2, <1>4, <1>6, <1>7
<1> QED BY <1>1, <1>6, <1>7, <1>8, <1>9

\* The tip of the path of the model.
LEMMA TipIs ==
    ASSUME Blocking, InBlock(net, flow, excess, price, k)
    PROVE  Tip = TipAt(net, k) /\ Tip \in net.nodes
BY ClimbIsPath DEF Blocking, Tip, TipAt, Seqs!Last, To

BlockKeeps(g, al, fl, ex, p, ph, kk) ==
    /\ RoutingKeeps(g, al, fl, ex, p, IF ph = "block" THEN "route" ELSE ph, Kernel(g))
    /\ ph \notin {"block", "failed"} => kk = Kernel(g)
    /\ ph = "block" => InBlock(g, fl, ex, p, kk)
BlockNow == BlockKeeps(net, alg, flow, excess, price, phase, k)
BlockNext == BlockKeeps(net, alg, flow', excess', price', phase', k')

\* In a blocking flow everything but the path in work and its cursors keeps.
LEMMA InBlockNow ==
    ASSUME Blocking, BlockNow, phase = "block"
    PROVE  /\ RoutingKeeps(net, alg, flow, excess, price, "route", Kernel(net))
           /\ Accounts(net, flow, excess) /\ price \in [net.nodes -> Int]
           /\ InBlock(net, flow, excess, price, k) /\ k \in Blocker(net)
           /\ PassedDead(net, flow, excess, price, k) /\ Climb(net, flow, price, k)
BY DEF BlockNow, BlockKeeps, RoutingKeeps, InBlock

\* A path in work goes on along the next slope of its end.
LEMMA AdvanceBlockKeeps ==
    ASSUME Blocking, BlockNow, AdvanceBlock PROVE BlockNext
<1>1. /\ phase = "block" /\ phase' = phase /\ UNCHANGED <<flow, excess, price>> /\ ~Arrived /\ Place(Tip) # 0
      /\ k' = [k EXCEPT !.path = Append(@, net.outgoing[Tip][Place(Tip)]), !.cursor[Tip] = Place(Tip) - 1]
  BY DEF AdvanceBlock
<1>2. /\ RoutingKeeps(net, alg, flow, excess, price, "route", Kernel(net))
      /\ Accounts(net, flow, excess) /\ price \in [net.nodes -> Int]
      /\ InBlock(net, flow, excess, price, k) /\ k \in Blocker(net)
      /\ PassedDead(net, flow, excess, price, k) /\ Climb(net, flow, price, k)
  BY <1>1, InBlockNow
<1>3. PICK u \in net.nodes : u = Tip /\ u = TipAt(net, k) BY <1>2, TipIs
<1>4. PICK place, out :
               /\ place = Place(u) /\ place \in 0 .. Len(out) /\ out = net.outgoing[u]
               /\ place # 0 => /\ k.cursor[u] < place /\ Slope(net, flow, price, k, out[place])
                               /\ \A i \in k.cursor[u] + 1 .. place - 1 : ~Slope(net, flow, price, k, out[i])
  BY <1>2, PlaceIs
<1>5. PICK a, n : a = out[place] /\ n = Len(k.path) OBVIOUS
<1>6. /\ n \in Nat /\ a \in Arcs(net) /\ ArcFrom(net, a) = u /\ Slope(net, flow, price, k, a)
      /\ place \in 1 .. Len(out) /\ Len(out) \in Nat /\ k.cursor[u] \in 0 .. Len(out) /\ k.cursor[u] < place
      /\ k.path \in Seq(Arcs(net)) /\ k.cursor \in [net.nodes -> Nat]
  <2>1. k.path \in Seq(Arcs(net)) /\ k.cursor \in [net.nodes -> Nat] /\ n \in Nat BY <1>2, <1>5 DEF Blocker
  <2>2. Len(out) \in Nat /\ \A i \in 1 .. Len(out) : out[i] \in Arcs(net) /\ ArcFrom(net, out[i]) = u
    BY <1>4, Outgoing DEF Blocking
  <2>3. k.cursor[u] \in 0 .. Len(out) /\ place # 0 BY <1>1, <1>2, <1>3, <1>4 DEF PassedDead
  <2>4. place \in 1 .. Len(out) BY <1>4, <2>2, <2>3
  <2> QED BY <1>4, <1>5, <2>1, <2>2, <2>3, <2>4
<1>7. PICK ll : ll = k' OBVIOUS
<1>8. /\ ll \in Blocker(net) /\ ll.path = Append(k.path, a) /\ ll.cursor = [k.cursor EXCEPT ![u] = place - 1]
      /\ ll.level = k.level /\ ll.target = k.target /\ ll.node = k.node
  <2>1. ll = [k EXCEPT !.path = Append(k.path, a), !.cursor[u] = place - 1] BY <1>1, <1>3, <1>4, <1>5, <1>7
  <2>2. Append(k.path, a) \in Seq(Arcs(net)) /\ place - 1 \in Nat BY <1>6
  <2> QED BY <1>2, <2>1, <2>2 DEF Blocker
<1>9. \A b : Slope(net, flow, price, ll, b) <=> Slope(net, flow, price, k, b) BY <1>8 DEF Slope
<1>10. Climb(net, flow, price, ll)
  <2>1. /\ Len(ll.path) = n + 1 /\ ll.path[n + 1] = a /\ \A i \in 1 .. n : ll.path[i] = k.path[i]
    <3>1. k.path \in Seq(Arcs(net)) /\ a \in Arcs(net) BY <1>6, Zenon
    <3> QED BY <1>5, <1>8, <3>1, OneMore, OthersStay
  <2>2. ASSUME NEW i \in 1 .. n
        PROVE  /\ ArcFrom(net, ll.path[i]) = (IF i = 1 THEN ll.node ELSE ArcTo(net, ll.path[i - 1]))
               /\ Slope(net, flow, price, ll, ll.path[i])
               /\ ll.path[i] = net.outgoing[ArcFrom(net, ll.path[i])][ll.cursor[ArcFrom(net, ll.path[i])] + 1]
               /\ ll.cursor[ArcFrom(net, ll.path[i])] < Len(net.outgoing[ArcFrom(net, ll.path[i])])
    <3>1. PICK v : v = ArcFrom(net, k.path[i]) OBVIOUS
    <3>2. v # u /\ v \in net.nodes BY <1>2, <1>3, <1>5, <3>1, ClimbIsPath, ClimbLevels DEF Blocking
    <3>3. ll.cursor[v] = k.cursor[v] BY <1>6, <1>8, <3>2
    <3>4. /\ v = (IF i = 1 THEN k.node ELSE ArcTo(net, k.path[i - 1])) /\ Slope(net, flow, price, k, k.path[i])
          /\ k.path[i] = net.outgoing[v][k.cursor[v] + 1] /\ k.cursor[v] < Len(net.outgoing[v])
      BY <1>2, <1>5, <3>1 DEF Climb
    <3>5. i # 1 => ll.path[i - 1] = k.path[i - 1] BY <1>6, <2>1
    <3> QED BY <1>8, <1>9, <2>1, <3>1, <3>3, <3>4, <3>5
  <2>3. ASSUME NEW i, i = n + 1 PROVE u = (IF i = 1 THEN ll.node ELSE ArcTo(net, ll.path[i - 1]))
    BY <1>3, <1>5, <1>6, <1>8, <2>1, <2>3 DEF TipAt
  <2>4. ll.cursor[u] = place - 1 /\ place - 1 < Len(out) /\ a = out[ll.cursor[u] + 1]
    BY <1>4, <1>5, <1>6, <1>8
  <2>5. \A i \in 1 .. (n + 1) : i \in 1 .. n \/ i = n + 1 BY <1>6
  <2> SUFFICES ASSUME NEW i \in 1 .. (n + 1)
        PROVE  /\ ArcFrom(net, ll.path[i]) = (IF i = 1 THEN ll.node ELSE ArcTo(net, ll.path[i - 1]))
               /\ Slope(net, flow, price, ll, ll.path[i])
               /\ ll.path[i] = net.outgoing[ArcFrom(net, ll.path[i])][ll.cursor[ArcFrom(net, ll.path[i])] + 1]
               /\ ll.cursor[ArcFrom(net, ll.path[i])] < Len(net.outgoing[ArcFrom(net, ll.path[i])])
    BY <2>1 DEF Climb
  <2>6. CASE i = n + 1
    <3>1. ll.path[i] = a /\ ArcFrom(net, ll.path[i]) = u /\ Slope(net, flow, price, ll, ll.path[i])
      BY <1>6, <1>9, <2>1, <2>6
    <3>2. ArcFrom(net, ll.path[i]) = (IF i = 1 THEN ll.node ELSE ArcTo(net, ll.path[i - 1]))
      BY <2>3, <2>6, <3>1
    <3>3. ll.path[i] = net.outgoing[u][ll.cursor[u] + 1] /\ ll.cursor[u] < Len(net.outgoing[u])
      BY <1>4, <2>4, <3>1
    <3> QED BY <3>1, <3>2, <3>3
  <2> QED BY <2>2, <2>5, <2>6
<1>11. PassedDead(net, flow, excess, price, ll)
  <2>1. \A v \in net.nodes : /\ k.cursor[v] \in 0 .. Len(net.outgoing[v]) /\ Len(net.outgoing[v]) \in Nat
                             /\ v # u => ll.cursor[v] = k.cursor[v]
    BY <1>2, <1>6, <1>8, Outgoing DEF PassedDead, Blocking
  <2>2. ll.cursor[u] = place - 1 /\ place - 1 \in k.cursor[u] .. Len(net.outgoing[u]) BY <1>4, <1>6, <1>8
  <2>3. \A v \in net.nodes : ll.cursor[v] \in k.cursor[v] .. Len(net.outgoing[v]) BY <2>1, <2>2
  <2>4. \A v \in net.nodes : \A i \in k.cursor[v] + 1 .. ll.cursor[v] :
            ~Slope(net, flow, price, k, net.outgoing[v][i])
    <3> SUFFICES ASSUME NEW v \in net.nodes, NEW i \in k.cursor[v] + 1 .. ll.cursor[v]
                 PROVE  ~Slope(net, flow, price, k, net.outgoing[v][i])
      OBVIOUS
    <3>1. v = u BY <2>1
    <3>2. i \in k.cursor[u] + 1 .. place - 1 BY <2>2, <3>1
    <3> QED BY <1>4, <1>6, <3>1, <3>2
  <2> QED BY <1>2, <1>8, <2>3, <2>4, PassedStays DEF Blocking
<1>12. InBlock(net, flow, excess, price, ll) BY <1>2, <1>8, <1>10, <1>11 DEF InBlock
<1> QED BY <1>1, <1>2, <1>7, <1>12 DEF BlockNext, BlockKeeps

\* So do the retreats of the model: along the path, to another surplus, and out of the phase.
LEMMA RetreatBlockKeeps ==
    ASSUME Blocking, BlockNow, RetreatBlock PROVE BlockNext
<1>1. PICK later, passed :
         /\ later = {v \in Surpluses(1) : v > k.node} /\ passed = [k EXCEPT !.cursor[Tip] = Len(net.outgoing[Tip])]
         /\ phase = "block" /\ UNCHANGED <<flow, excess, price>> /\ ~Arrived /\ Place(Tip) = 0
         /\ CASE k.path # <<>> ->
                   /\ k' = [passed EXCEPT !.path = Seqs!Front(@),
                                          !.cursor[From(Seqs!Last(k.path))] = @ + 1]
                   /\ UNCHANGED phase
             [] k.path = <<>> /\ later # {} ->
                   k' = [passed EXCEPT !.node = Finite!Min(later)] /\ UNCHANGED phase
             [] k.path = <<>> /\ later = {} ->
                   k' = Kernel(net) /\ phase' = IF k.sent = 0 THEN "failed" ELSE "route"
  BY DEF RetreatBlock
<1>2. /\ RoutingKeeps(net, alg, flow, excess, price, "route", Kernel(net))
      /\ Accounts(net, flow, excess) /\ price \in [net.nodes -> Int]
      /\ InBlock(net, flow, excess, price, k) /\ k \in Blocker(net)
      /\ PassedDead(net, flow, excess, price, k) /\ Climb(net, flow, price, k)
  BY <1>1, InBlockNow
<1>3. PICK u \in net.nodes : u = Tip /\ u = TipAt(net, k) BY <1>2, TipIs
<1>4. PICK out, n : /\ out = net.outgoing[u] /\ \A i \in k.cursor[u] + 1 .. Len(out) : ~Slope(net, flow, price, k, out[i])
                    /\ n = Len(k.path)
  BY <1>1, <1>2, <1>3, PlaceIs
<1>5. /\ ~(k.level[u] = k.target /\ excess[u] < 0) /\ n \in Nat /\ (k.path = <<>> <=> n = 0)
      /\ k.path \in Seq(Arcs(net)) /\ k.cursor \in [net.nodes -> Nat] /\ Len(out) \in Nat /\ k.node \in net.nodes
      /\ excess[k.node] > 0
  BY <1>1, <1>2, <1>3, <1>4, Outgoing DEF Arrived, Blocker, Blocking, InBlock
<1>6. passed \in Blocker(net) /\ passed = [k EXCEPT !.cursor = [k.cursor EXCEPT ![u] = Len(out)]]
  BY <1>1, <1>2, <1>3, <1>4, <1>5 DEF Blocker
<1>7. CASE k.path # <<>>
  <2>1. PICK w : w = ArcFrom(net, k.path[n]) OBVIOUS
  <2>2. w \in net.nodes \ {u} /\ n > 0
    <3>1. IsNetwork(net) /\ n > 0 /\ n \in 1 .. Len(k.path) BY <1>4, <1>5, <1>7 DEF Blocking
    <3>2. w \in net.nodes /\ w # u BY <1>2, <1>3, <2>1, <3>1, ClimbIsPath, ClimbLevels
    <3> QED BY <3>1, <3>2
  <2>3. Seqs!Last(k.path) = k.path[n] /\ Seqs!Front(k.path) = SubSeq(k.path, 1, n - 1)
    BY <1>4 DEF Seqs!Last, Seqs!Front
  <2>4. PICK ll : ll = k' OBVIOUS
  <2>5. /\ phase' = "block" /\ ll = [k EXCEPT !.path = SubSeq(k.path, 1, n - 1),
                     !.cursor = [k.cursor EXCEPT ![u] = Len(out), ![w] = k.cursor[w] + 1]]
    <3>1. phase' = phase /\ ll = [passed EXCEPT !.path = Seqs!Front(@), !.cursor[From(Seqs!Last(k.path))] = @ + 1]
      BY <1>1, <1>7, <2>4
    <3>2. From(Seqs!Last(k.path)) = w /\ passed.path = k.path /\ passed.cursor[w] = k.cursor[w]
      BY <1>2, <1>5, <1>6, <2>1, <2>2, <2>3 DEF From, Blocker
    <3> QED BY <1>1, <1>2, <1>5, <1>6, <2>2, <2>3, <3>1, <3>2 DEF Blocker
  <2>6. SubSeq(k.path, 1, n - 1) \in Seq(Arcs(net)) /\ k.cursor[w] + 1 \in Nat BY <1>4, <1>5, <2>2
  <2>7. /\ ll \in Blocker(net) /\ ll.level = k.level /\ ll.target = k.target /\ ll.node = k.node
        /\ ll.path = SubSeq(k.path, 1, n - 1) /\ ll.cursor = [k.cursor EXCEPT ![u] = Len(out), ![w] = k.cursor[w] + 1]
    BY <1>2, <1>5, <2>5, <2>6 DEF Blocker
  <2>8. /\ n - 1 \in Nat /\ n - 1 < n + 1 /\ n - 1 < n /\ (n - 1) + 1 = n
        /\ \A v \in net.nodes \ {u} : ll.cursor[v] = k.cursor[v] + (IF n - 1 < n /\ v = w THEN 1 ELSE 0)
        /\ ll.cursor[u] = Len(out)
    BY <1>5, <2>2, <2>7
  <2>9. Retreats(net, flow, excess, price, k, ll, u, n, n - 1)
    BY <1>3, <1>4, <1>5, <2>1, <2>7, <2>8 DEF Retreats
  <2>10. InBlock(net, flow, excess, price, ll) BY <1>2, <2>9, RetreatKeeps DEF Blocking
  <2> QED BY <1>1, <1>2, <2>4, <2>5, <2>10 DEF BlockNext, BlockKeeps
<1>8. CASE k.path = <<>> /\ later # {}
  <2>1. PICK ll, x : ll = k' /\ x = Finite!Min(later) OBVIOUS
  <2>2. x \in net.nodes /\ excess[x] > 0
    <3>1. later \subseteq net.nodes /\ \A v \in later : excess[v] >= 1 BY <1>1 DEF Surpluses
    <3>3. x \in later BY <1>8, <2>1, <3>1, LeastNode DEF Blocking
    <3> QED BY <1>2, <3>1, <3>3 DEF Accounts
  <2>3. ll = [k EXCEPT !.cursor = [k.cursor EXCEPT ![u] = Len(out)], !.node = x] /\ phase' = "block"
    BY <1>1, <1>2, <1>6, <1>8, <2>1 DEF Blocker
  <2>4. /\ ll \in Blocker(net) /\ ll.level = k.level /\ ll.target = k.target /\ ll.node = x
        /\ ll.path = k.path /\ ll.cursor = [k.cursor EXCEPT ![u] = Len(out)]
    BY <1>2, <1>5, <2>2, <2>3 DEF Blocker
  <2>5. n = 0 /\ ll.path = SubSeq(k.path, 1, 0) BY <1>5, <1>8, <2>4
  <2>6. /\ \A v \in net.nodes \ {u} : ll.cursor[v] = k.cursor[v] + (IF 0 < n /\ v = ArcFrom(net, k.path[n]) THEN 1 ELSE 0)
        /\ ll.cursor[u] = Len(out)
    BY <1>5, <2>4, <2>5
  <2>7. Retreats(net, flow, excess, price, k, ll, u, n, 0)
    BY <1>3, <1>4, <1>5, <2>2, <2>4, <2>5, <2>6 DEF Retreats
  <2>8. InBlock(net, flow, excess, price, ll) BY <1>2, <2>7, RetreatKeeps DEF Blocking
  <2> QED BY <1>1, <1>2, <2>1, <2>3, <2>8 DEF BlockNext, BlockKeeps
<1>9. CASE k.path = <<>> /\ later = {}
  BY <1>1, <1>2, <1>9 DEF RoutingKeeps, RoutingPhases, BlockNext, BlockKeeps
<1> QED BY <1>7, <1>8, <1>9

\* A path in work that has come to a deficit is one of arcs without slack.
LEMMA ArrivedIs ==
    ASSUME Blocking, BlockNow, AugmentBlock
    PROVE  \E n, v, u, amount :
             /\ PathIn(net, k.path, n) /\ v = k.node /\ u = Tip /\ amount = Sent(k.path, k.node, Tip) /\ u \in net.nodes
             /\ v = ArcFrom(net, k.path[1]) /\ u = ArcTo(net, k.path[n]) /\ v # u /\ amount \in Nat
             /\ \A i \in 1 .. n : /\ amount <= Residual(net, flow, k.path[i]) /\ Plain(net, price, k.path[i]) = 0
                                  /\ Slope(net, flow, price, k, k.path[i])
             /\ amount <= excess[v] /\ amount <= -excess[u] /\ excess[u] < 0
<1>1. phase = "block" /\ Arrived BY DEF AugmentBlock
<1>2. /\ Accounts(net, flow, excess) /\ price \in [net.nodes -> Int] /\ InBlock(net, flow, excess, price, k)
      /\ Climb(net, flow, price, k) /\ excess[k.node] > 0 /\ k.node \in net.nodes /\ k.path \in Seq(Arcs(net))
  BY <1>1, InBlockNow DEF InBlock, Blocker
<1>3. PICK u \in net.nodes : u = Tip /\ u = TipAt(net, k) BY <1>2, TipIs
<1>4. PICK n, v : n = Len(k.path) /\ v = k.node OBVIOUS
<1>5. excess \in [net.nodes -> Int] /\ excess[v] > 0 /\ excess[u] < 0 /\ v \in net.nodes /\ v # u
  BY <1>1, <1>2, <1>3, <1>4 DEF Arrived, Accounts
<1>6. n \in Nat /\ n > 0 /\ k.path # <<>> /\ u = ArcTo(net, k.path[n]) /\ k.path \in [1 .. n -> Arcs(net)]
  BY <1>2, <1>3, <1>4, <1>5 DEF TipAt
<1>7. PathIn(net, k.path, n) /\ v = ArcFrom(net, k.path[1]) BY <1>2, <1>4, <1>6, ClimbIsPath DEF Blocking
<1>8. \A i \in 1 .. n : Plain(net, price, k.path[i]) = 0 /\ Slope(net, flow, price, k, k.path[i])
  BY <1>2, <1>4 DEF Climb, Slope
<1>9. PICK b, x, y : b = Bottleneck(net, flow, k.path) /\ x = excess[v] /\ y = -excess[u] OBVIOUS
<1>10. b \in Nat /\ \A i \in 1 .. n : b <= Residual(net, flow, k.path[i])
  BY <1>2, <1>6, <1>9, BottleneckIs DEF Blocking
<1>11. PICK amount : amount = Finite!Min({b, x, y}) /\ amount = Sent(k.path, k.node, Tip)
  BY <1>3, <1>4, <1>9 DEF Sent, Blocking
<1>12. amount \in Nat /\ amount <= b /\ amount <= x /\ amount <= y
  <2>1. x \in Nat /\ y \in Nat BY <1>5, <1>9
  <2>2. /\ Finite!Min({b, x, y}) \in Nat /\ Finite!Min({b, x, y}) <= b
        /\ Finite!Min({x, b, y}) <= x /\ Finite!Min({y, b, x}) <= y
    BY <1>10, <2>1, LeastOfThree
  <2>3. {b, x, y} = {x, b, y} /\ {b, x, y} = {y, b, x} OBVIOUS
  <2> QED BY <1>11, <2>2, <2>3
<1>13. \A i \in 1 .. n : Residual(net, flow, k.path[i]) \in Int BY <1>2, <1>6, ResidualIsNat DEF Blocking
<1>14. \A i \in 1 .. n : amount <= Residual(net, flow, k.path[i]) BY <1>10, <1>12, <1>13
<1> QED BY <1>3, <1>4, <1>5, <1>6, <1>7, <1>8, <1>9, <1>11, <1>12, <1>14

\* An augmentation to the target level fills no cursor's past: what it opens leads down a level.
LEMMA AugmentBlockKeeps ==
    ASSUME Blocking, BlockNow, AugmentBlock PROVE BlockNext
<1>1. PICK n, v, u, amount :
             /\ PathIn(net, k.path, n) /\ v = k.node /\ u = Tip /\ amount = Sent(k.path, k.node, Tip) /\ u \in net.nodes
             /\ v = ArcFrom(net, k.path[1]) /\ u = ArcTo(net, k.path[n]) /\ v # u /\ amount \in Nat
             /\ \A i \in 1 .. n : /\ amount <= Residual(net, flow, k.path[i]) /\ Plain(net, price, k.path[i]) = 0
                                  /\ Slope(net, flow, price, k, k.path[i])
             /\ amount <= excess[v] /\ amount <= -excess[u] /\ excess[u] < 0
  BY ArrivedIs
<1>11. PathIn(net, k.path, n) /\ amount \in Nat /\ \A i \in 1 .. n : amount <= Residual(net, flow, k.path[i])
  BY <1>1
<1>2. PICK left :
         /\ phase = "block" /\ left = {x \in net.nodes : excess'[x] > 0} /\ UNCHANGED price
         /\ flow' = Augment(net, flow, k.path, amount) /\ excess' = Moved(excess, v, u, amount)
         /\ k' = (IF left = {} THEN Kernel(net)
                  ELSE [k EXCEPT !.path = <<>>, !.node = Finite!Min(left), !.sent = @ + 1])
         /\ phase' \in {"failed", IF left = {} THEN "route" ELSE phase}
  BY <1>1 DEF AugmentBlock
<1>3. /\ RoutingKeeps(net, alg, flow, excess, price, "route", Kernel(net))
      /\ Accounts(net, flow, excess) /\ price \in [net.nodes -> Int] /\ WithinBounds(net, flow)
      /\ InBlock(net, flow, excess, price, k) /\ k \in Blocker(net) /\ excess \in [net.nodes -> Int]
      /\ PassedDead(net, flow, excess, price, k) /\ Climb(net, flow, price, k) /\ excess[k.node] > 0
  BY <1>2, InBlockNow DEF Accounts, InBlock
<1>4. PICK next, rest : next = flow' /\ rest = excess' OBVIOUS
<1>5. Accounts(net, next, rest) /\ rest \in [net.nodes -> Int]
  <2>1. Accounts(net, Augment(net, flow, k.path, amount),
                 Moved(excess, ArcFrom(net, k.path[1]), ArcTo(net, k.path[n]), amount))
    BY <1>3, <1>11, PathAccounts DEF Blocking
  <2> QED BY <1>1, <1>2, <1>4, <2>1 DEF Accounts
<1>6. PricedAt(net, flow, price, 1) BY <1>3 DEF RoutingKeeps, Kernel, Blocking, PricesFor
<1>7. PricedAt(net, next, price, 1) BY <1>1, <1>2, <1>3, <1>4, <1>6, AugmentPriced DEF Blocking
<1>8. ASSUME NEW ph \in {"failed", "route"} PROVE RoutingKeeps(net, alg, next, rest, price, ph, Kernel(net))
  BY <1>3, <1>5, <1>7 DEF Kernel, Blocking, PricesFor, RoutingKeeps, RoutingPhases
<1>9. CASE left = {} BY <1>2, <1>4, <1>8, <1>9 DEF BlockNext, BlockKeeps
<1>10. CASE left # {}
  <2>1. PICK ll, x : ll = k' /\ x = Finite!Min(left) OBVIOUS
  <2>2. ll = [k EXCEPT !.path = <<>>, !.node = x, !.sent = k.sent + 1] /\ phase' \in {"failed", "block"}
    BY <1>2, <1>10, <2>1
  <2>3. x \in net.nodes /\ rest[x] > 0 BY <1>2, <1>4, <1>10, <2>1, LeastNode DEF Blocking
  <2>4. /\ ll \in Blocker(net) /\ ll.path = <<>> /\ ll.cursor = k.cursor /\ ll.level = k.level
        /\ ll.target = k.target /\ ll.node = x
    <3>1. <<>> \in Seq(Arcs(net)) /\ k.sent + 1 \in Nat BY <1>3 DEF Blocker
    <3> QED BY <1>3, <2>2, <2>3, <3>1 DEF Blocker
  <2>5. ASSUME NEW y \in net.nodes PROVE (rest[y] > 0 => excess[y] > 0) /\ (rest[y] < 0 => excess[y] < 0)
    <3>1. rest[y] = excess[y] - (IF y = v THEN amount ELSE 0) + (IF y = u THEN amount ELSE 0)
      BY <1>2, <1>3, <1>4 DEF Moved
    <3>2. /\ excess[v] > 0 /\ excess[u] < 0 /\ excess[v] \in Int /\ excess[u] \in Int /\ excess[y] \in Int
          /\ v # u /\ amount \in Nat /\ amount <= excess[v] /\ amount <= -excess[u]
      BY <1>1, <1>3 DEF Blocker
    <3>3. CASE y = v BY <3>1, <3>2, <3>3
    <3>4. CASE y = u BY <3>1, <3>2, <3>4
    <3>5. CASE y # v /\ y # u BY <3>1, <3>2, <3>5
    <3> QED BY <3>3, <3>4, <3>5
  <2>6. \A y \in net.nodes : rest[y] > 0 => y \in DOMAIN ll.level BY <1>3, <2>4, <2>5 DEF InBlock
  <2>7. ASSUME NEW a \in Arcs(net), Slope(net, next, price, k, a) PROVE Slope(net, flow, price, k, a)
    <3>1. /\ Residual(net, next, a) \in Nat /\ Residual(net, flow, a) \in Nat /\ Residual(net, next, a) > 0
          /\ k.level \in [DOMAIN k.level -> Nat]
      BY <1>3, <1>5, <2>7, ResidualIsNat, ClimbLevels DEF Slope, Blocking
    <3>2. Residual(net, flow, a) >= 1 \/ \E i \in 1 .. n : k.path[i] = Opposite(a)
      <4>1. PICK width \in Nat : width = 1 OBVIOUS
      <4>2. Residual(net, Augment(net, flow, k.path, amount), a) >= width BY <1>2, <1>4, <3>1, <4>1
      <4>3. Residual(net, flow, a) >= width \/ \E i \in 1 .. n : k.path[i] = Opposite(a)
        <5>1. WithinBounds(net, flow) /\ net \in Problems BY <1>3 DEF Blocking
        <5> QED BY <1>11, <4>2, <5>1, NewRoom
      <4> QED BY <4>1, <4>3
    <3>3. ASSUME NEW i \in 1 .. n, k.path[i] = Opposite(a) PROVE FALSE
      <4>1. ArcFrom(net, k.path[i]) = ArcTo(net, a) /\ ArcTo(net, k.path[i]) = ArcFrom(net, a)
        BY <3>3, ArcParts DEF Blocking
      <4>2. Slope(net, flow, price, k, k.path[i]) BY <1>1
      <4>3. /\ ArcTo(net, a) \in DOMAIN k.level /\ k.level[ArcTo(net, a)] = k.level[ArcFrom(net, a)] + 1
            /\ ArcFrom(net, a) \in DOMAIN k.level /\ k.level[ArcFrom(net, a)] = k.level[ArcTo(net, a)] + 1
        BY <2>7, <4>1, <4>2 DEF Slope
      <4>4. k.level[ArcTo(net, a)] \in Nat /\ k.level[ArcFrom(net, a)] \in Nat BY <3>1, <4>3
      <4> QED BY <4>3, <4>4
    <3> QED BY <2>7, <3>1, <3>2, <3>3 DEF Slope
  <2>8. PassedDead(net, next, rest, price, ll)
    <3>1. \A y \in net.nodes : k.cursor[y] \in 0 .. Len(net.outgoing[y]) BY <1>3 DEF PassedDead
    <3>2. \A y \in net.nodes : /\ ll.cursor[y] \in k.cursor[y] .. Len(net.outgoing[y])
                               /\ \A i \in k.cursor[y] + 1 .. ll.cursor[y] : FALSE
      BY <2>4, <3>1
    <3> QED BY <1>3, <2>4, <2>5, <2>7, <3>2, PassedStays DEF Blocking
  <2>9. Climb(net, next, price, ll) BY <2>4 DEF Climb
  <2>10. InBlock(net, next, rest, price, ll) BY <2>3, <2>4, <2>6, <2>8, <2>9 DEF InBlock
  <2> QED BY <1>2, <1>4, <1>8, <2>1, <2>2, <2>10 DEF BlockNext, BlockKeeps
<1> QED BY <1>9, <1>10

\* Levels counted from all surpluses start a blocking flow.
LEMMA BlockStarts ==
    ASSUME Blocking, Accounts(net, flow, excess), Surpluses(1) # {},
           NEW levels \in Partial(net.nodes, Nat), Surpluses(1) \subseteq DOMAIN levels, NEW target \in Nat
    PROVE  InBlock(net, flow, excess, price,
               [Kernel(net) EXCEPT !.level = levels, !.node = Finite!Min(Surpluses(1)), !.target = target])
<1>1. PICK x, ll : x = Finite!Min(Surpluses(1))
                   /\ ll = [Kernel(net) EXCEPT !.level = levels, !.node = x, !.target = target]
  OBVIOUS
<1>2. excess \in [net.nodes -> Int] /\ Surpluses(1) = {v \in net.nodes : excess[v] >= 1}
  BY DEF Surpluses, Accounts
<1>3. x \in net.nodes /\ excess[x] > 0 BY <1>1, <1>2, LeastNode DEF Blocking
<1>4. \A v \in net.nodes : excess[v] > 0 => v \in DOMAIN levels BY <1>2
<1>5. /\ ll = [scale |-> 1, node |-> x, path |-> <<>>, cursor |-> [v \in net.nodes |-> 0],
               level |-> levels, target |-> target, sent |-> 0, queue |-> <<>>, fixed |-> {}]
  BY <1>1 DEF Kernel
<1>6. ll \in Blocker(net) /\ ll.path = <<>> /\ ll.node = x /\ ll.level = levels /\ \A v \in net.nodes : ll.cursor[v] = 0
  BY <1>3, <1>5 DEF Blocker
<1>7. Climb(net, flow, price, ll) BY <1>6 DEF Climb
<1>8. PassedDead(net, flow, excess, price, ll) BY <1>6, Outgoing DEF Blocking, PassedDead
<1>9. InBlock(net, flow, excess, price, ll) BY <1>3, <1>4, <1>6, <1>7, <1>8 DEF InBlock
<1> QED BY <1>1, <1>9

\* Levels are taken afresh, or prices rise until a deficit comes into reach.
LEMMA LevelOrTightenKeeps ==
    ASSUME Blocking, BlockNow, LevelOrTighten PROVE BlockNext
<1>1. /\ phase = "route" /\ k = Kernel(net) /\ k.scale = 1 /\ alg \notin CostScalers /\ alg \notin Scaling
      /\ alg # "bellman-ford-ssp" /\ alg # "excess-scaling"
      /\ RoutingKeeps(net, alg, flow, excess, price, "route", Kernel(net))
      /\ Accounts(net, flow, excess) /\ price \in [net.nodes -> Int] /\ flow \in [Edges(net) -> Int]
  BY DEF LevelOrTighten, BlockNow, BlockKeeps, Kernel, Blocking, CostScalers, Scaling, RoutingKeeps, Accounts
<1>2. /\ PricedAt(net, flow, price, 1) /\ Kernel(net).scale = 1 BY <1>1 DEF RoutingKeeps, PricesFor
<1>3. ASSUME NEW p, NEW ph \in {"failed", "route", "certify"}, PricedAt(net, flow, p, 1), p \in [net.nodes -> Int],
             ph = "certify" => \A v \in net.nodes : excess[v] = 0
      PROVE  RoutingKeeps(net, alg, flow, excess, p, ph, Kernel(net))
  BY <1>1, <1>2, <1>3 DEF PricesFor, RoutingKeeps, RoutingPhases
<1>4. ASSUME NEW ph \in {"failed", "route", "certify"}, ph = "certify" => \A v \in net.nodes : excess[v] = 0, Stop(ph)
      PROVE  BlockNext
  BY <1>1, <1>2, <1>3, <1>4 DEF BlockNext, BlockKeeps, Stop
<1>5. CASE Surpluses(1) = {} BY <1>4, <1>5 DEF LevelOrTighten
<1>6. CASE Surpluses(1) # {}
  <2>1. PICK roots, arcs, levels, s :
           /\ roots = Surpluses(1) /\ arcs = {a \in Usable : Slackless(a)}
           /\ levels = Reach(roots, arcs).dist /\ s = Dijkstra(roots)
           /\ CASE Deficits(1) \cap DOMAIN levels # {} ->
                    /\ k' = [Kernel(net) EXCEPT !.level = levels, !.node = Finite!Min(Surpluses(1)),
                                 !.target = Finite!Min({levels[v] : v \in Deficits(1) \cap DOMAIN levels})]
                    /\ phase' = "block" /\ UNCHANGED <<flow, excess, price>>
              [] Deficits(1) \cap DOMAIN levels = {} /\ Ends(s) # {} ->
                    /\ price' = Tightened(price, s.dist, Finite!Min({s.dist[w] : w \in Ends(s)}))
                    /\ phase' = IF Priced(flow, price', 1) /\ price' # price THEN phase ELSE "failed"
                    /\ UNCHANGED <<flow, excess, k>>
              [] OTHER -> Stop("failed")
    BY <1>6 DEF LevelOrTighten
  <2>2. roots \in SUBSET net.nodes /\ IsFiniteSet(net.nodes) BY <2>1, NodeCount DEF Surpluses, Blocking
  <2>3. CASE Deficits(1) \cap DOMAIN levels # {}
    <3>1. levels \in Partial(net.nodes, Nat) /\ roots \subseteq DOMAIN levels
      BY <2>1, <2>2, ReachFinds DEF Finds, Blocking
    <3>2. PICK S, target : S = Deficits(1) \cap DOMAIN levels /\ target = Finite!Min({levels[v] : v \in S})
      OBVIOUS
    <3>3. S # {} /\ IsFiniteSet(S) /\ \A v \in S : levels[v] \in Nat
      BY <2>2, <2>3, <3>1, <3>2, PartialMap, FS_Subset DEF Deficits
    <3>4. target \in Nat BY <3>2, <3>3, LeastImage
    <3>5. InBlock(net, flow, excess, price, [Kernel(net) EXCEPT !.level = levels, !.node = Finite!Min(Surpluses(1)),
                                                                !.target = target])
      BY <1>1, <1>6, <2>1, <3>1, <3>4, BlockStarts
    <3>6. /\ k' = [Kernel(net) EXCEPT !.level = levels, !.node = Finite!Min(Surpluses(1)), !.target = target]
          /\ phase' = "block" /\ UNCHANGED <<flow, excess, price>>
      BY <2>1, <2>3, <3>2
    <3> QED BY <1>1, <3>5, <3>6 DEF BlockNext, BlockKeeps
  <2>4. CASE Deficits(1) \cap DOMAIN levels = {} /\ Ends(s) # {}
    <3>1. Searchable BY <1>1, <1>2, PricedIs DEF Searchable, Blocking
    <3>2. s.dist \in [DOMAIN s.dist -> Nat] /\ CheapTree(net, flow, price, 1, roots, DOMAIN s.dist, s.by, s.dist)
      BY <1>1, <2>1, <2>2, <3>1, DijkstraIs
    <3>3. PICK S, cut : S = Ends(s) /\ cut = Finite!Min({s.dist[w] : w \in S}) OBVIOUS
    <3>4. S # {} /\ IsFiniteSet(S) /\ \A w \in S : s.dist[w] \in Nat
      BY <2>2, <2>4, <3>2, <3>3, FS_Subset DEF Ends, Deficits
    <3>5. cut \in Int BY <3>3, <3>4, LeastImage
    <3>6. PICK V, d, p : V = DOMAIN s.dist /\ d = s.dist /\ p = Risen(net, price, V, d, cut) OBVIOUS
    <3>7. CheapTree(net, flow, price, 1, roots, V, s.by, d) BY <3>2, <3>6
    <3>8. p \in [net.nodes -> Int] /\ PricedAt(net, flow, p, 1)
      BY <1>1, <1>2, <3>5, <3>6, <3>7, RisenHold DEF Blocking
    <3>9. price' = p /\ phase' \in {"failed", "route"} /\ UNCHANGED <<flow, excess, k>>
      BY <1>1, <2>1, <2>4, <3>3, <3>6 DEF Tightened, Risen
    <3> QED BY <1>1, <1>3, <3>8, <3>9 DEF BlockNext, BlockKeeps
  <2>5. CASE ~(Deficits(1) \cap DOMAIN levels # {}) /\ ~(Deficits(1) \cap DOMAIN levels = {} /\ Ends(s) # {})
    BY <1>4, <2>1, <2>5
  <2> QED BY <2>3, <2>4, <2>5
<1> QED BY <1>5, <1>6

\* Every step of the solver keeps all this,
LEMMA BlockSteps ==
    ASSUME Blocking, BlockNow, Next PROVE BlockNext
<1>1. /\ alg \in Successive /\ alg \notin CostScalers /\ alg \notin Scaling /\ alg \notin Improving
      /\ phase \notin {"improve", "select", "correct", "refine"}
  BY DEF Blocking, Successive, CostScalers, Scaling, Improving, BlockNow, BlockKeeps, RoutingKeeps, RoutingPhases
<1>2. CASE Certify
  <2>1. /\ phase = "certify" /\ phase' \in {"done", "failed"} /\ UNCHANGED <<flow, excess, price, k>>
    BY <1>2 DEF Certify, Stop
  <2>2. RoutingKeeps(net, alg, flow, excess, price, phase, Kernel(net)) /\ k = Kernel(net)
    BY <2>1 DEF BlockNow, BlockKeeps
  <2>3. RoutingKeeps(net, alg, flow, excess, price, phase', Kernel(net))
    BY <2>1, <2>2 DEF RoutingKeeps, RoutingPhases
  <2> QED BY <2>1, <2>2, <2>3 DEF BlockNext, BlockKeeps
<1>3. CASE BeginSuccessive
  <2>1. phase = "start" /\ phase' = Admission /\ UNCHANGED k BY <1>1, <1>3 DEF BeginSuccessive
  <2>2. RoutingNow /\ k = Kernel(net) BY <2>1 DEF BlockNow, BlockKeeps, RoutingNow
  <2>3. RoutingNext BY <1>3, <2>2, BeginSuccessiveKeeps DEF Blocking
  <2>4. phase' # "block" BY <2>3 DEF RoutingNext, RoutingKeeps, RoutingPhases
  <2> QED BY <2>1, <2>2, <2>3, <2>4 DEF RoutingNext, BlockNext, BlockKeeps
<1>4. CASE ShortestPathStep /\ ~BeginSuccessive
  BY <1>1, <1>4, LevelOrTightenKeeps, AdvanceBlockKeeps, RetreatBlockKeeps, AugmentBlockKeeps DEF
     RouteImbalance, NothingToRoute, BeginScale, Blocking, ShortestPathStep
<1>5. CASE CycleCancelingStep
  BY <1>1, <1>5 DEF CycleCancelingStep, BeginImproving, CancelNegativeCycle, CancelMinimumMean,
     SelectEdge, CorrectEdge
<1>6. CASE CostScalingStep
  BY <1>1, <1>6 DEF CostScalingStep, BeginCostScaling, StartRefine, Push, Relabel, TakeRoot, ExtendPath,
     RelabelPathEnd, PushPath, FinishRefine, Discharging, Searching
<1> QED BY <1>2, <1>3, <1>4, <1>5, <1>6 DEF Next

\* and all this makes the flow good and, at its end, cheapest.
LEMMA BlockKeepsFlow ==
    ASSUME Blocking, BlockNow PROVE SolverKeepsFlow /\ OnlyCheapest
<1>1. PICK ph, kk : /\ ph = (IF phase = "block" THEN "route" ELSE phase) /\ kk = Kernel(net)
                    /\ RoutingKeeps(net, alg, flow, excess, price, ph, kk)
  BY DEF BlockNow, BlockKeeps
<1>2. /\ alg \in Successive /\ alg \notin CostScalers /\ alg \notin Scaling /\ alg # "bellman-ford-ssp"
      /\ Accounts(net, flow, excess) /\ price \in [net.nodes -> Int] /\ ph \in RoutingPhases /\ kk.scale = 1
  BY <1>1 DEF Blocking, Successive, CostScalers, Scaling, RoutingKeeps, Kernel
<1>3. FlowAccounted BY <1>2 DEF FlowAccounted, Accounts
<1>4. PricesHold BY <1>1, <1>2, RoutingPriced DEF RoutingPhases, Refused, Blocking, PricesHold
<1>5. PassedArcsStayShut
  <2>1. phase # "refine" BY <1>1, <1>2 DEF RoutingPhases
  <2>2. ASSUME phase = "block", NEW v \in net.nodes, NEW i \in 1 .. k.cursor[v], NEW a, a = net.outgoing[v][i], LevelArc(a)
        PROVE  Place(To(a)) = 0 /\ ~(k.level[To(a)] = k.target /\ excess[To(a)] < 0)
    <3>1. PassedDead(net, flow, excess, price, k) BY <2>2, InBlockNow
    <3>2. PICK u \in net.nodes : u = To(a) /\ a \in Arcs(net) /\ i \in 1 .. Len(net.outgoing[v])
      BY <2>2, <3>1, Outgoing DEF PassedDead, Blocking, To
    <3>3. Slope(net, flow, price, k, a) BY <1>2, <2>2, <3>2, BlockingIs
    <3>4. DeadEnd(net, flow, excess, price, k, u) BY <2>2, <3>1, <3>2, <3>3 DEF PassedDead, To
    <3>5. Place(u) = 0
      <4>1. PICK place, out :
               /\ place = Place(u) /\ place \in 0 .. Len(out) /\ out = net.outgoing[u]
               /\ place # 0 => k.cursor[u] < place /\ Slope(net, flow, price, k, out[place])
        BY <1>2, <3>1, PlaceIs
      <4>2. k.cursor[u] \in Nat /\ Len(out) \in Nat BY <3>1, <4>1, Outgoing DEF PassedDead, Blocking
      <4> QED BY <3>4, <4>1, <4>2 DEF DeadEnd
    <3> QED BY <3>2, <3>4, <3>5 DEF DeadEnd
  <2> QED BY <2>1, <2>2 DEF PassedArcsStayShut
<1>6. OnlyCheapest BY <1>1, <1>2, RoutingIsCheapest DEF Blocking
<1> QED BY <1>3, <1>4, <1>5, <1>6 DEF SolverKeepsFlow

BlockInv == net \in Problems /\ (Blocking => BlockNow)

LEMMA BlockStarted == Init => BlockInv
<1> SUFFICES ASSUME Init, Blocking PROVE BlockNow BY DEF Init, BlockInv
<1>1. phase = "start" /\ k = Kernel(net) BY DEF Init
<1> QED BY <1>1, RoutingStarts DEF RoutingNow, BlockNow, BlockKeeps

LEMMA BlockStepped == ASSUME BlockInv, [Next]_vars PROVE BlockInv'
<1>1. CASE Next BY <1>1, OnlyCertifyIsDone, BlockSteps DEF BlockInv, Blocking, BlockNow, BlockNext
<1>2. CASE UNCHANGED vars BY <1>2 DEF vars, BlockInv, Blocking, BlockNow
<1> QED BY <1>1, <1>2

\* Blocking primal-dual on whatever problem accounts for all flow, its prices stand behind
\* every arc after each augmentation, and while a blocking flow is searched the current arcs
\* have passed only arcs to nodes that have no way on, whatever was sent since; where it has
\* routed all there is, the flow is a cheapest one before any certificate is computed.
THEOREM BlockingKeepsFlow == Spec => [](alg = "blocking-primal-dual" => SolverKeepsFlow /\ OnlyCheapest)
<1>1. BlockInv => (alg = "blocking-primal-dual" => SolverKeepsFlow /\ OnlyCheapest)
  BY BlockKeepsFlow, ProblemsAssumption DEF BlockInv, Blocking
<1> QED BY <1>1, BlockStarted, BlockStepped, PTL DEF Spec

\* The solvers of the three families are all there are.
LEMMA SolversAlways == Spec => [](alg \in Routing \cup {"blocking-primal-dual"} \cup Improving \cup CostScalers)
<1>1. Init => alg \in Routing \cup {"blocking-primal-dual"} \cup Improving \cup CostScalers
  BY SolversAssumption DEF Init, Successive, Routing
<1>2. ASSUME alg \in Routing \cup {"blocking-primal-dual"} \cup Improving \cup CostScalers, [Next]_vars
      PROVE  (alg \in Routing \cup {"blocking-primal-dual"} \cup Improving \cup CostScalers)'
  BY <1>2, OnlyCertifyIsDone DEF vars
<1> QED BY <1>1, <1>2, PTL DEF Spec

\* Every solver on every problem, after every step: the flow is within the bounds and what
\* a node has still to send is what its flow lacks; the prices stand behind the arcs that
\* count, as closely as the solver's scale asks; and no current arc has passed one that
\* could still be used.
THEOREM SolversKeepFlow == Spec => []SolverKeepsFlow
<1>1. (alg \in Routing \cup {"blocking-primal-dual"} \cup Improving \cup CostScalers)
      => \/ alg \in Routing \/ alg = "blocking-primal-dual" \/ alg \in Improving \/ alg \in CostScalers
  OBVIOUS
<1> QED
  BY <1>1, SolversAlways, RoutersKeepFlow, BlockingKeepsFlow, ImproversKeepFlow, CostScalersKeepFlow, PTL
==============================================================================
