------------------------------ MODULE MinCostFlow ------------------------------
(* Every minimum-cost flow solver of the three families on every problem:    *)
(* what they keep on their way and what they end with.                       *)
EXTENDS ShortestPathFlows, CycleCanceling, CostScaling

\* The catalogue's solvers of the three families.
ASSUME SolversAssumption == Solvers \subseteq Successive \cup Improving \cup CostScalers

Next == ShortestPathStep \/ CycleCancelingStep \/ CostScalingStep \/ Certify

\* A solver is a loop that runs until it returns.
Spec == Init /\ [][Next]_vars
FairSpec == Spec /\ WF_vars(Next)

Refused == {"infeasible", "unbounded", "narrow"}
Ended == Refused \cup {"done", "failed"}

\* No step leaves the bounds of an edge, and what a node has still to send is
\* exactly what its flow lacks of the divergence required, whichever of the
\* many places that move flow moved it, alone or along a path through others.
FlowAccounted ==
    /\ WithinBounds(net, flow)
    /\ \A v \in net.nodes : Divergence(net, flow, v) + excess[v] = net.required[v]

\* Prices that make every arc that counts cheap enough, after each augmentation
\* along a path, at each scale and whichever nodes a search did not reach. The
\* solvers check this at run time; it holds also where such a check fails.
PricesHold ==
    phase \notin Refused \cup {"start", "scale"} =>
        /\ alg \in {"potential-dijkstra-ssp", "blocking-primal-dual"} => Priced(flow, price, 1)
        /\ alg \in Scaling => Priced(flow, price, k.scale)
        /\ alg = "bellman-ford-ssp" => ~HasNegativeCycle
        /\ alg \in CostScalers => OptimalUpTo(flow, price, k.fixed, k.scale)

\* A node's current arc passes nothing that could still be used: under cost
\* scaling no falling arc, whatever was relabelled and pushed back since; in a
\* blocking flow at most arcs to nodes from which there is no way on.
PassedArcsStayShut ==
    \A v \in net.nodes : \A i \in 1..k.cursor[v] : \E a \in {net.outgoing[v][i]} :
        /\ phase = "refine" => ~Falling(a)
        /\ phase = "block" /\ LevelArc(a) =>
               /\ Place(To(a)) = 0
               /\ ~(k.level[To(a)] = k.target /\ excess[To(a)] < 0)

\* What every solver keeps on its way.
SolverKeepsFlow == FlowAccounted /\ PricesHold /\ PassedArcsStayShut

\* The least cost of a problem, and whether its lower bounds allow of a cheaper
\* flow of the same divergences.
LeastCost == [g \in {h \in Problems : Feasible[h] # {}} |->
                  Finite!Min({FlowCost(g, f) : f \in Feasible[g]})]
Undercut(g) == \E f \in FlowsWithin(g) :
    /\ \A v \in g.nodes : Divergence(g, f, v) = Divergence(g, g.lower, v)
    /\ FlowCost(g, f) < FlowCost(g, g.lower)

\* A solver that stops has a cheapest flow, before any certificate is computed,
\* also where it only found no more cycle, no more edge out of kilter or an
\* error of one; and refuses only what it must.
OnlyCheapest ==
    /\ phase \in {"certify", "done"} =>
           /\ \A v \in net.nodes : excess[v] = 0
           /\ FlowCost(net, flow) = LeastCost[net]
    /\ phase = "infeasible" <=> phase # "start" /\ net \notin DOMAIN LeastCost
    /\ phase = "unbounded" => Undercut(net)

\* Every solver returns, and none fails on an invariant or has its flow refused
\* by the certificate.
CostSolversReturn == [](phase # "failed") /\ <>(phase \in Ended)
==============================================================================
