---------------------------- MODULE MinCostKernel ----------------------------
(* What the minimum-cost flow solvers of crates/flow/src/algorithms share:   *)
(* one problem, one solver chosen for it, the flow it changes, the amount    *)
(* every node has still to send (or, negative, to receive), the prices of    *)
(* the nodes and the working state of its kernel. A search only reads; it is *)
(* one operator and part of the step that uses what it found.                *)
EXTENDS ResidualNetwork

CONSTANTS Problems,    \* networks with the divergence required of every node
          Solvers      \* the solvers run on them

\* Nodes and edges are their dense canonical indices.
ASSUME ProblemsAssumption == \A g \in Problems :
    /\ IsNetwork(g)
    /\ g.nodes = 1..Cardinality(g.nodes)
    /\ Edges(g) = 1..Cardinality(Edges(g))
    /\ g.cost \in [Edges(g) -> Int]
    /\ g.required \in [g.nodes -> Int]

VARIABLES net, alg, flow, excess, price, phase, k

Seqs == INSTANCE SequencesExt

vars == <<net, alg, flow, excess, price, phase, k>>

Successive == {"bellman-ford-ssp", "potential-dijkstra-ssp", "blocking-primal-dual",
               "capacity-scaling", "excess-scaling"}
Improving == {"cycle-canceling", "mean-cycle-canceling", "out-of-kilter"}
CostScalers == {"cost-scaling", "augment-relabel", "partial-augment-relabel",
                "price-refinement", "arc-fixing"}

N == Cardinality(net.nodes)
R(a) == Residual(net, flow, a)
From(a) == ArcFrom(net, a)
To(a) == ArcTo(net, a)

\* Every kernel's state at its start. scale: the least residual capacity that
\* counts, or the cost scale; node, path: a search in work; cursor: arcs of a
\* node already passed; level: its distance from a surplus; target: the level
\* searched for, or the edge being brought into kilter; sent: augmentations of
\* a phase; queue: active nodes; fixed: edges left alone.
Kernel(g) ==
    [scale |-> 1, node |-> 0, path |-> <<>>, cursor |-> [v \in g.nodes |-> 0],
     level |-> <<>>, target |-> 0, sent |-> 0, queue |-> <<>>, fixed |-> {}]

\* Flow within the bounds that leaves every node as much as required.
FlowsWithin(g) == {f \in [Edges(g) -> 0..Finite!Max({0} \cup {g.capacity[e] : e \in Edges(g)})] :
                       WithinBounds(g, f)}
Feasible == [g \in Problems |-> {f \in FlowsWithin(g) :
                                   \A v \in g.nodes : Divergence(g, f, v) = g.required[v]}]

FlowCost(g, f) == SumOver([e \in Edges(g) |-> g.cost[e] * f[e]], Edges(g))

Init ==
    /\ net \in Problems
    /\ alg \in Solvers
    /\ flow = net.lower
    /\ excess = [v \in net.nodes |-> net.required[v] - Divergence(net, flow, v)]
    /\ price = [v \in net.nodes |-> 0]
    /\ phase = "start"
    /\ k = Kernel(net)

Quiet == UNCHANGED <<net, alg>>
Stop(outcome) == phase' = outcome /\ UNCHANGED <<flow, excess, price, k>>

\* What is left to send after an amount went from one node to another.
Moved(x, from, to, amount) ==
    [v \in DOMAIN x |-> x[v] - (IF v = from THEN amount ELSE 0) + (IF v = to THEN amount ELSE 0)]

\* The cost of an arc that its prices leave. Cost scaling multiplies costs, so
\* that an optimum up to one is an optimum, and counts prices the other way.
ReducedCost(p, a) ==
    IF alg \in CostScalers
    THEN ArcCost(net, a) * (N + 1) - p[From(a)] + p[To(a)]
    ELSE ArcCost(net, a) + p[From(a)] - p[To(a)]

\* No arc of at least that residual capacity has a negative reduced cost.
Priced(fl, p, width) ==
    \A a \in Arcs(net) : Residual(net, fl, a) >= width => ReducedCost(p, a) >= 0

\* An operator of a value that TLC is to compute only once; a fold over a
\* sequence and repetition that do so with what they have so far.
With(x, Op(_)) == CHOOSE y \in {Op(z) : z \in {x}} : TRUE
Folded(Op(_, _), x, s) ==
    Seqs!FoldLeft(LAMBDA y, a : With(y, LAMBDA u : With(a, LAMBDA b : Op(u, b))), x, s)
Repeat(Op(_), n, x) == Folded(LAMBDA y, i : Op(y), x, [i \in 1..n |-> i])

\* Arcs with a residual capacity of at least width and a negative reduced cost
\* are filled, edge by edge and forward before reverse.
SaturateArc(width, skipped, x, a) ==
    IF a[1] \in skipped \/ Residual(net, x.flow, a) < width \/ ReducedCost(price, a) >= 0
    THEN x
    ELSE LET all == Residual(net, x.flow, a)
         IN [flow |-> Augment(net, x.flow, <<a>>, all),
             excess |-> Moved(x.excess, From(a), To(a), all)]

Saturated(width, skipped) == Folded(LAMBDA x, a : SaturateArc(width, skipped, x, a),
    [flow |-> flow, excess |-> excess], ArcOrder(Cardinality(Edges(net))))

\* A search: the nodes reached so far with their distances, the arc each was
\* reached by last, and the node improved last.
Search(dist) == [dist |-> dist, by |-> <<>>, last |-> 0]

Put(f, x, d) == [y \in DOMAIN f \cup {x} |-> IF y = x THEN d ELSE f[y]]
Improve(s, a, d) ==
    IF To(a) \in DOMAIN s.dist /\ s.dist[To(a)] <= d THEN s
    ELSE [s EXCEPT !.dist = Put(@, To(a), d), !.by = Put(@, To(a), a), !.last = To(a)]

\* The path by which a search came to a node from where it started.
PathTo(s, roots, v) ==
    Repeat(LAMBDA path : LET u == IF path = <<>> THEN v ELSE From(path[1])
                         IN IF u \in roots THEN path ELSE <<s.by[u]>> \o path, N, <<>>)

\* Bellman-Ford passes over the live arcs, node by node.
NodeArcs == Seqs!FlattenSeq([v \in 1..N |-> net.outgoing[v]])
Pass(s) == Folded(
    LAMBDA t, a : IF R(a) > 0 /\ From(a) \in DOMAIN t.dist
                  THEN Improve(t, a, t.dist[From(a)] + ArcCost(net, a)) ELSE t,
    [s EXCEPT !.last = 0], NodeArcs)

\* From zero everywhere, n passes end without improvement if and only if no
\* residual cycle has a negative cost.
ZeroPasses == Repeat(Pass, N, Search([v \in net.nodes |-> 0]))
HasNegativeCycle == ZeroPasses.last # 0

\* The certificate rebuilds potentials and checks every live arc against them;
\* they are integers by their type.
DualFeasible(p) ==
    /\ p \in [net.nodes -> Int]
    /\ \A a \in Arcs(net) : R(a) > 0 => ArcCost(net, a) + p[From(a)] - p[To(a)] >= 0

\* The solver-independent certificate: a feasible flow without a negative
\* residual cycle.
CheckMinCostFlow ==
    /\ WithinBounds(net, flow)
    /\ \A v \in net.nodes : Divergence(net, flow, v) = net.required[v]
    /\ ~HasNegativeCycle
    /\ DualFeasible(ZeroPasses.dist)

\* Every solver ends by having its flow certified independently.
Certify ==
    /\ phase = "certify"
    /\ Stop(IF CheckMinCostFlow THEN "done" ELSE "failed")
    /\ Quiet

\* The arcs with a residual capacity, and a breadth-first search over some of them:
\* new nodes in the order of their discovery, at a distance of one arc more each.
\* Several roots come in any order: what is used of their search are the distances.
Usable == {a \in Arcs(net) : R(a) > 0}
Reach(roots, arcs) ==
    LET Expand(s) ==
            IF s.next > Len(s.order) THEN s
            ELSE Folded(
                LAMBDA t, a : IF a \in arcs /\ To(a) \notin DOMAIN t.dist
                              THEN [t EXCEPT !.order = Append(@, To(a)), !.by = Put(@, To(a), a),
                                             !.dist = Put(@, To(a), @[From(a)] + 1)]
                              ELSE t,
                [s EXCEPT !.next = @ + 1], net.outgoing[s.order[s.next]])
    IN Repeat(Expand, N, [order |-> Seqs!SetToSeq(roots), next |-> 1,
                          dist |-> [v \in roots |-> 0], by |-> <<>>])
==============================================================================
