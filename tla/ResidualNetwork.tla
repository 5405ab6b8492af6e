--------------------------- MODULE ResidualNetwork ---------------------------
(* The immutable network of crates/flow/src/model.rs and the residual arcs  *)
(* of crates/flow/src/residual.rs that every flow algorithm works on. Nodes *)
(* and edges are their dense canonical indices; a residual arc is an edge   *)
(* with a direction, and the arcs of one edge sort forward before reverse.  *)
EXTENDS Integers, Sequences, FiniteSets, Functions

Finite == INSTANCE FiniteSetsExt

Edges(g) == DOMAIN g.from
Arcs(g) == Edges(g) \X {"forward", "reverse"}
Terminals(g) == {g.source, g.sink}
Inner(g) == g.nodes \ Terminals(g)

ArcFrom(g, a) == IF a[2] = "forward" THEN g.from[a[1]] ELSE g.to[a[1]]
ArcTo(g, a) == IF a[2] = "forward" THEN g.to[a[1]] ELSE g.from[a[1]]

\* All arcs in the order of their stable identities.
ArcOrder(m) == [i \in 1..(2 * m) |->
                    <<(i + 1) \div 2, IF i % 2 = 1 THEN "forward" ELSE "reverse">>]

\* A network of n nodes; outgoing[v] lists the arcs that leave v, whatever
\* their capacity, in stable order, as the kernels precompute it.
Network(n, from, to, lower, capacity, cost, source, sink) ==
    [nodes |-> 1..n, from |-> from, to |-> to, lower |-> lower,
     capacity |-> capacity, cost |-> cost, source |-> source, sink |-> sink,
     outgoing |-> [v \in 1..n |-> SelectSeq(ArcOrder(Len(from)), LAMBDA a :
                    (IF a[2] = "forward" THEN from[a[1]] ELSE to[a[1]]) = v)]]

\* What FlowNetwork::new admits, and what the terminals must be.
IsNetwork(g) ==
    /\ IsFiniteSet(g.nodes) /\ \A v \in g.nodes : v \in Nat /\ v > 0
    /\ IsFiniteSet(Edges(g))
    /\ g.source \in g.nodes /\ g.sink \in g.nodes /\ g.source # g.sink
    /\ g.from \in [Edges(g) -> g.nodes] /\ g.to \in [Edges(g) -> g.nodes]
    /\ g.lower \in [Edges(g) -> Nat] /\ g.capacity \in [Edges(g) -> Nat]
    /\ \A e \in Edges(g) : g.lower[e] <= g.capacity[e]
    /\ g.outgoing \in [g.nodes -> Seq(Arcs(g))]
    /\ \A v \in g.nodes :
           {g.outgoing[v][i] : i \in DOMAIN g.outgoing[v]} = {a \in Arcs(g) : ArcFrom(g, a) = v}

\* The amount one more unit of flow can use the arc for.
Residual(g, fl, a) == IF a[2] = "forward" THEN g.capacity[a[1]] - fl[a[1]]
                      ELSE fl[a[1]] - g.lower[a[1]]

ArcCost(g, a) == IF a[2] = "forward" THEN g.cost[a[1]] ELSE -g.cost[a[1]]

\* The arcs with capacity left that leave v.
Live(g, fl, v) == {a \in Arcs(g) : ArcFrom(g, a) = v /\ Residual(g, fl, a) > 0}

Uses(path, a) == Cardinality({i \in DOMAIN path : path[i] = a})

\* Every arc of the path carries the amount; each use counts, as the loop
\* over the path makes it. The checks look at one arc at a time.
Augment(g, fl, path, amount) ==
    [e \in Edges(g) |-> fl[e] + amount * Uses(path, <<e, "forward">>)
                              - amount * Uses(path, <<e, "reverse">>)]

AugmentAccepts(g, fl, path, amount) ==
    /\ amount > 0 /\ path # <<>>
    /\ \A i \in DOMAIN path : Residual(g, fl, path[i]) >= amount
    /\ \A i \in 1..(Len(path) - 1) : ArcTo(g, path[i]) = ArcFrom(g, path[i + 1])

\* Mutant: the last arc of the path decides.
LastResidual(g, fl, path) == Residual(g, fl, path[Len(path)])

Bottleneck(g, fl, path) == Finite!Min({Residual(g, fl, path[i]) : i \in DOMAIN path})

WithinBounds(g, fl) == \A e \in Edges(g) : fl[e] \in g.lower[e]..g.capacity[e]

SumOver(f, S) == FoldFunctionOnSet(+, 0, f, S)

\* Outgoing minus incoming flow.
Divergence(g, fl, v) == SumOver(fl, {e \in Edges(g) : g.from[e] = v})
                            - SumOver(fl, {e \in Edges(g) : g.to[e] = v})

\* The nodes the live arcs reach from a node: those in every closed set.
Closed(g, fl, S) == \A a \in Arcs(g) :
    ArcFrom(g, a) \in S /\ Residual(g, fl, a) > 0 => ArcTo(g, a) \in S

Reachable(g, fl, v) ==
    LET closed == {S \in SUBSET g.nodes : v \in S /\ Closed(g, fl, S)}
    IN {u \in g.nodes : \A S \in closed : u \in S}

\* What leaves a set of nodes at most, less what must enter it.
CutBound(g, S) ==
    SumOver(g.capacity, {e \in Edges(g) : g.from[e] \in S /\ g.to[e] \notin S})
        - SumOver(g.lower, {e \in Edges(g) : g.from[e] \notin S /\ g.to[e] \in S})

\* The solver-independent certificate: a feasible flow whose residual cut has
\* the flow's value.
CheckMaxFlow(g, fl) ==
    LET S == Reachable(g, fl, g.source)
    IN /\ WithinBounds(g, fl)
       /\ \A v \in Inner(g) : Divergence(g, fl, v) = 0
       /\ Divergence(g, fl, g.sink) = -Divergence(g, fl, g.source)
       /\ g.sink \notin S
       /\ CutBound(g, S) = Divergence(g, fl, g.source)
==============================================================================
