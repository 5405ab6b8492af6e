---------------------------- MODULE MaxFlowKernel ----------------------------
(* What the maximum-flow solvers of crates/flow/src/algorithms share: one   *)
(* network, one solver chosen for it, the flow it changes, the point it has *)
(* reached and the working state of its kernel. A step of a solver is about *)
(* one event of its trace.                                                  *)
EXTENDS ResidualNetwork

CONSTANTS Networks,    \* the networks solved, each an IsNetwork record
          Solvers      \* the solvers run on them

ASSUME NetworksAssumption == \A g \in Networks : IsNetwork(g)

VARIABLES net, alg, flow, phase, k

Seqs == INSTANCE SequencesExt

vars == <<net, alg, flow, phase, k>>

NoLabel == -1
NoArc == <<0, "none">>
N == Cardinality(net.nodes)
R(a) == Residual(net, flow, a)
To(a) == ArcTo(net, a)
LiveArcs(v) == Live(net, flow, v)
LastOf(s) == s[Len(s)]

\* Two to the power of x.
Power(x) == LET p[i \in 0..x] == IF i = 0 THEN 1 ELSE 2 * p[i - 1] IN p[x]

\* Every kernel's state at its start. label: a level, a distance label, a
\* width or a height; cursor: arcs of a node already passed; pred: the arc a
\* node was reached by; queue: a queue, a stack or a discharge list; counts:
\* nodes per label; node: the node in work; mark: a remembered label or place;
\* delta: the scale; scans: arcs inspected since the last global relabel.
Kernel(g) ==
    [label |-> [v \in g.nodes |-> NoLabel], cursor |-> [v \in g.nodes |-> 0],
     pred |-> [v \in g.nodes |-> NoArc], queue |-> <<>>, path |-> <<>>,
     excess |-> [v \in g.nodes |-> 0], counts |-> [i \in 0..(2 * Cardinality(g.nodes)) |-> 0],
     node |-> g.source, mark |-> 0, delta |-> 0, scans |-> 0]

\* The flow a solver starts from: zero where no edge has a lower bound, else
\* what the feasibility construction found, here any feasible flow.
InitialFlows(g) ==
    IF \A e \in Edges(g) : g.lower[e] = 0 THEN {[e \in Edges(g) |-> 0]}
    ELSE {f \in [Edges(g) -> 0..Finite!Max({g.capacity[e] : e \in Edges(g)})] :
             WithinBounds(g, f) /\ \A v \in Inner(g) : Divergence(g, f, v) = 0}

Init ==
    /\ net \in Networks
    /\ alg \in Solvers
    /\ flow \in InitialFlows(net)
    /\ phase = "start"
    /\ k = Kernel(net)

Quiet == UNCHANGED <<net, alg>>
Stop(outcome) == phase' = outcome /\ UNCHANGED <<flow, k>>

\* Every solver ends by having its flow certified independently.
Certify ==
    /\ phase = "certify"
    /\ Stop(IF CheckMaxFlow(net, flow) THEN "done" ELSE "failed")
    /\ Quiet

\* How many nodes carry each label after one of them changes.
Recount(counts, old, new) ==
    [i \in DOMAIN counts |-> counts[i] - (IF i = old THEN 1 ELSE 0) + (IF i = new THEN 1 ELSE 0)]

\* The labels a live arc out of a node leads to.
Neighbours(v) == {k.label[To(a)] : a \in LiveArcs(v)}

\* The first arc of a node, from its current one on, along which a search may
\* go: one label up for Dinic's levels, one down for the labels that stand for
\* a distance to the sink. Place is one past the last arc if there is none.
Admissible(v, a) ==
    /\ R(a) > 0
    /\ IF alg = "dinic" THEN k.label[To(a)] = k.label[v] + 1 ELSE k.label[v] = k.label[To(a)] + 1

Start(v) == IF alg = "generic" THEN 0 ELSE k.cursor[v]
Place(v) == LET i == Seqs!SelectInSubSeq(net.outgoing[v], Start(v) + 1, Len(net.outgoing[v]),
                                         LAMBDA a : Admissible(v, a))
            IN IF i = 0 THEN Len(net.outgoing[v]) + 1 ELSE i
HasArc(v) == Place(v) <= Len(net.outgoing[v])

\* Where the path in work ends, and the path one admissible arc longer.
End == IF k.path = <<>> THEN k.node ELSE To(LastOf(k.path))
Longer == [k EXCEPT !.path = Append(@, net.outgoing[End][Place(End)]),
                    !.cursor[End] = Place(End) - 1]

\* Mutant: a retreat does not pass the arc it came by.
ShorterKeepingArc(state) == [state EXCEPT !.path = Seqs!Front(@)]

\* The path without its last arc, which its new end has passed.
Shorter(state) == [state EXCEPT !.path = Seqs!Front(@),
                                !.cursor[ArcFrom(net, LastOf(k.path))] = @ + 1]

\* The distances of a reverse search from the sink that does not enter the
\* blocked nodes; NoLabel where the search does not come.
Closer(far, v) == {far[To(a)] : a \in LiveArcs(v)} \ {NoLabel}
SinkDistance(blocked) ==
    CHOOSE far \in [net.nodes -> NoLabel..(N - 1)] :
        /\ far[net.sink] = 0
        /\ \A v \in net.nodes \ {net.sink} :
               far[v] = IF v \in blocked \/ Closer(far, v) = {} THEN NoLabel
                        ELSE Finite!Min(Closer(far, v)) + 1
==============================================================================
