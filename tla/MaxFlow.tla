------------------------------- MODULE MaxFlow -------------------------------
(* Every maximum-flow solver of the two families on every network: what they *)
(* keep on their way and what they end with.                                 *)
EXTENDS AugmentingPaths, PushRelabel

\* The catalogue's solvers of the two families.
ASSUME SolversAssumption == Solvers \subseteq Searching \cup Labelling \cup Presets

Next == AugmentingPathsStep \/ PushRelabelStep \/ Certify

\* A solver is a loop that runs until it returns.
Spec == Init /\ [][Next]_vars
FairSpec == Spec /\ WF_vars(Next)

Started == phase # "start"

\* No step leaves the bounds of an edge, and no unit of flow is lost: a path
\* solver keeps a feasible flow after every augmentation, a preflow solver's
\* excesses are exactly what its flow leaves behind, never negative and, under
\* excess scaling, never more than the scale.
FlowOrPreflow ==
    /\ WithinBounds(net, flow)
    /\ IF alg \in Presets
       THEN Started => \A v \in net.nodes :
                /\ k.excess[v] = -Divergence(net, flow, v)
                /\ v \in Inner(net) => k.excess[v] >= 0
                /\ alg = "excess-scaling" /\ phase = "scale" /\ v \in Inner(net) => k.excess[v] <= k.delta
       ELSE \A v \in Inner(net) : Divergence(net, flow, v) = 0

\* Distance labels and heights stay lower bounds on the distance to the sink:
\* no live arc leads down by more than one, whatever is pushed, relabelled or
\* jumped over in between; and Dinic's levels stay upper ones on the distance
\* from the source while the flow of a phase changes.
ValidLabels ==
    /\ (alg \in Presets /\ Started) \/ phase = "label" =>
           /\ k.label[net.sink] = 0
           /\ \A a \in Arcs(net) : R(a) > 0 => k.label[ArcFrom(net, a)] <= k.label[To(a)] + 1
           /\ \A i \in DOMAIN k.counts :
                  k.counts[i] = Cardinality({v \in net.nodes : k.label[v] = i})
    /\ phase = "level" =>
           \A a \in Arcs(net) : R(a) > 0 /\ k.label[ArcFrom(net, a)] # NoLabel =>
               k.label[To(a)] \in 0..(k.label[ArcFrom(net, a)] + 1)

\* A search that resumes at a node's current arc misses nothing: no arc it has
\* passed has become admissible again, although other nodes were relabelled
\* and flow was pushed both ways since it passed them. Dinic also passes arcs
\* that lead to nodes without a way on.
CurrentArcsMissNothing ==
    phase \in {"level", "label", "select", "discharge", "scale", "path"} /\ alg # "generic" =>
        \A v \in net.nodes \ {net.sink} : \A i \in 1..k.cursor[v] :
            \/ ~Admissible(v, net.outgoing[v][i])
            \/ alg = "dinic" /\ To(net.outgoing[v][i]) # net.sink
                             /\ ~HasArc(To(net.outgoing[v][i]))

\* Value of the flow, and the least of all cuts.
Value == Divergence(net, flow, net.source)
LeastCut == Finite!Min({CutBound(net, S) : S \in {T \in SUBSET net.nodes :
                                net.source \in T /\ net.sink \notin T}})

\* A solver that stops has a maximum flow, also where it stops on a gap in the
\* labels, on an exhausted scale or on a label of n: the flow's value is that
\* of the least of all cuts, before any certificate is computed.
OnlyMaximum == phase \in {"certify", "done"} => Value = LeastCut

\* Every solver returns, and none fails on an invariant or has its flow refused
\* by the certificate. Excepted are the partial augment preset, which fails where
\* its path enters a node without a live arc, and the global relabel preset,
\* which may run for ever.
SolversReturn ==
    /\ alg # "partial-augment" => [](phase # "failed")
    /\ alg # "global-relabel" => <>(phase \in {"done", "failed"})

\* catalog.rs:1190: global relabelling "does not change the generic
\* worst-case bound".
GlobalRelabelReturns == <>(phase = "done")
==============================================================================
