--------------------------- MODULE AugmentingPaths ---------------------------
(* The maximum-flow solvers that augment along source-sink paths: Edmonds-   *)
(* Karp (max_flow.rs), Ford-Fulkerson with its depth-first, widest-path and  *)
(* capacity-scaling selectors (ford_fulkerson.rs), Dinic (dinic.rs) and the  *)
(* shortest augmenting paths by distance labels, plain and with the gap rule *)
(* (sap.rs).                                                                 *)
EXTENDS MaxFlowKernel

BreadthFirst == {"edmonds-karp", "dinic"}
DepthFirst == {"ford-fulkerson", "capacity-scaling"}
Searching == BreadthFirst \cup DepthFirst \cup {"widest"}
Labelling == {"sap", "isap"}

\* The largest power of two that no residual capacity is below.
LargestPower(x) == CHOOSE p \in {Power(i) : i \in 0..x} : p <= x /\ x < 2 * p

TopScale == LET top == Finite!Max({R(a) : a \in Arcs(net)} \cup {0})
            IN IF top = 0 THEN 0 ELSE LargestPower(top)

\* The source is wider than any arc.
Wide == SumOver(net.capacity, Edges(net)) + 1

\* A search forgets the one before. Capacity scaling starts at its top scale.
BeginSearch ==
    /\ alg \in Searching /\ phase \in {"start", "search"}
    /\ \E delta \in {IF phase = "start" /\ alg = "capacity-scaling" THEN TopScale ELSE k.delta} :
           /\ k' = [Kernel(net) EXCEPT
                  !.delta = delta, !.queue = <<net.source>>,
                  !.label = [v \in net.nodes |->
                      IF alg = "widest" THEN IF v = net.source THEN Wide ELSE 0
                      ELSE IF v = net.source THEN 0 ELSE NoLabel]]
           /\ phase' = IF alg = "capacity-scaling" /\ delta = 0 THEN "certify" ELSE "explore"
    /\ UNCHANGED flow /\ Quiet

\* A breadth-first search takes the node at the head of its queue and reaches
\* every new node a live arc leads to, by the first such arc, in their order.
FoundAt(v, u) == Seqs!SelectInSeq(net.outgoing[v], LAMBDA a : R(a) > 0 /\ To(a) = u)
FirstArc(v, u) == net.outgoing[v][FoundAt(v, u)]
Fresh(v) == {To(a) : a \in LiveArcs(v)} \cap {u \in net.nodes : k.label[u] = NoLabel}
InArcOrder(v, S) == [i \in 1..Cardinality(S) |->
    CHOOSE u \in S : Cardinality({w \in S : FoundAt(v, w) < FoundAt(v, u)}) = i - 1]

\* Edmonds-Karp stops as soon as it reaches the sink, Dinic levels every node.
ExploreBreadth ==
    /\ alg \in BreadthFirst /\ phase = "explore" /\ k.queue # <<>>
    /\ \E v \in {Head(k.queue)} : \E fresh \in {Fresh(v)} :
           /\ k' = [k EXCEPT
                  !.label = [u \in net.nodes |-> IF u \in fresh THEN @[v] + 1 ELSE @[u]],
                  !.pred = [u \in net.nodes |-> IF u \in fresh THEN FirstArc(v, u) ELSE @[u]],
                  !.queue = Tail(@) \o InArcOrder(v, fresh)]
           /\ phase' = IF alg = "edmonds-karp" /\ net.sink \in fresh THEN "augment" ELSE phase
    /\ UNCHANGED flow /\ Quiet

\* A depth-first search follows the next arc of the node on its stack's top
\* that is wide enough and leads to a new node, else it leaves that node.
Least == IF alg = "capacity-scaling" THEN k.delta ELSE 1
\* Mutant: the search starts behind a node's first arc.
NextPlaceSkipping(v) == Seqs!SelectInSubSeq(net.outgoing[v], k.cursor[v] + 2, Len(net.outgoing[v]),
                                            LAMBDA a : R(a) >= Least /\ k.label[To(a)] = NoLabel)

NextPlace(v) == Seqs!SelectInSubSeq(net.outgoing[v], k.cursor[v] + 1, Len(net.outgoing[v]),
                                    LAMBDA a : R(a) >= Least /\ k.label[To(a)] = NoLabel)

ExploreDepth ==
    /\ alg \in DepthFirst /\ phase = "explore" /\ k.queue # <<>>
    /\ \E v \in {LastOf(k.queue)} : \E i \in {NextPlace(v)} :
           IF i = 0
           THEN k' = [k EXCEPT !.queue = Seqs!Front(@)] /\ UNCHANGED phase
           ELSE \E a \in {net.outgoing[v][i]} :
                    /\ k' = [k EXCEPT !.label[To(a)] = k.label[v] + 1, !.pred[To(a)] = a,
                                      !.cursor[v] = i, !.queue = Append(@, To(a))]
                    /\ phase' = IF To(a) = net.sink THEN "augment" ELSE phase
    /\ UNCHANGED flow /\ Quiet

\* The widest-path search settles the widest open node, the lowest of several,
\* and widens the nodes its arcs lead to; a settled node keeps cursor one.
Open == {v \in net.nodes : k.cursor[v] = 0 /\ k.label[v] > 0}
Widest == CHOOSE v \in Open : \A u \in Open :
              k.label[u] < k.label[v] \/ (k.label[u] = k.label[v] /\ v <= u)
Width(v, a) == Finite!Min({k.label[v], R(a)})
Widened(v, u) == Finite!Max({k.label[u]} \cup {Width(v, a) : a \in {b \in LiveArcs(v) : To(b) = u}})
WideArc(v, u) == net.outgoing[v][Seqs!SelectInSeq(net.outgoing[v], LAMBDA a :
                     R(a) > 0 /\ To(a) = u /\ Width(v, a) = Widened(v, u))]

SettleWidest ==
    /\ alg = "widest" /\ phase = "explore" /\ Open # {}
    /\ \E v \in {Widest} :
           IF v = net.sink THEN phase' = "augment" /\ UNCHANGED k
           ELSE /\ \E wider \in {{u \in net.nodes : u # v /\ k.cursor[u] = 0 /\ Widened(v, u) > k.label[u]}} :
                       k' = [k EXCEPT !.cursor[v] = 1,
                           !.label = [u \in net.nodes |-> IF u \in wider THEN Widened(v, u) ELSE @[u]],
                           !.pred = [u \in net.nodes |-> IF u \in wider THEN WideArc(v, u) ELSE @[u]]]
                /\ UNCHANGED phase
    /\ UNCHANGED flow /\ Quiet

\* Nothing is left to explore: Dinic's levels are complete, capacity scaling
\* goes on at half its scale, and the others are at a maximum.
EndSearch ==
    /\ alg \in Searching /\ phase = "explore"
    /\ IF alg = "widest" THEN Open = {} ELSE k.queue = <<>>
    /\ k' = IF alg = "capacity-scaling" THEN [k EXCEPT !.delta = @ \div 2] ELSE k
    /\ phase' = CASE alg = "dinic" /\ k.label[net.sink] # NoLabel -> "level"
                  [] alg = "capacity-scaling" /\ k.delta > 1 -> "search"
                  [] OTHER -> "certify"
    /\ UNCHANGED flow /\ Quiet

\* reconstruct_path: the arcs that reached the nodes, back from the sink.
PredPath ==
    LET at[i \in 0..N] == IF i = 0 THEN net.sink
                          ELSE LET v == at[i - 1]
                               IN IF v = net.source THEN v ELSE ArcFrom(net, k.pred[v])
        length == CHOOSE i \in 0..N : at[i] = net.source /\ \A j \in 0..(i - 1) : at[j] # net.source
    IN [i \in 1..length |-> k.pred[at[length - i]]]

AugmentSearched ==
    /\ alg \in Searching /\ phase = "augment"
    /\ \E path \in {PredPath} :
           flow' = Augment(net, flow, path, Bottleneck(net, flow, path))
    /\ phase' = "search"
    /\ UNCHANGED k /\ Quiet

\* Dinic's blocking flow: paths of level arcs from the source, every node
\* going on from its current arc, until the source has no arc left.
AdvanceLevel ==
    /\ alg = "dinic" /\ phase = "level" /\ End # net.sink /\ HasArc(End)
    /\ k' = Longer
    /\ UNCHANGED <<flow, phase>> /\ Quiet

RetreatLevel ==
    /\ alg = "dinic" /\ phase = "level" /\ End # net.sink /\ ~HasArc(End)
    /\ IF k.path = <<>> THEN phase' = "search" /\ UNCHANGED k
       ELSE k' = Shorter([k EXCEPT !.cursor[End] = Place(End) - 1]) /\ UNCHANGED phase
    /\ UNCHANGED flow /\ Quiet

AugmentLevel ==
    /\ alg = "dinic" /\ phase = "level" /\ End = net.sink
    /\ flow' = Augment(net, flow, k.path, Bottleneck(net, flow, k.path))
    /\ k' = [k EXCEPT !.path = <<>>]
    /\ UNCHANGED phase /\ Quiet

\* Distance labels are zero, or the distances of a reverse search in which a
\* node it does not reach has the label n.
InitializeLabels ==
    /\ alg \in Labelling /\ phase = "start"
    /\ \E far \in {IF alg = "sap" THEN [v \in net.nodes |-> 0] ELSE SinkDistance({})} :
       \E label \in {[v \in net.nodes |-> IF far[v] = NoLabel THEN N ELSE far[v]]} :
           /\ k' = [k EXCEPT !.label = label,
                  !.counts = [i \in DOMAIN @ |-> Cardinality({v \in net.nodes : label[v] = i})]]
           /\ phase' = IF label[net.source] < N THEN "label" ELSE "certify"
    /\ UNCHANGED flow /\ Quiet

AdvanceLabel ==
    /\ alg \in Labelling /\ phase = "label" /\ End # net.sink /\ HasArc(End)
    /\ k' = Longer
    /\ UNCHANGED <<flow, phase>> /\ Quiet

\* The path keeps what comes before its first saturated arc.
AugmentLabel ==
    /\ alg \in Labelling /\ phase = "label" /\ End = net.sink
    /\ \E amount \in {Bottleneck(net, flow, k.path)} :
       \E i \in {Seqs!SelectInSeq(k.path, LAMBDA a : R(a) = amount)} :
           /\ flow' = Augment(net, flow, k.path, amount)
           /\ k' = [k EXCEPT !.path = SubSeq(@, 1, i - 1),
                             !.cursor[ArcFrom(net, k.path[i])] = @ + 1]
    /\ UNCHANGED phase /\ Quiet

\* The end of the path is relabelled and leaves it. A label that no node has
\* any more cuts the source off from the sink.
NewLabel(v) == Finite!Min({N} \cup {d + 1 : d \in Neighbours(v)})

RelabelAndRetreat ==
    /\ alg \in Labelling /\ phase = "label" /\ End # net.sink /\ ~HasArc(End)
    /\ \E new \in {NewLabel(End)} : \E old \in {k.label[End]} :
       \E counts \in {Recount(k.counts, old, new)} :
       \E up \in {[k EXCEPT !.label[End] = new, !.cursor[End] = 0, !.counts = counts]} :
           IF new <= old THEN Stop("failed")
           ELSE /\ UNCHANGED flow
                /\ IF alg = "isap" /\ old < N /\ counts[old] = 0
                   THEN /\ k' = [up EXCEPT !.label[net.source] = N,
                                           !.counts = Recount(@, up.label[net.source], N)]
                        /\ phase' = "certify"
                   ELSE IF k.path = <<>>
                   THEN k' = up /\ phase' = IF new < N THEN phase ELSE "certify"
                   ELSE k' = Shorter(up) /\ UNCHANGED phase
    /\ Quiet

AugmentingPathsStep ==
    \/ BeginSearch \/ ExploreBreadth \/ ExploreDepth \/ SettleWidest \/ EndSearch
    \/ AugmentSearched \/ AdvanceLevel \/ RetreatLevel \/ AugmentLevel
    \/ InitializeLabels \/ AdvanceLabel \/ AugmentLabel \/ RelabelAndRetreat
==============================================================================
