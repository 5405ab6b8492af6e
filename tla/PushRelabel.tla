----------------------------- MODULE PushRelabel -----------------------------
(* The nine preflow push-relabel presets of push_relabel.rs. They share the *)
(* preflow, the heights and the relabelling; they differ in which active    *)
(* node comes next, in how far a push goes and in when heights jump.        *)
EXTENDS MaxFlowKernel

CONSTANT PathLimit     \* PARTIAL_AUGMENT_RELABEL_PATH_LENGTH

\* The code's limit is four arcs; a path without an arc would carry nothing.
ASSUME PathLimitAssumption == PathLimit \in Nat \ {0}

Presets == {"generic", "current-arc", "fifo", "highest-label", "relabel-to-front",
            "global-relabel", "gap-relabel", "excess-scaling", "partial-augment"}
Running == alg \in Presets
Active(v) == v \in Inner(net) /\ k.excess[v] > 0

\* The node with the least key, the first of those with the same key.
First(S, key) == CHOOSE v \in S : \A u \in S : key[v] < key[u] \/ (key[v] = key[u] /\ v <= u)

\* initial_excess_scale: the least power of two no excess is above.
Scale(excess) ==
    LET top == Finite!Max({excess[v] : v \in Inner(net)} \cup {0})
    IN IF top = 0 THEN 0 ELSE Power(CHOOSE i \in 0..top : /\ Power(i) >= top
                                                          /\ \A j \in 0..(i - 1) : Power(j) < top)

\* The nodes of a set from the lowest up.
InOrder(S) == [i \in 1..Cardinality(S) |-> CHOOSE v \in S : Cardinality({u \in S : u < v}) = i - 1]

\* initialize_preflow: every live arc out of the source is saturated.
Saturated(v, fl) ==
    [e \in Edges(net) |->
        IF net.from[e] = v /\ net.to[e] # v THEN net.capacity[e]
        ELSE IF net.to[e] = v /\ net.from[e] # v THEN net.lower[e]
        ELSE fl[e]]

\* ActiveScheduler::new of each policy.
Scheduled(excess) == CASE alg = "fifo" -> InOrder({v \in Inner(net) : excess[v] > 0})
                       [] alg = "relabel-to-front" -> InOrder(Inner(net))
                       [] OTHER -> <<>>

InitializePreflow ==
    /\ Running /\ phase = "start"
    /\ \E fl \in {Saturated(net.source, flow)} :
       \E excess \in {[v \in net.nodes |-> -Divergence(net, fl, v)]} :
       \E delta \in {IF alg = "excess-scaling" THEN Scale(excess) ELSE 0} :
           /\ flow' = fl
           /\ k' = [k EXCEPT !.excess = excess, !.delta = delta,
                  !.label = [v \in net.nodes |-> IF v = net.source THEN N ELSE 0],
                  !.counts = [i \in DOMAIN k.counts |->
                      IF i = 0 THEN N - 1 ELSE IF i = N THEN 1 ELSE 0],
                  !.queue = Scheduled(excess)]
           /\ phase' = CASE alg = "global-relabel" -> "global"
                         [] alg = "excess-scaling" -> IF delta = 0 THEN "finish" ELSE "scale"
                         [] OTHER -> "select"
    /\ Quiet

\* ActiveScheduler::next of each policy; a queue or a list is left behind the
\* node it yields.
Selected ==
    LET active == {v \in net.nodes : Active(v)}
        at == Seqs!SelectInSubSeq(k.queue, k.mark + 1, Len(k.queue), Active)
    IN IF active = {} THEN [node |-> 0, mark |-> k.mark, queue |-> k.queue]
       ELSE CASE alg \in {"generic", "current-arc"} ->
                [node |-> Finite!Min(active), mark |-> 0, queue |-> <<>>]
         [] alg = "fifo" ->
                LET i == Seqs!SelectInSeq(k.queue, Active)
                IN [node |-> IF i = 0 THEN 0 ELSE k.queue[i], mark |-> 0,
                    queue |-> IF i = 0 THEN <<>> ELSE SubSeq(k.queue, i + 1, Len(k.queue))]
         [] alg = "relabel-to-front" ->
                [node |-> IF at = 0 THEN 0 ELSE k.queue[at],
                 mark |-> IF at = 0 THEN Len(k.queue) ELSE at, queue |-> k.queue]
         [] OTHER -> [node |-> First(active, [v \in active |-> -k.label[v]]),
                      mark |-> 0, queue |-> <<>>]

Select ==
    /\ Running /\ phase = "select"
    /\ \E next \in {Selected} :
           /\ k' = IF next.node = 0 THEN k
                   ELSE [k EXCEPT !.node = next.node, !.mark = next.mark, !.path = <<>>,
                                  !.queue = next.queue, !.delta = k.label[next.node]]
           /\ phase' = IF next.node = 0 THEN "finish"
                       ELSE IF alg = "partial-augment" THEN "path" ELSE "discharge"
    /\ UNCHANGED flow /\ Quiet

\* The generic policy searches from the first arc every time.
Kept(v, i) == IF alg = "generic" THEN k.cursor[v] ELSE i

\* The scans of a search from the current arc, as many as the interval counts.
Scans(more) == IF alg = "global-relabel"
               THEN Finite!Min({Cardinality(Edges(net)), k.scans + more}) ELSE 0
Searched(v, i) == Cardinality({j \in (Start(v) + 1)..i :
                                j <= Len(net.outgoing[v]) /\ R(net.outgoing[v][j]) > 0})

\* The amount leaves v by the arc a at place i. The search keeps its place; a
\* saturating push leaves it behind that arc.
Pushed(v, i, a, amount) ==
    /\ flow' = Augment(net, flow, <<a>>, amount)
    /\ k' = [k EXCEPT
           !.excess = [u \in net.nodes |->
               @[u] - (IF u = v THEN amount ELSE 0) + (IF u = To(a) THEN amount ELSE 0)],
           !.cursor[v] = Kept(v, IF amount = R(a) THEN i ELSE i - 1),
           !.scans = Scans(Searched(v, i)),
           !.queue = IF alg = "fifo" /\ To(a) \in Inner(net) /\ k.excess[To(a)] = 0
                        /\ To(a) \notin {@[j] : j \in DOMAIN @}
                     THEN Append(@, To(a)) ELSE @]

Push ==
    /\ Running /\ phase = "discharge" /\ k.excess[k.node] > 0 /\ HasArc(k.node)
    /\ \E i \in {Place(k.node)} : \E a \in {net.outgoing[k.node][i]} :
           Pushed(k.node, i, a, Finite!Min({k.excess[k.node], R(a)}))
    /\ UNCHANGED phase /\ Quiet

\* Mutant: one above the highest node a live arc leads to.
OverHighest(v) == IF Neighbours(v) = {} THEN 2 * N ELSE Finite!Max(Neighbours(v)) + 1

\* relabel_height: one above the lowest node a live arc leads to; an error
\* without one, without a rise or past the ceiling of 2n.
NewHeight(v) == IF Neighbours(v) = {} THEN 2 * N ELSE Finite!Min(Neighbours(v)) + 1
MayRelabel(v, h) == h > k.label[v] /\ h < 2 * N

\* maybe_gap_relabel: the level the node leaves for h is empty now, so the
\* nodes above it and below n cannot reach the sink any more.
Cut(v, h) ==
    IF alg = "gap-relabel" /\ k.label[v] < N /\ k.counts[k.label[v]] = 1
    THEN {u \in Inner(net) : LET at == IF u = v THEN h ELSE k.label[u]
                             IN at > k.label[v] /\ at < N}
    ELSE {}

\* Mutant: a relabelled node keeps its current arc.
RaisedKeepingArc(v, h, up) ==
    [k EXCEPT !.label = [u \in net.nodes |-> IF u \in up THEN N + 1 ELSE IF u = v THEN h ELSE @[u]],
              !.counts = [i \in DOMAIN @ |-> @[i]
                  - Cardinality({u \in up \cup {v} : k.label[u] = i})
                  + (IF i = N + 1 THEN Cardinality(up) ELSE 0)
                  + (IF i = h /\ v \notin up THEN 1 ELSE 0)],
              !.scans = Scans(Searched(v, Len(net.outgoing[v])) + Cardinality(LiveArcs(v)))]

Raised(v, h, up) ==
    [k EXCEPT !.label = [u \in net.nodes |-> IF u \in up THEN N + 1 ELSE IF u = v THEN h ELSE @[u]],
              !.cursor = [u \in net.nodes |-> IF u \in up \cup {v} THEN 0 ELSE @[u]],
              !.counts = [i \in DOMAIN @ |-> @[i]
                  - Cardinality({u \in up \cup {v} : k.label[u] = i})
                  + (IF i = N + 1 THEN Cardinality(up) ELSE 0)
                  + (IF i = h /\ v \notin up THEN 1 ELSE 0)],
              !.scans = Scans(Searched(v, Len(net.outgoing[v])) + Cardinality(LiveArcs(v)))]

\* A node without an admissible arc is relabelled, or the solver gives up.
Rise(v) ==
    \E h \in {NewHeight(v)} :
        IF ~MayRelabel(v, h) THEN Stop("failed")
        ELSE /\ \E up \in {Cut(v, h)} : k' = Raised(v, h, up)
             /\ UNCHANGED <<flow, phase>>

Relabel ==
    /\ Running /\ phase = "discharge" /\ k.excess[k.node] > 0 /\ ~HasArc(k.node)
    /\ Rise(k.node)
    /\ Quiet

\* The end of a discharge. A node of the discharge list that rose moves to its
\* front; enough scans call for a global relabel.
EndDischarge ==
    LET v == k.node
        rose == alg = "relabel-to-front" /\ k.label[v] # k.delta
    IN /\ Running /\ phase = "discharge" /\ k.excess[v] = 0
       /\ k' = IF rose THEN [k EXCEPT !.queue = <<v>> \o Seqs!RemoveAt(@, k.mark), !.mark = 1]
               ELSE k
       /\ phase' = IF alg = "global-relabel" /\ k.scans >= Cardinality(Edges(net))
                   THEN "global" ELSE "select"
       /\ UNCHANGED flow /\ Quiet

GlobalRelabel ==
    /\ Running /\ phase = "global"
    /\ \E far \in {SinkDistance({net.source})} :
       \E label \in {[v \in net.nodes |-> IF v = net.source THEN N
                                          ELSE IF far[v] = NoLabel THEN N + 1 ELSE far[v]]} :
           k' = [k EXCEPT !.label = label, !.cursor = [v \in net.nodes |-> 0], !.scans = 0,
                         !.counts = [i \in DOMAIN @ |->
                             Cardinality({v \in net.nodes : label[v] = i})]]
    /\ phase' = "select"
    /\ UNCHANGED flow /\ Quiet

\* Excess scaling: the lowest node with more than half the scale is pushed
\* from, never past the scale at its head, or relabelled.
Band == {v \in Inner(net) : k.excess[v] > k.delta \div 2}

Sent(v, a) == Finite!Min({k.excess[v], R(a)} \cup
                  (IF To(a) \in Terminals(net) THEN {} ELSE {k.delta - k.excess[To(a)]}))
TooSmall(a, sent) ==
    \/ To(a) \in Inner(net) /\ k.excess[To(a)] > k.delta \div 2
    \/ sent = 0
    \/ sent < R(a) /\ 2 * sent < k.delta

ProcessScaledActive ==
    /\ Running /\ phase = "scale" /\ Band # {}
    /\ \E v \in {First(Band, k.label)} :
           IF ~HasArc(v) THEN Rise(v)
           ELSE \E i \in {Place(v)} : \E a \in {net.outgoing[v][i]} : \E sent \in {Sent(v, a)} :
                    IF TooSmall(a, sent) THEN Stop("failed")
                    ELSE Pushed(v, i, a, sent) /\ UNCHANGED phase
    /\ Quiet

\* A scale ends when no node has more than half of it; the last scale is one.
NextScale ==
    /\ Running /\ phase = "scale" /\ Band = {}
    /\ k' = [k EXCEPT !.delta = @ \div 2]
    /\ phase' = IF k.delta = 1 THEN "finish" ELSE "scale"
    /\ UNCHANGED flow /\ Quiet

\* Partial augment: a path of admissible arcs grows from the root until it
\* meets a terminal or the limit; its end is relabelled where it cannot grow.
Grown == End \in Terminals(net) \/ Len(k.path) = PathLimit

AdvancePath ==
    /\ Running /\ phase = "path" /\ ~Grown /\ HasArc(End)
    /\ k' = Longer
    /\ UNCHANGED <<flow, phase>> /\ Quiet

\* The relabelled end leaves the path, and its predecessor passes its arc; a
\* relabelled root ends the search.
RetreatPath ==
    /\ Running /\ phase = "path" /\ ~Grown /\ ~HasArc(End)
    /\ \E h \in {NewHeight(End)} :
           IF ~MayRelabel(End, h) THEN Stop("failed")
           ELSE /\ IF k.path = <<>> THEN k' = Raised(End, h, {}) /\ phase' = "select"
                   ELSE k' = Shorter(Raised(End, h, {})) /\ UNCHANGED phase
                /\ UNCHANGED flow
    /\ Quiet

\* The path carries the root's excess or its bottleneck to its end.
Filled(amount) == {ArcFrom(net, k.path[i]) : i \in {j \in DOMAIN k.path : R(k.path[j]) = amount}}

AugmentPath ==
    /\ Running /\ phase = "path" /\ Grown
    /\ \E amount \in {Finite!Min({k.excess[k.node], Bottleneck(net, flow, k.path)})} :
           /\ flow' = Augment(net, flow, k.path, amount)
           /\ k' = [k EXCEPT
                  !.excess = [u \in net.nodes |-> @[u] - (IF u = k.node THEN amount ELSE 0)
                                                       + (IF u = End THEN amount ELSE 0)],
                  !.cursor = [u \in net.nodes |-> @[u] + (IF u \in Filled(amount) THEN 1 ELSE 0)],
                  !.path = <<>>]
    /\ phase' = "select"
    /\ Quiet

\* validate_preflow and the check that no excess is left.
PreflowValid ==
    /\ k.label[net.source] = N /\ k.label[net.sink] = 0
    /\ \A v \in Inner(net) : k.excess[v] >= 0
    /\ \A v \in net.nodes : k.excess[v] = -Divergence(net, flow, v)
    /\ \A i \in DOMAIN k.counts : k.counts[i] = Cardinality({v \in net.nodes : k.label[v] = i})
    /\ \A v \in net.nodes, a \in Arcs(net) :
           ArcFrom(net, a) = v /\ R(a) > 0 => k.label[v] <= k.label[To(a)] + 1

Finish ==
    /\ Running /\ phase = "finish"
    /\ Stop(IF PreflowValid /\ \A v \in Inner(net) : k.excess[v] = 0
            THEN "certify" ELSE "failed")
    /\ Quiet

PushRelabelStep ==
    \/ InitializePreflow \/ Select \/ Push \/ Relabel \/ EndDischarge \/ GlobalRelabel
    \/ ProcessScaledActive \/ NextScale \/ AdvancePath \/ RetreatPath \/ AugmentPath \/ Finish
==============================================================================
