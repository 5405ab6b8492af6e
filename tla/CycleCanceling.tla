---------------------------- MODULE CycleCanceling ----------------------------
(* The minimum-cost flow solvers that make a feasible flow cheaper: negative *)
(* residual cycles found by Bellman-Ford (cycle_canceling.rs), cycles of     *)
(* least mean cost (minimum_mean_cycle_canceling.rs), and out-of-kilter      *)
(* edges brought into kilter one by one (out_of_kilter.rs).                  *)
EXTENDS MinCostKernel

\* Any feasible flow may be the one the feasibility construction finds.
BeginImproving ==
    /\ alg \in Improving /\ phase = "start"
    /\ IF Feasible[net] = {} THEN Stop("infeasible")
       ELSE /\ flow' \in Feasible[net]
            /\ excess' = [v \in net.nodes |-> 0]
            /\ phase' = "improve"
            /\ UNCHANGED <<price, k>>
    /\ Quiet

CycleCost(cycle) == SumOver([i \in DOMAIN cycle |-> ArcCost(net, cycle[i])], DOMAIN cycle)

Cancel(cycle) ==
    IF cycle = <<>> \/ CycleCost(cycle) >= 0 THEN Stop("failed")
    ELSE /\ flow' = Augment(net, flow, cycle, Bottleneck(net, flow, cycle))
         /\ phase' = IF AugmentAccepts(net, flow, cycle, Bottleneck(net, flow, cycle))
                     THEN phase ELSE "failed"
         /\ UNCHANGED <<excess, price, k>>

\* The arcs that improved the nodes, followed back often enough from the node
\* improved last, have entered a cycle.
CycleOf(s) ==
    LET Back(v) == From(s.by[v])
        start == Repeat(Back, N, s.last)
        length == CHOOSE i \in 1..N : /\ Repeat(Back, i, start) = start
                                      /\ \A j \in 1..(i - 1) : Repeat(Back, j, start) # start
    IN [i \in 1..length |-> s.by[Repeat(Back, length - i, start)]]

CancelNegativeCycle ==
    /\ alg = "cycle-canceling" /\ phase = "improve"
    /\ \E s \in {ZeroPasses} : IF s.last = 0 THEN Stop("certify") ELSE \E cycle \in {CycleOf(s)} : Cancel(cycle)
    /\ Quiet

\* Karp's minimum mean in a strongly connected component: the cheapest walks of
\* every length from its first node, and the least, over its nodes, of the
\* greatest mean by which the longest walk exceeds a shorter one.
Reached(v) == DOMAIN Reach({v}, Usable).dist
Component(v) == {u \in Reached(v) : v \in Reached(u)}
Inside(C) == {a \in Usable : From(a) \in C /\ To(a) \in C}
Cyclic == {C \in {Component(v) : v \in net.nodes} : Inside(C) # {}}

Walks(C) ==
    LET step(d) == LET reached == {a \in Inside(C) : From(a) \in DOMAIN d}
                   IN [v \in {To(a) : a \in reached} |->
                          Finite!Min({d[From(a)] + ArcCost(net, a) : a \in {b \in reached : To(b) = v}})]
    IN [i \in 0..Cardinality(C) |-> Repeat(step, i, [v \in {Finite!Min(C)} |-> 0])]

\* Means as pairs of a numerator and a positive denominator.
Below(x, y) == x[1] * y[2] < y[1] * x[2]
Least(S) == CHOOSE x \in S : \A y \in S : ~Below(y, x)
Greatest(S) == CHOOSE x \in S : \A y \in S : ~Below(x, y)

KarpMean(C) ==
    LET n == Cardinality(C)
        mean(d) == Least({Greatest({<<d[n][v] - d[i][v], n - i>> :
                               i \in {j \in 0..(n - 1) : v \in DOMAIN d[j]}}) : v \in DOMAIN d[n]})
    IN With(Walks(C), mean)

\* Potentials under which, once the mean is taken off every cost, no arc of the
\* component lacks slack and the arcs of its cheapest cycles have none left.
Shifted(a, mean) == ArcCost(net, a) * mean[2] - mean[1]
TightPotentials(C, mean) ==
    LET pass(p) == Folded(
            LAMBDA q, a : IF a \in Inside(C) /\ q[From(a)] + Shifted(a, mean) < q[To(a)]
                          THEN [q EXCEPT ![To(a)] = q[From(a)] + Shifted(a, mean)] ELSE q,
            p, ArcOrder(Cardinality(Edges(net))))
    IN Repeat(pass, Cardinality(C), [v \in C |-> 0])

\* The simple cycles of a set of arcs.
CyclesIn(A) ==
    LET grown(P) == P \cup {Append(x[1], x[2]) : x \in {y \in P \X A :
            /\ From(y[2]) = To(Seqs!Last(y[1]))
            /\ \A i \in DOMAIN y[1] : From(y[1][i]) # From(y[2])}}
    IN {path \in Repeat(grown, N - 1, {<<a>> : a \in A}) : To(Seqs!Last(path)) = From(path[1])}

\* The depth-first search takes the first cycle of arcs without slack; here it
\* may be any. All of them have the mean.
TightCycles(C, mean) ==
    LET cycles(slack) == IF \E a \in Inside(C) : slack[a] < 0 THEN {}
                         ELSE CyclesIn({a \in Inside(C) : slack[a] = 0})
    IN With(TightPotentials(C, mean), LAMBDA p :
           With([a \in Inside(C) |-> Shifted(a, mean) + p[From(a)] - p[To(a)]], cycles))

CancelMinimumMean ==
    /\ alg = "mean-cycle-canceling" /\ phase = "improve"
    /\ \E mean \in {[C \in Cyclic |-> KarpMean(C)]} :
       \E cycles \in {[C \in DOMAIN mean |-> TightCycles(C, mean[C])]} :
           CASE \E C \in DOMAIN mean : cycles[C] = {} -> Stop("failed")
             [] \A C \in DOMAIN mean : cycles[C] # {} /\ mean[C][1] >= 0 -> Stop("certify")
             [] OTHER -> \E C \in {D \in DOMAIN mean : \A E \in DOMAIN mean : ~Below(mean[E], mean[D])} :
                             \E cycle \in cycles[C] : Cancel(cycle)
    /\ Quiet

\* An edge is out of kilter below its capacity at a negative reduced cost and
\* above its lower bound at a positive one, by the cost times the distance.
Correction(e) ==
    IF ReducedCost(price, <<e, "forward">>) < 0 THEN <<e, "forward">> ELSE <<e, "reverse">>

\* Mutant: flow above the lower bound at a positive reduced cost goes unseen.
KilterBelow(fl, p, e) ==
    Finite!Max({0, -ReducedCost(p, <<e, "forward">>) * Residual(net, fl, <<e, "forward">>)})

Kilter(fl, p, e) ==
    Finite!Max({0} \cup {-ReducedCost(p, <<e, d>>) * Residual(net, fl, <<e, d>>) : d \in {"forward", "reverse"}})
OutOfKilter == {e \in Edges(net) : Kilter(flow, price, e) > 0}

SelectEdge ==
    /\ alg = "out-of-kilter" /\ phase = "improve"
    /\ k.target = 0 \/ k.target \notin OutOfKilter
    /\ IF OutOfKilter = {} THEN Stop("certify")
       ELSE k' = [k EXCEPT !.target = Finite!Min(OutOfKilter)] /\ UNCHANGED <<flow, excess, price, phase>>
    /\ Quiet

\* No edge may leave its kilter further, and the selected one comes nearer.
KilterFalls == /\ \A e \in Edges(net) : Kilter(flow', price', e) <= Kilter(flow, price, e)
               /\ Kilter(flow', price', k.target) < Kilter(flow, price, k.target)

\* A way back over arcs without positive reduced cost closes a cycle on which
\* flow is corrected; without one the nodes out of its reach rise in price.
CorrectEdge ==
    /\ alg = "out-of-kilter" /\ phase = "improve"
    /\ k.target # 0 /\ k.target \in OutOfKilter
    /\ \E a \in {Correction(k.target)} :
       \E s \in {Reach({To(a)}, {b \in Usable : ReducedCost(price, b) <= 0})} :
           IF From(a) \in DOMAIN s.dist
           THEN \E cycle \in {<<a>> \o PathTo(s, {To(a)}, From(a))} :
                    /\ flow' = Augment(net, flow, cycle, Bottleneck(net, flow, cycle))
                    /\ UNCHANGED price
           ELSE \E delta \in {Finite!Min({-ReducedCost(price, a)} \cup {ReducedCost(price, b) :
                        b \in {c \in Usable : From(c) \in DOMAIN s.dist
                                             /\ To(c) \notin DOMAIN s.dist}})} :
                    /\ price' = [v \in net.nodes |-> price[v] + (IF v \in DOMAIN s.dist THEN 0 ELSE delta)]
                    /\ UNCHANGED flow
    /\ phase' = IF KilterFalls THEN phase ELSE "failed"
    /\ UNCHANGED <<excess, k>> /\ Quiet

CycleCancelingStep ==
    \/ BeginImproving \/ CancelNegativeCycle \/ CancelMinimumMean \/ SelectEdge \/ CorrectEdge
==============================================================================
