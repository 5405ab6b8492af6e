----------------------------- MODULE CostScaling ------------------------------
(* Cost scaling (cost_scaling.rs): a feasible flow is refined until it is    *)
(* optimal up to one under costs multiplied by more than the number of       *)
(* nodes. A refinement halves the error, fills every arc that falls below    *)
(* none, and then moves the excess that leaves to the deficits, by pushes or *)
(* along paths; it may first try prices alone, or leave edges out.           *)
EXTENDS MinCostKernel

CONSTANT PathLengthLimit    \* how long the path of a partial augmentation gets

ASSUME PathLengthAssumption == PathLengthLimit \in Nat \ {0}

AlongPaths == {"augment-relabel", "partial-augment-relabel"}

Actives == {v \in net.nodes : excess[v] > 0}
Active(x) == Folded(LAMBDA queue, v : IF x[v] > 0 THEN Append(queue, v) ELSE queue,
                    <<>>, [i \in 1..N |-> i])

\* The residual arcs of edges that are not fixed; optimal up to an error.
Loose(fl, fixed) == {a \in Arcs(net) : Residual(net, fl, a) > 0 /\ a[1] \notin fixed}
OptimalUpTo(fl, p, fixed, error) == \A a \in Loose(fl, fixed) : ReducedCost(p, a) >= -error

\* The first error doubles from one until no cost is above it.
MostCost == Finite!Max({0} \cup {ArcCost(net, a) * (N + 1) : a \in Arcs(net)})
Doubled(error) == IF error < MostCost THEN 2 * error ELSE error
InitialError == Repeat(Doubled, MostCost, 1)

\* Any feasible flow may be the one the feasibility construction finds.
BeginCostScaling ==
    /\ alg \in CostScalers /\ phase = "start"
    /\ IF Feasible[net] = {} THEN Stop("infeasible")
       ELSE /\ flow' \in Feasible[net]
            /\ excess' = [v \in net.nodes |-> 0]
            /\ k' = [k EXCEPT !.scale = InitialError]
            /\ phase' = "scale" /\ UNCHANGED price
    /\ Quiet

\* The least integer above 9/40 of the multiplier times n to the 3/4.
FixingThreshold ==
    LET enough(b) == (40 * b) ^ 4 >= (9 * (N + 1)) ^ 4 * N ^ 3
    IN CHOOSE b \in 0..(2 * N * (N + 1)) : enough(b) /\ (b = 0 \/ ~enough(b - 1))

\* An edge at a bound that its reduced cost asks for; one without a choice of
\* flow counts at both.
Complementary(e) ==
    LET rc == ReducedCost(price, <<e, "forward">>)
    IN (flow[e] = net.lower[e] /\ rc >= 0) \/ (flow[e] = net.capacity[e] /\ rc <= 0)
FarFromZero(e) == LET rc == ReducedCost(price, <<e, "forward">>)
                  IN rc > FixingThreshold \/ -rc > FixingThreshold

\* Fixed edges that may stay so. The others are filled as their costs ask, as
\* the arcs that are not fixed are; arcs of different edges do so in any order.
Kept == {e \in k.fixed : Complementary(e) /\ FarFromZero(e)}
Fixable == {e \in Edges(net) : /\ net.lower[e] # net.capacity[e]
                               /\ Complementary(e) /\ FarFromZero(e)}

\* All excess can reach deficits without fixed edges: no set of nodes has more
\* than can leave it. Else every edge is set free again.
Routable(x, fixed) == \A S \in SUBSET net.nodes :
    SumOver(x.excess, S) <= SumOver([a \in Arcs(net) |-> Residual(net, x.flow, a)],
                                    {a \in Loose(x.flow, fixed) : From(a) \in S /\ To(a) \notin S})

Fill(error) ==
    \E x \in {Saturated(1, Kept)} :
        /\ flow' = x.flow /\ excess' = x.excess
        /\ k' = [Kernel(net) EXCEPT !.scale = error, !.queue = Active(x.excess),
                                    !.fixed = IF Routable(x, Kept) THEN Kept ELSE {}]
        /\ phase' = IF /\ Priced(x.flow, price, 1)
                       /\ \A e \in k.fixed : flow[e] \in {net.lower[e], net.capacity[e]}
                    THEN "refine" ELSE "failed"
        /\ UNCHANGED price

\* Prices alone: the constraints of the live arcs relaxed from zero, in the
\* order of their identities. Rounds that settle within n give the prices.
RelaxArc(error, x, a) ==
    LET d == x[To(a)] + ReducedCost(price, a) + error
    IN IF R(a) > 0 /\ d < x[From(a)] THEN [x EXCEPT ![From(a)] = d] ELSE x

Relaxed(error, adjustment) == Folded(LAMBDA x, a : RelaxArc(error, x, a),
                                     adjustment, ArcOrder(Cardinality(Edges(net))))

Adjusted(error) == Repeat(LAMBDA y : Relaxed(error, y), N - 1, [v \in net.nodes |-> 0])

StartRefine ==
    /\ alg \in CostScalers /\ phase = "scale"
    /\ IF k.scale = 1 THEN Stop("certify")
       ELSE \E error \in {k.scale \div 2} :
            \E x \in {Adjusted(error)} :
                IF alg = "price-refinement" /\ Relaxed(error, x) = x
                THEN /\ price' = [v \in net.nodes |-> price[v] + x[v]]
                     /\ k' = [k EXCEPT !.scale = error]
                     /\ phase' = IF OptimalUpTo(flow, price', {}, error) THEN phase ELSE "failed"
                     /\ UNCHANGED <<flow, excess>>
                ELSE Fill(error)
    /\ Quiet

\* The current arc of a node, and the price that gives it one if it has none;
\* a node without excess and without arcs just moves away.
Falling(a) == a \in Loose(flow, k.fixed) /\ ReducedCost(price, a) < 0
CurrentArc(v) == Seqs!SelectInSubSeq(net.outgoing[v], k.cursor[v] + 1, Len(net.outgoing[v]), Falling)

Offers(v) == {price[To(a)] + ArcCost(net, a) * (N + 1) + k.scale :
                  a \in {b \in Loose(flow, k.fixed) : From(b) = v}}
Raised(v) == IF Offers(v) = {} THEN price[v] + k.scale ELSE Finite!Min(Offers(v))
Relabels(v) == (Offers(v) # {} \/ excess[v] = 0) /\ Raised(v) > price[v]

\* The lowest active node is discharged until it has no excess.
Discharged == IF k.node # 0 /\ excess[k.node] > 0 THEN k.node ELSE Finite!Min(Actives)
Discharging == alg \in CostScalers \ AlongPaths /\ phase = "refine" /\ Actives # {}

Push ==
    /\ Discharging /\ CurrentArc(Discharged) # 0
    /\ \E v \in {Discharged} : \E a \in {net.outgoing[v][CurrentArc(v)]} :
       \E amount \in {Finite!Min({excess[v], R(a)})} :
           /\ flow' = Augment(net, flow, <<a>>, amount)
           /\ excess' = Moved(excess, v, To(a), amount)
           /\ k' = [k EXCEPT !.node = v, !.cursor[v] = CurrentArc(v) - 1]
    /\ UNCHANGED <<price, phase>> /\ Quiet

\* Mutant: the node goes on behind the arcs it had passed.
RelabelInPlace ==
    /\ Discharging /\ CurrentArc(Discharged) = 0
    /\ \E v \in {Discharged} :
           IF Relabels(v)
           THEN /\ price' = [price EXCEPT ![v] = Raised(v)]
                /\ k' = [k EXCEPT !.node = v]
                /\ UNCHANGED <<flow, excess, phase>>
           ELSE Stop("failed")
    /\ Quiet

Relabel ==
    /\ Discharging /\ CurrentArc(Discharged) = 0
    /\ \E v \in {Discharged} :
           IF Relabels(v)
           THEN /\ price' = [price EXCEPT ![v] = Raised(v)]
                /\ k' = [k EXCEPT !.node = v, !.cursor[v] = 0]
                /\ UNCHANGED <<flow, excess, phase>>
           ELSE Stop("failed")
    /\ Quiet

\* Paths start at the active nodes in turn; one without excess left is skipped.
Searching == alg \in AlongPaths /\ phase = "refine" /\ k.node # 0
TakeRoot ==
    /\ alg \in AlongPaths /\ phase = "refine" /\ k.node = 0 /\ k.queue # <<>>
    /\ k' = [k EXCEPT !.queue = Tail(@),
                      !.node = IF excess[Head(k.queue)] > 0 THEN Head(k.queue) ELSE 0]
    /\ UNCHANGED <<flow, excess, price, phase>> /\ Quiet

PathEnd == IF k.path = <<>> THEN k.node ELSE To(Seqs!Last(k.path))
PathEnds == \/ excess[PathEnd] < 0
            \/ alg = "partial-augment-relabel" /\ Len(k.path) = PathLengthLimit

ExtendPath ==
    /\ Searching /\ ~PathEnds /\ CurrentArc(PathEnd) # 0
    /\ k' = [k EXCEPT !.path = Append(@, net.outgoing[PathEnd][CurrentArc(PathEnd)]),
                      !.cursor[PathEnd] = CurrentArc(PathEnd) - 1]
    /\ UNCHANGED <<flow, excess, price, phase>> /\ Quiet

\* A path that cannot go on has its end's price raised, and steps back.
RelabelPathEnd ==
    /\ Searching /\ ~PathEnds /\ CurrentArc(PathEnd) = 0
    /\ IF Relabels(PathEnd)
       THEN /\ price' = [price EXCEPT ![PathEnd] = Raised(PathEnd)]
            /\ k' = [k EXCEPT !.cursor[PathEnd] = 0,
                              !.path = IF @ = <<>> THEN @ ELSE Seqs!Front(@)]
            /\ UNCHANGED <<flow, excess, phase>>
       ELSE Stop("failed")
    /\ Quiet

\* Every arc of the path in turn takes what its tail has, as far as it can.
PushArc(x, a) ==
    IF ~x.ok \/ Residual(net, x.flow, a) = 0 \/ x.excess[From(a)] <= 0 THEN [x EXCEPT !.ok = FALSE]
    ELSE LET amount == Finite!Min({x.excess[From(a)], Residual(net, x.flow, a)})
             moved == Moved(x.excess, From(a), To(a), amount)
             roused == x.excess[To(a)] <= 0 /\ moved[To(a)] > 0 /\ ~Seqs!Contains(x.queue, To(a))
         IN [ok |-> TRUE, flow |-> Augment(net, x.flow, <<a>>, amount), excess |-> moved,
             queue |-> IF roused THEN Append(x.queue, To(a)) ELSE x.queue]

PushPath ==
    /\ Searching /\ PathEnds
    /\ \E x \in {Folded(PushArc, [ok |-> TRUE, flow |-> flow, excess |-> excess,
                                         queue |-> k.queue], k.path)} :
           /\ flow' = x.flow /\ excess' = x.excess
           /\ k' = [k EXCEPT !.node = 0, !.path = <<>>,
                             !.queue = IF x.excess[k.node] > 0 /\ ~Seqs!Contains(x.queue, k.node)
                                       THEN Append(x.queue, k.node) ELSE x.queue]
           /\ phase' = IF k.path # <<>> /\ x.ok /\ OptimalUpTo(x.flow, price, {}, k.scale)
                       THEN phase ELSE "failed"
    /\ UNCHANGED price /\ Quiet

\* Fixed edges that the new prices ask to change are freed and filled, and the
\* excess this leaves is moved again, until none is left; then more are fixed.
FinishRefine ==
    /\ alg \in CostScalers /\ phase = "refine"
    /\ IF alg \in AlongPaths THEN k.node = 0 /\ k.queue = <<>> ELSE Actives = {}
    /\ IF Kept # k.fixed THEN Fill(k.scale)
       ELSE /\ k' = [Kernel(net) EXCEPT !.scale = k.scale,
                         !.fixed = IF alg = "arc-fixing" THEN k.fixed \cup Fixable ELSE {}]
            /\ phase' = IF /\ \A v \in net.nodes : excess[v] = 0
                           /\ OptimalUpTo(flow, price, k.fixed, k.scale)
                           /\ \A e \in k.fixed : Complementary(e)
                        THEN "scale" ELSE "failed"
            /\ UNCHANGED <<flow, excess, price>>
    /\ Quiet

CostScalingStep ==
    \/ BeginCostScaling \/ StartRefine \/ Push \/ Relabel
    \/ TakeRoot \/ ExtendPath \/ RelabelPathEnd \/ PushPath \/ FinishRefine
==============================================================================
