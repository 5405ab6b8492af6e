--------------------------- MODULE ShortestPathFlows ---------------------------
(* The minimum-cost flow solvers that route what the nodes have left along   *)
(* cheapest residual paths: successive shortest paths by Bellman-Ford and by *)
(* Dijkstra under potentials (min_cost.rs, primal_dual.rs), blocking flows   *)
(* on the arcs without slack (blocking_primal_dual.rs), and the scaling of   *)
(* capacities or excesses (capacity_scaling.rs).                             *)
EXTENDS MinCostKernel

Scaling == {"capacity-scaling", "excess-scaling"}

\* Nodes that must send, or receive, at least an amount.
Surpluses(least) == {v \in net.nodes : excess[v] >= least}
Deficits(least) == {v \in net.nodes : excess[v] <= -least}

\* Excess scaling only takes networks in which every edge is wide enough for
\* all that must be sent.
TotalSurplus == SumOver(excess, Surpluses(1))
TooNarrow == \E e \in Edges(net) : net.capacity[e] - net.lower[e] < TotalSurplus

\* The greatest power of two that is not above what any node has left.
Redoubled(top, p) == IF 2 * p <= top THEN 2 * p ELSE p
PowerWithin(top) == Repeat(LAMBDA p : Redoubled(top, p), top, 1)
InitialScale ==
    PowerWithin(Finite!Max({1} \cup {excess[v] : v \in net.nodes} \cup {-excess[v] : v \in net.nodes}))

\* A problem without a feasible flow, or with a negative cycle at the lower
\* bounds, is refused; else the potentials that show there is none are the prices.
Admission ==
    CASE Feasible[net] = {} -> "infeasible"
      [] Feasible[net] # {} /\ HasNegativeCycle -> "unbounded"
      [] Feasible[net] # {} /\ ~HasNegativeCycle ->
             IF ~DualFeasible(ZeroPasses.dist) THEN "failed"
             ELSE IF alg = "excess-scaling" /\ TooNarrow THEN "narrow"
             ELSE IF alg \in Scaling THEN "scale" ELSE "route"

BeginSuccessive ==
    /\ alg \in Successive /\ phase = "start"
    /\ phase' = Admission
    /\ price' = IF phase' \in {"scale", "route"} /\ alg # "bellman-ford-ssp" THEN ZeroPasses.dist ELSE price
    /\ k' = IF alg \in Scaling THEN [k EXCEPT !.scale = InitialScale] ELSE k
    /\ UNCHANGED <<flow, excess>> /\ Quiet

\* Dijkstra's search over the reduced costs of the arcs that count. Distances
\* carry the number of arcs as their last digit, which only scaling counts.
Digit == N + 1
Weight(a) == ReducedCost(price, a) * Digit + (IF alg \in Scaling THEN 1 ELSE 0)
Eligible(a) == R(a) >= k.scale

Settle(s) ==
    LET open == DOMAIN s.dist \ s.done
    IN IF open = {} THEN s
       ELSE LET v == CHOOSE u \in open : \A w \in open :
                         s.dist[u] < s.dist[w] \/ (s.dist[u] = s.dist[w] /\ u <= w)
            IN Folded(LAMBDA t, a : IF Eligible(a) THEN Improve(t, a, s.dist[v] + Weight(a)) ELSE t,
                             [s EXCEPT !.done = @ \cup {v}], net.outgoing[v])

Dijkstra(roots) ==
    With(Repeat(Settle, N, [dist |-> [v \in roots |-> 0], by |-> <<>>, last |-> 0, done |-> {}]),
         LAMBDA s : [s EXCEPT !.dist = [v \in DOMAIN s.dist |-> s.dist[v] \div Digit]])

ShortestFrom(v) == IF alg = "bellman-ford-ssp"
                   THEN Repeat(Pass, N - 1, Search([u \in {v} |-> 0])) ELSE Dijkstra({v})

\* The deficit that is cheapest to reach: in original costs under potentials,
\* in reduced costs and then in arcs under scaling, the lowest of several.
Farness(s, v, w) ==
    CASE alg = "potential-dijkstra-ssp" -> s.dist[w] + price[w] - price[v]
      [] alg \in Scaling -> s.dist[w] * Digit + Len(PathTo(s, {v}, w))
      [] OTHER -> s.dist[w]
Ends(s) == Deficits(k.scale) \cap DOMAIN s.dist
Nearest(s, v) == CHOOSE w \in Ends(s) : \A u \in Ends(s) :
    \/ Farness(s, v, w) < Farness(s, v, u)
    \/ Farness(s, v, w) = Farness(s, v, u) /\ w <= u

\* Mutant: the prices of nodes a search did not reach stay behind.
TightenedReached(p, dist, cutoff) == [v \in net.nodes |->
    p[v] + (IF v \in DOMAIN dist THEN Finite!Min({dist[v], cutoff}) ELSE 0)]

\* Prices rise by the distances, up to that of the node the search was for.
Tightened(p, dist, cutoff) == [v \in net.nodes |->
    p[v] + (IF v \in DOMAIN dist THEN Finite!Min({dist[v], cutoff}) ELSE cutoff)]

Sent(path, v, w) == IF alg = "excess-scaling" THEN k.scale
                    ELSE Finite!Min({Bottleneck(net, flow, path), excess[v], -excess[w]})

\* The lowest surplus sends along its cheapest path to a deficit, under scaling
\* the lowest that has one. When none has, scaling goes on at half its scale,
\* and at the end nothing may be left. Reduced costs are validated after every
\* change, so no search meets a negative one.
RouteImbalance ==
    /\ alg \in Successive \ {"blocking-primal-dual"} /\ phase = "route"
    /\ \E found \in {[v \in Surpluses(k.scale) |-> ShortestFrom(v)]} :
       \E v \in Surpluses(k.scale) :
           /\ alg \in Scaling => Ends(found[v]) # {}
           /\ \A u \in Surpluses(k.scale) : u < v => alg \in Scaling /\ Ends(found[u]) = {}
           /\ IF Ends(found[v]) = {} THEN Stop("failed")
              ELSE \E w \in {Nearest(found[v], v)} : \E path \in {PathTo(found[v], {v}, w)} :
                   \E amount \in {Sent(path, v, w)} :
                      /\ flow' = Augment(net, flow, path, amount)
                      /\ excess' = Moved(excess, v, w, amount)
                      /\ price' = IF alg = "bellman-ford-ssp" THEN price
                                  ELSE Tightened(price, found[v].dist, found[v].dist[w])
                      /\ phase' = IF /\ AugmentAccepts(net, flow, path, amount) /\ amount >= k.scale
                                     /\ alg # "bellman-ford-ssp" => Priced(flow', price', k.scale)
                                  THEN phase ELSE "failed"
                      /\ UNCHANGED k
    /\ Quiet

NothingToRoute ==
    /\ alg \in Successive \ {"blocking-primal-dual"} /\ phase = "route"
    /\ \A v \in Surpluses(k.scale) : alg \in Scaling /\ Ends(ShortestFrom(v)) = {}
    /\ IF k.scale > 1
       THEN /\ k' = [k EXCEPT !.scale = @ \div 2] /\ phase' = "scale"
            /\ UNCHANGED <<flow, excess, price>>
       ELSE Stop(IF \A v \in net.nodes : excess[v] = 0 THEN "certify" ELSE "failed")
    /\ Quiet

\* A scaling phase of the capacity variant first saturates the arcs that have
\* become wide enough to count while their reduced cost was negative.
BeginScale ==
    /\ alg \in Scaling /\ phase = "scale"
    /\ \E x \in {Saturated(k.scale, IF alg = "excess-scaling" THEN Edges(net) ELSE {})} :
           /\ flow' = x.flow /\ excess' = x.excess
           /\ phase' = IF Priced(x.flow, price, k.scale) THEN "route" ELSE "failed"
    /\ UNCHANGED <<price, k>> /\ Quiet

\* Blocking primal-dual levels the nodes that arcs without slack reach from the
\* surpluses, or else lowers the least slack of a way to a deficit to none.
Slackless(a) == ReducedCost(price, a) = 0
LevelOrTighten ==
    /\ alg = "blocking-primal-dual" /\ phase = "route"
    /\ IF Surpluses(1) = {}
       THEN Stop(IF \A v \in net.nodes : excess[v] = 0 THEN "certify" ELSE "failed")
       ELSE \E levels \in {Reach(Surpluses(1), {a \in Usable : Slackless(a)}).dist} :
            \E s \in {Dijkstra(Surpluses(1))} :
            CASE Deficits(1) \cap DOMAIN levels # {} ->
                    /\ k' = [Kernel(net) EXCEPT !.level = levels, !.node = Finite!Min(Surpluses(1)),
                                 !.target = Finite!Min({levels[v] : v \in Deficits(1) \cap DOMAIN levels})]
                    /\ phase' = "block" /\ UNCHANGED <<flow, excess, price>>
              [] Deficits(1) \cap DOMAIN levels = {} /\ Ends(s) # {} ->
                    /\ price' = Tightened(price, s.dist, Finite!Min({s.dist[w] : w \in Ends(s)}))
                    /\ phase' = IF Priced(flow, price', 1) /\ price' # price THEN phase ELSE "failed"
                    /\ UNCHANGED <<flow, excess, k>>
              [] OTHER -> Stop("failed")
    /\ Quiet

\* A blocking flow on the levels: depth-first from the lowest surplus, every
\* node going on from its current arc, up to a deficit on the least level of
\* one; after an augmentation again from the lowest surplus.
LevelArc(a) == /\ R(a) > 0 /\ Slackless(a) /\ k.level[From(a)] < k.target
               /\ To(a) \in DOMAIN k.level /\ k.level[To(a)] = k.level[From(a)] + 1
Place(v) == Seqs!SelectInSubSeq(net.outgoing[v], k.cursor[v] + 1, Len(net.outgoing[v]), LevelArc)

Tip == IF k.path = <<>> THEN k.node ELSE To(Seqs!Last(k.path))
Arrived == k.level[Tip] = k.target /\ excess[Tip] < 0

AdvanceBlock ==
    /\ alg = "blocking-primal-dual" /\ phase = "block" /\ ~Arrived /\ Place(Tip) # 0
    /\ k' = [k EXCEPT !.path = Append(@, net.outgoing[Tip][Place(Tip)]),
                      !.cursor[Tip] = Place(Tip) - 1]
    /\ UNCHANGED <<flow, excess, price, phase>> /\ Quiet

\* A node without a way on is left by the arc it was entered by, a surplus for
\* the next one; behind the last the flow is blocking and must not be empty.
RetreatBlock ==
    /\ alg = "blocking-primal-dual" /\ phase = "block" /\ ~Arrived /\ Place(Tip) = 0
    /\ \E later \in {{v \in Surpluses(1) : v > k.node}} :
       \E passed \in {[k EXCEPT !.cursor[Tip] = Len(net.outgoing[Tip])]} :
           CASE k.path # <<>> ->
                   /\ k' = [passed EXCEPT !.path = Seqs!Front(@),
                                          !.cursor[From(Seqs!Last(k.path))] = @ + 1]
                   /\ UNCHANGED phase
             [] k.path = <<>> /\ later # {} ->
                   k' = [passed EXCEPT !.node = Finite!Min(later)] /\ UNCHANGED phase
             [] k.path = <<>> /\ later = {} ->
                   k' = Kernel(net) /\ phase' = IF k.sent = 0 THEN "failed" ELSE "route"
    /\ UNCHANGED <<flow, excess, price>> /\ Quiet

AugmentBlock ==
    /\ alg = "blocking-primal-dual" /\ phase = "block" /\ Arrived
    /\ \E amount \in {Sent(k.path, k.node, Tip)} :
           /\ flow' = Augment(net, flow, k.path, amount)
           /\ excess' = Moved(excess, k.node, Tip, amount)
           /\ \E left \in {{v \in net.nodes : excess'[v] > 0}} :
                  /\ k' = IF left = {} THEN Kernel(net)
                          ELSE [k EXCEPT !.path = <<>>, !.node = Finite!Min(left), !.sent = @ + 1]
                  /\ phase' = CASE ~(AugmentAccepts(net, flow, k.path, amount)
                                        /\ Priced(flow', price, 1)) -> "failed"
                                [] OTHER -> IF left = {} THEN "route" ELSE phase
    /\ UNCHANGED price /\ Quiet

ShortestPathStep ==
    \/ BeginSuccessive \/ RouteImbalance \/ NothingToRoute \/ BeginScale
    \/ LevelOrTighten \/ AdvanceBlock \/ RetreatBlock \/ AugmentBlock
==============================================================================
