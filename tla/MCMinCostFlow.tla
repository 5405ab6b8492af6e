----------------------------- MODULE MCMinCostFlow -----------------------------
(* Small problems: a diamond with opposite inner edges, two suppliers with   *)
(* two customers on wide edges, and rings of negative cost behind the source *)
(* with a loop, parallel edges and lower bounds; some ask for more than the  *)
(* edges carry.                                                              *)
EXTENDS MinCostFlow, TLC

Free(m) == [e \in 1..m |-> 0]
Problem(n, from, to, lower, capacity, cost, required) ==
    [required |-> required] @@ Network(n, from, to, lower, capacity, cost, 1, n)

Diamonds == {Problem(4, <<1, 1, 2, 3, 2, 3>>, <<2, 3, 3, 2, 4, 4>>, Free(6),
                     <<2, 2, 1, 1, 2, 1>>, c \o <<0>>, <<2, 0, 0, -2>>) : c \in [1..5 -> {0, 2}]}
Exchanges == {Problem(4, <<1, 1, 2, 2, 1, 3>>, <<3, 4, 3, 4, 2, 4>>, Free(6),
                      <<3, 3, 3, 3, 3, 3>>, <<c[1], c[2], 1, c[3], 0, 0>>, <<1, 2, -1, -2>>) : c \in [1..3 -> {0, 1, 3}]}
Rings == {Problem(4, <<1, 2, 3, 2, 3, 1>>, <<2, 3, 2, 2, 4, 2>>, l, <<2, 2, 2, 1, 2, 1>>, c, <<s, 0, 0, -s>>)
              : l \in {Free(6), <<0, 1, 0, 1, 0, 0>>}, c \in {d \in [1..6 -> {-1, 1}] : d[1] = 1 /\ d[5] = 1},
                s \in {1, 3}}

MCProblems == Diamonds \cup Exchanges \cup Rings
==============================================================================
