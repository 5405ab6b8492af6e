------------------------------ MODULE MCMaxFlow ------------------------------
(* Small networks: a diamond with opposite inner edges and capacities zero   *)
(* to two, a cycle behind the source, parallel edges with a self-loop, edges *)
(* into the source and out of the sink, and lower bounds.                    *)
EXTENDS MaxFlow

Free(m) == [e \in 1..m |-> 0]

Diamonds == {Network(4, <<1, 1, 2, 3, 2, 3>>, <<2, 3, 3, 2, 4, 4>>, Free(6), c, Free(6), 1, 4)
                 : c \in {d \in [1..6 -> 0..2] : d[1] = 2}}
Cycles == {Network(5, <<1, 2, 3, 4, 4, 2>>, <<2, 3, 4, 3, 2, 5>>, Free(6), c, Free(6), 1, 5)
                 : c \in {[d EXCEPT ![1] = 3] : d \in [1..6 -> 1..2]}}
Untidies == {Network(4, <<1, 2, 2, 2, 3, 3, 4>>, <<2, 2, 3, 3, 1, 4, 3>>, Free(7), c, Free(7), 1, 4)
                 : c \in {d \in [1..7 -> 1..2] : d[1] = 2 /\ d[2] = 1}}
BoundedOnes ==
    {Network(4, <<1, 1, 2, 2, 3>>, <<2, 3, 3, 4, 4>>, l, c, Free(5), 1, 4)
                 : c \in {d \in [1..5 -> 1..2] : d[1] = 2},
                   l \in {<<1, 0, 0, 0, 1>>, <<0, 0, 1, 0, 0>>}}

MCNetworks == Diamonds \cup Cycles \cup Untidies \cup BoundedOnes

\* A chain whose edges' identities run against its direction.
Chains == {Network(6, <<5, 4, 3, 2, 1>>, <<6, 5, 4, 3, 2>>, Free(5), <<1, 2, 2, 2, 2>>, Free(5), 1, 6)}
==============================================================================
