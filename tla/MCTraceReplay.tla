---------------------------- MODULE MCTraceReplay ----------------------------
(* TraceReplay with two primary nodes, one auxiliary entity and one entry. *)
EXTENDS TraceReplay

CONSTANTS r, p, x, e, v, none

MCPrimary == {r, p}
MCAuxiliary == {x}
MCEntries == {e}
MCPayloads == {v}

Leaf(links, entries) == [links |-> links, entries |-> entries]

\* The values each entity may take: r and x form the path to p that a prefix
\* of an x-fast trie or the head tower of a skip list forms; p may be rotated
\* above r, and may hold the entry.
Shapes(id) ==
    CASE id = r -> {none, Leaf({}, {}), Leaf({x}, {}), Leaf({p}, {})}
      [] id = x -> {none, Leaf({p}, {})}
      [] id = p -> {none, Leaf({}, {e}), Leaf({r}, {})}

Universe ==
    {FromSnapshots(root, [id \in {r, p, x} |-> IF id = r THEN a ELSE IF id = p THEN b ELSE c],
                   [i \in {e} |-> d], 0) :
        root \in {none, r, p}, a \in Shapes(r), b \in Shapes(p), c \in Shapes(x),
        d \in {none, v}}

\* A change of the root is a rotation, which the metric counts.
MCTargets(st) ==
    {[u EXCEPT !.metric = st.metric + (IF u.root = st.root THEN 0 ELSE 1)] : u \in Universe} \ {st}

MCBases ==
    {FromSnapshots(r, [id \in {r, p, x} |-> CASE id = r -> Leaf({x}, {})
                                              [] id = x -> Leaf({p}, {})
                                              [] id = p -> Leaf({}, {e})],
                   [i \in {e} |-> v], 0)}
=============================================================================
