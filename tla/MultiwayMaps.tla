---------------------------- MODULE MultiwayMaps ----------------------------
(* The B-tree and the skip list of crates/ordered-map/src. A B-tree node is *)
(* its keys and its children, none in a leaf; a skip list is the forward    *)
(* links of its head and of every key's node, one per level of the node.    *)
EXTENDS Integers, Sequences, FiniteSets

Seqs == INSTANCE SequencesExt
Sets == INSTANCE FiniteSetsExt

CONSTANTS Degree,      \* minimum degree of the B-tree
          MaxLevel     \* levels of the skip list's head

\* ------------------------------------------------------------------ B-tree
EmptyB == [keys |-> <<>>, children |-> <<>>]
IsLeaf(n) == n.children = <<>>
Full(n) == Len(n.keys) = 2 * Degree - 1
Rich(n) == Len(n.keys) >= Degree
Locate(n, k) == 1 + Cardinality({i \in DOMAIN n.keys : n.keys[i] < k})
Has(n, k) == \E i \in DOMAIN n.keys : n.keys[i] = k
From(s, i) == SubSeq(s, i, Len(s))

RECURSIVE KeysBelow(_), NodesBelow(_)
KeysBelow(n) == {n.keys[i] : i \in DOMAIN n.keys}
                \cup UNION {KeysBelow(n.children[i]) : i \in DOMAIN n.children}
NodesBelow(n) == {n} \cup UNION {NodesBelow(n.children[i]) : i \in DOMAIN n.children}

RECURSIVE FindB(_, _, _, _)
FindB(n, k, lower, candidate) ==
    LET i == Locate(n, k)
        next == IF lower /\ i <= Len(n.keys) THEN n.keys[i] ELSE candidate
    IN  IF Has(n, k) THEN k
        ELSE IF IsLeaf(n) THEN next ELSE FindB(n.children[i], k, lower, next)

SplitChild(p, i) ==
    LET c == p.children[i]
        left == [keys |-> SubSeq(c.keys, 1, Degree - 1),
                 children |-> IF IsLeaf(c) THEN <<>> ELSE SubSeq(c.children, 1, Degree)]
        right == [keys |-> From(c.keys, Degree + 1), children |-> From(c.children, Degree + 1)]
    IN  [keys |-> Seqs!InsertAt(p.keys, i, c.keys[Degree]),
         children |-> Seqs!InsertAt([p.children EXCEPT ![i] = left], i + 1, right)]

RECURSIVE InsertNonfull(_, _)
InsertNonfull(n, k) ==
    LET i == Locate(n, k)
        m == IF Full(n.children[i]) THEN SplitChild(n, i) ELSE n
        j == IF Full(n.children[i]) /\ k > m.keys[i] THEN i + 1 ELSE i
    IN  IF IsLeaf(n) THEN [n EXCEPT !.keys = Seqs!InsertAt(@, i, k)]
        ELSE [m EXCEPT !.children[j] = InsertNonfull(@, k)]

BTreeInsert(root, k) ==
    InsertNonfull(IF Full(root) THEN SplitChild([keys |-> <<>>, children |-> <<root>>], 1)
                  ELSE root, k)

\* The last key and child of the left sibling go through the parent, ...
BorrowLeft(p, i) ==
    LET l == p.children[i - 1]
        c == p.children[i]
        moved == IF IsLeaf(l) THEN <<>> ELSE <<Seqs!Last(l.children)>>
    IN  [keys |-> [p.keys EXCEPT ![i - 1] = Seqs!Last(l.keys)],
         children |-> [p.children EXCEPT
             ![i - 1] = [keys |-> Seqs!Front(l.keys),
                         children |-> IF IsLeaf(l) THEN <<>> ELSE Seqs!Front(l.children)],
             ![i] = [keys |-> <<p.keys[i - 1]>> \o c.keys, children |-> moved \o c.children]]]

\* ... or the first ones of the right sibling, ...
BorrowRight(p, i) ==
    LET r == p.children[i + 1]
        c == p.children[i]
        moved == IF IsLeaf(r) THEN <<>> ELSE <<Head(r.children)>>
    IN  [keys |-> [p.keys EXCEPT ![i] = Head(r.keys)],
         children |-> [p.children EXCEPT
             ![i + 1] = [keys |-> Tail(r.keys),
                         children |-> IF IsLeaf(r) THEN <<>> ELSE Tail(r.children)],
             ![i] = [keys |-> Append(c.keys, p.keys[i]), children |-> c.children \o moved]]]

\* ... or two siblings become one around the key that divided them.
MergeChildren(p, i) ==
    LET l == p.children[i]
        r == p.children[i + 1]
    IN  [keys |-> Seqs!RemoveAt(p.keys, i),
         children |-> Seqs!RemoveAt(
             [p.children EXCEPT ![i] = [keys |-> Append(l.keys, p.keys[i]) \o r.keys,
                                        children |-> l.children \o r.children]], i + 1)]

\* A child with the fewest keys gets one more before it is entered.
PrepareChild(p, i) ==
    IF i > 1 /\ Rich(p.children[i - 1]) THEN [parent |-> BorrowLeft(p, i), at |-> i]
    ELSE IF i < Len(p.children) /\ Rich(p.children[i + 1])
         THEN [parent |-> BorrowRight(p, i), at |-> i]
    ELSE IF i < Len(p.children) THEN [parent |-> MergeChildren(p, i), at |-> i]
    ELSE [parent |-> MergeChildren(p, i - 1), at |-> i - 1]

RECURSIVE LargestB(_), SmallestB(_)
LargestB(n) == IF IsLeaf(n) THEN Seqs!Last(n.keys) ELSE LargestB(Seqs!Last(n.children))
SmallestB(n) == IF IsLeaf(n) THEN Head(n.keys) ELSE SmallestB(Head(n.children))

RECURSIVE DeleteEntry(_, _)
DeleteEntry(n, k) ==
    LET i == Locate(n, k)
        Into(p, j, x) == [p EXCEPT !.children[j] = DeleteEntry(@, x)]
    IN  IF Has(n, k) THEN
            IF IsLeaf(n) THEN [n EXCEPT !.keys = Seqs!RemoveAt(@, i)]
            ELSE IF Rich(n.children[i])
                 THEN LET x == LargestB(n.children[i]) IN [Into(n, i, x) EXCEPT !.keys[i] = x]
            ELSE IF Rich(n.children[i + 1])
                 THEN LET x == SmallestB(n.children[i + 1])
                      IN  [Into(n, i + 1, x) EXCEPT !.keys[i] = x]
            ELSE Into(MergeChildren(n, i), i, k)
        ELSE IF Len(n.children[i].keys) = Degree - 1
             THEN LET q == PrepareChild(n, i) IN Into(q.parent, q.at, k)
        ELSE Into(n, i, k)

BTreeRemove(root, k) ==
    LET n == DeleteEntry(root, k)
    IN  IF n.keys = <<>> /\ ~IsLeaf(n) THEN n.children[1] ELSE n

\* --------------------------------------------------------------- skip list
SkipHead == -1
Nowhere == -2
EmptySkip == [n \in {SkipHead} |-> [level \in 1..MaxLevel |-> Nowhere]]

\* The last node before k on a level, reached from a node of a higher one.
RECURSIVE Advance(_, _, _, _)
Advance(b, n, level, k) ==
    LET next == IF level <= Len(b[n]) THEN b[n][level] ELSE Nowhere
    IN  IF next = Nowhere \/ next >= k THEN n ELSE Advance(b, next, level, k)

RECURSIVE PredecessorAt(_, _, _)
PredecessorAt(b, k, level) ==
    Advance(b, IF level = MaxLevel THEN SkipHead ELSE PredecessorAt(b, k, level + 1), level, k)
SkipCandidate(b, k) == b[PredecessorAt(b, k, 1)][1]

SkipRemove(b, k) ==
    [n \in DOMAIN b \ {k} |->
        [level \in DOMAIN b[n] |->
            IF level <= Len(b[k]) /\ n = PredecessorAt(b, k, level) /\ b[n][level] = k
            THEN b[k][level] ELSE b[n][level]]]

SkipInsert(b, k, height) ==
    [n \in DOMAIN b \cup {k} |->
        IF n = k THEN [level \in 1..height |-> b[PredecessorAt(b, k, level)][level]]
        ELSE [level \in DOMAIN b[n] |->
            IF level <= height /\ n = PredecessorAt(b, k, level) THEN k ELSE b[n][level]]]
==============================================================================
