---------------------------- MODULE DigitalTries ----------------------------
(* The integer-key structures of crates/ordered-map/src: the van Emde Boas  *)
(* tree, the X-fast trie and the Y-fast trie with its treap buckets.        *)
EXTENDS SearchTrees

Sets == INSTANCE FiniteSetsExt
Fns == INSTANCE Functions

CONSTANT WordBits      \* width of a key

None == -1
LargestKey == 2 ^ WordBits - 1
LeastOf(S) == IF S = {} THEN None ELSE Sets!Min(S)
GreatestOf(S) == IF S = {} THEN None ELSE Sets!Max(S)
With(f, x, y) == [z \in DOMAIN f \cup {x} |-> IF z = x THEN y ELSE f[z]]
Without(f, x) == Fns!Restrict(f, DOMAIN f \ {x})
NoFunction == [x \in {} |-> 0]

\* ---------------------------------------------------------- van Emde Boas
LowBits(bits) == bits \div 2
HighBits(bits) == bits - LowBits(bits)
HighOf(bits, k) == k \div 2 ^ LowBits(bits)
LowOf(bits, k) == k % 2 ^ LowBits(bits)
Combine(bits, high, low) == high * 2 ^ LowBits(bits) + low

EmptyVeb == [min |-> None, max |-> None, summary |-> Nil, clusters |-> NoFunction]
SingleVeb(k) == [EmptyVeb EXCEPT !.min = k, !.max = k]

\* A smaller key takes the minimum's place and the old minimum moves down;
\* summary and cluster are created when they get their first key.
RECURSIVE VebInsert(_, _, _)
VebInsert(bits, n, k) ==
    LET least == Min2(k, n.min)
        key == Max2(k, n.min)
        h == HighOf(bits, key)
        l == LowOf(bits, key)
        m == [n EXCEPT !.min = least, !.max = Max2(@, key)]
    IN  IF n.min = None THEN SingleVeb(k)
        ELSE IF bits <= 1 \/ key = least THEN m
        ELSE IF h \in DOMAIN n.clusters
             THEN [m EXCEPT !.clusters[h] = VebInsert(LowBits(bits), @, l)]
        ELSE [m EXCEPT !.clusters = With(@, h, SingleVeb(l)),
                       !.summary = VebInsert(HighBits(bits), IF @ = Nil THEN EmptyVeb ELSE @, h)]

RECURSIVE VebContains(_, _, _)
VebContains(bits, n, k) ==
    \/ k \in {n.min, n.max}
    \/ /\ bits > 1
       /\ HighOf(bits, k) \in DOMAIN n.clusters
       /\ VebContains(LowBits(bits), n.clusters[HighOf(bits, k)], LowOf(bits, k))

RECURSIVE VebSuccessor(_, _, _)
VebSuccessor(bits, n, k) ==
    LET h == HighOf(bits, k)
        l == LowOf(bits, k)
        next == VebSuccessor(HighBits(bits), n.summary, h)
    IN  IF bits <= 1 THEN (IF k = 0 /\ n.max = 1 THEN 1 ELSE None)
        ELSE IF n.min # None /\ k < n.min THEN n.min
        ELSE IF h \in DOMAIN n.clusters /\ l < n.clusters[h].max
             THEN Combine(bits, h, VebSuccessor(LowBits(bits), n.clusters[h], l))
        ELSE IF n.summary = Nil THEN None
        ELSE IF next = None THEN None
        ELSE Combine(bits, next, n.clusters[next].min)

\* Mutant: the maximum stays when its cluster survives.
VebMaxAfterKept(bits, n, key, cluster) == n.max

\* The maximum after key left a cluster that still holds something.
VebMaxAfter(bits, n, key, cluster) ==
    IF n.max = key THEN Combine(bits, HighOf(bits, key), cluster.max) ELSE n.max

\* The maximum after key left a cluster that went with it.
VebMaxWithout(bits, n, key, summary, least) ==
    IF n.max # key THEN n.max
    ELSE IF summary = Nil THEN least
    ELSE Combine(bits, summary.max, n.clusters[summary.max].max)

RECURSIVE VebRemove(_, _, _)
VebRemove(bits, n, k) ==
    LET first == n.summary.min
        key == IF n.min = k THEN Combine(bits, first, n.clusters[first].min) ELSE k
        least == IF n.min = k THEN key ELSE n.min
        h == HighOf(bits, key)
        c == VebRemove(LowBits(bits), n.clusters[h], LowOf(bits, key))
        s == VebRemove(HighBits(bits), n.summary, h)
        summary == IF s.min = None THEN Nil ELSE s
    IN  IF n.min = n.max THEN [n EXCEPT !.min = None, !.max = None]
        ELSE IF bits <= 1 THEN [n EXCEPT !.min = 1 - k, !.max = 1 - k]
        ELSE IF c.min # None
             THEN [n EXCEPT !.min = least, !.clusters[h] = c, !.max = VebMaxAfter(bits, n, key, c)]
        ELSE [min |-> least, max |-> VebMaxWithout(bits, n, key, summary, least),
              summary |-> summary, clusters |-> Without(n.clusters, h)]

\* The tree a set of keys should have, whatever the order it was built in.
RECURSIVE VebOf(_, _)
VebOf(bits, S) ==
    LET rest == S \ {LeastOf(S)}
        highs == {HighOf(bits, x) : x \in rest}
    IN  [min |-> LeastOf(S), max |-> GreatestOf(S),
         summary |-> IF bits <= 1 \/ rest = {} THEN Nil ELSE VebOf(HighBits(bits), highs),
         clusters |-> IF bits <= 1 THEN NoFunction
                      ELSE [h \in highs |-> VebOf(LowBits(bits),
                                {LowOf(bits, x) : x \in {y \in rest : HighOf(bits, y) = h}})]]

\* ----------------------------------------------------------------- X-fast
\* prefixes: the hash tables of all levels but the last, by level and
\* prefix; leaves: the last level's table with the list's links.
Prefix(k, level) == k \div 2 ^ (WordBits - level)
PrefixesOf(k) == {<<level, Prefix(k, level)>> : level \in 0..(WordBits - 1)}
EmptyXFast == [prefixes |-> NoFunction, leaves |-> NoFunction]
IndexKeys(b) == DOMAIN b.leaves
Under(S, p) == {x \in S : Prefix(x, p[1]) = p[2]}

XFastInsert(b, k) ==
    LET before == GreatestOf({x \in IndexKeys(b) : x < k})
        after == LeastOf({x \in IndexKeys(b) : x > k})
        Counted(p) == IF p \notin DOMAIN b.prefixes
                      THEN [count |-> 1, minimum |-> k, maximum |-> k]
                      ELSE [count |-> b.prefixes[p].count + 1,
                            minimum |-> Min2(b.prefixes[p].minimum, k),
                            maximum |-> Max2(b.prefixes[p].maximum, k)]
    IN  [prefixes |-> [p \in DOMAIN b.prefixes \cup PrefixesOf(k) |->
                          IF p \in PrefixesOf(k) THEN Counted(p) ELSE b.prefixes[p]],
         leaves |-> [x \in IndexKeys(b) \cup {k} |->
                        IF x = k THEN [previous |-> before, next |-> after]
                        ELSE IF x = before THEN [b.leaves[x] EXCEPT !.next = k]
                        ELSE IF x = after THEN [b.leaves[x] EXCEPT !.previous = k]
                        ELSE b.leaves[x]]]

\* A prefix loses its last key, or its range is taken anew from the keys left.
XFastRemove(b, k) ==
    LET left == IndexKeys(b) \ {k}
        leaf == b.leaves[k]
    IN  [prefixes |->
            [p \in {q \in DOMAIN b.prefixes : q \in PrefixesOf(k) => b.prefixes[q].count # 1} |->
                IF p \notin PrefixesOf(k) THEN b.prefixes[p]
                ELSE [count |-> b.prefixes[p].count - 1, minimum |-> LeastOf(Under(left, p)),
                      maximum |-> GreatestOf(Under(left, p))]],
         leaves |-> [x \in left |->
             IF x = leaf.previous THEN [b.leaves[x] EXCEPT !.next = leaf.next]
             ELSE IF x = leaf.next THEN [b.leaves[x] EXCEPT !.previous = leaf.previous]
             ELSE b.leaves[x]]]

\* The longest prefix of k in the tables, by bisection of the levels.
RECURSIVE LongestPrefix(_, _, _, _)
LongestPrefix(b, k, low, high) ==
    LET middle == low + (high - low + 1) \div 2
    IN  IF low >= high THEN <<low, Prefix(k, low)>>
        ELSE IF <<middle, Prefix(k, middle)>> \in DOMAIN b.prefixes
             THEN LongestPrefix(b, k, middle, high)
        ELSE LongestPrefix(b, k, low, middle - 1)

XFastLowerBound(b, k) ==
    LET p == LongestPrefix(b, k, 0, WordBits - 1)
    IN  IF k \in IndexKeys(b) THEN k
        ELSE IF IndexKeys(b) = {} THEN None
        ELSE IF Prefix(k, p[1] + 1) % 2 = 0 THEN b.prefixes[p].minimum
        ELSE b.leaves[b.prefixes[p].maximum].next

XFastOf(S) ==
    [prefixes |-> [p \in UNION {PrefixesOf(x) : x \in S} |->
                      [count |-> Cardinality(Under(S, p)), minimum |-> LeastOf(Under(S, p)),
                       maximum |-> GreatestOf(Under(S, p))]],
     leaves |-> [x \in S |-> [previous |-> GreatestOf({y \in S : y < x}),
                              next |-> LeastOf({y \in S : y > x})]]]

\* ----------------------------------------------------------------- Y-fast
\* index: the X-fast trie of the representatives; buckets: a treap of the
\* keys up to each representative. The largest key always is one.
EmptyYFast == [index |-> XFastInsert(EmptyXFast, LargestKey),
               buckets |-> [r \in {LargestKey} |-> [root |-> Nil, len |-> 0]]]

Representative(b, k) == XFastLowerBound(b.index, k)

RECURSIVE SplitTree(_, _)
SplitTree(t, k) ==
    IF t = Nil THEN <<Nil, Nil>>
    ELSE IF t.key <= k
         THEN LET parts == SplitTree(t.right, k)
              IN  <<[t EXCEPT !.right = parts[1]], parts[2]>>
    ELSE LET parts == SplitTree(t.left, k) IN <<parts[1], [t EXCEPT !.left = parts[2]]>>

RECURSIVE MergeTrees(_, _)
MergeTrees(l, r) ==
    IF l = Nil THEN r
    ELSE IF r = Nil THEN l
    ELSE IF Higher(l, r) THEN [l EXCEPT !.right = MergeTrees(@, r)]
    ELSE [r EXCEPT !.left = MergeTrees(l, @)]

RECURSIVE BucketRemoved(_, _)
BucketRemoved(t, k) ==
    IF k < t.key THEN [t EXCEPT !.left = BucketRemoved(@, k)]
    ELSE IF k > t.key THEN [t EXCEPT !.right = BucketRemoved(@, k)]
    ELSE MergeTrees(t.left, t.right)

YFastInsert(b, k, priority, sampled) ==
    LET r == Representative(b, k)
        root == Inserted("treap", b.buckets[r].root, Node(k, priority))
        full == [b EXCEPT !.buckets[r] = [root |-> root, len |-> b.buckets[r].len + 1]]
        parts == SplitTree(root, k)
        below == Cardinality(KeysIn(parts[1]))
    IN  IF ~sampled \/ k = LargestKey THEN full
        ELSE [index |-> XFastInsert(b.index, k),
              buckets |-> [With(full.buckets, k, [root |-> parts[1], len |-> below])
                              EXCEPT ![r] = [root |-> parts[2], len |-> @.len - below]]]

\* A representative that goes takes its bucket into the next one.
YFastRemove(b, k) ==
    LET r == Representative(b, k)
        rest == [b EXCEPT !.buckets[r] = [root |-> BucketRemoved(@.root, k), len |-> @.len - 1]]
        after == LeastOf({x \in DOMAIN b.buckets : x > k})
        left == rest.buckets[k]
    IN  IF r # k \/ k = LargestKey THEN rest
        ELSE [index |-> XFastRemove(b.index, k),
              buckets |-> [Without(rest.buckets, k) EXCEPT
                  ![after] = [root |-> MergeTrees(left.root, @.root), len |-> left.len + @.len]]]
==============================================================================
