---------------------------- MODULE OrderedMaps ----------------------------
(* The ordered maps of crates/ordered-map/src behind their common interface: *)
(* one structure is chosen, and each operation of the OrderedMap trait is    *)
(* one step. by_key is the ordered index every structure but the splay tree, *)
(* the scapegoat tree and the skip list consults before it changes anything. *)
(* Values do not matter: overwriting one changes no structure but the splay  *)
(* tree's.                                                                   *)
EXTENDS DigitalTries

CONSTANTS Kinds,       \* the structures to choose from
          Keys,        \* by structure, the keys of its operations
          Ranks,       \* what a treap, zip or bucket node may draw
          Degree, MaxLevel

Multi == INSTANCE MultiwayMaps

VARIABLES kind, body, by_key

vars == <<kind, body, by_key>>

Plain == {"avl", "aa", "weight-balanced", "llrb"}
Cartesian == {"treap", "zip"}

Empty(m) ==
    CASE m \in Plain \cup Cartesian \cup {"splay"} -> Nil
      [] m = "scapegoat" -> [tree |-> Nil, q |-> 0]
      [] m = "b-tree" -> Multi!EmptyB
      [] m = "skip-list" -> Multi!EmptySkip
      [] m = "veb" -> EmptyVeb
      [] m = "x-fast" -> EmptyXFast
      [] m = "y-fast" -> EmptyYFast

Init ==
    /\ kind \in Kinds
    /\ body = Empty(kind)
    /\ by_key = {}

\* What an insertion draws at random.
Draws ==
    CASE kind \in Cartesian -> Ranks
      [] kind = "skip-list" -> 1..MaxLevel
      [] kind = "y-fast" -> Ranks \X BOOLEAN
      [] OTHER -> {0}

WithKey(k, draw) ==
    CASE kind = "llrb" -> Blackened(Inserted(kind, body, Node(k, Red)))
      [] kind \in Plain \ {"llrb"} -> Inserted(kind, body, Node(k, 1))
      [] kind \in Cartesian -> Inserted(kind, body, Node(k, draw))
      [] kind = "scapegoat" -> ScapegoatInsert(body, k)
      [] kind = "splay" -> SplayInsert(body, k)
      [] kind = "b-tree" -> Multi!BTreeInsert(body, k)
      [] kind = "skip-list" -> Multi!SkipInsert(body, k, draw)
      [] kind = "veb" -> VebInsert(WordBits, body, k)
      [] kind = "x-fast" -> XFastInsert(body, k)
      [] kind = "y-fast" -> YFastInsert(body, k, draw[1], draw[2])

WithoutKey(k) ==
    CASE kind = "llrb" -> LlrbRemove(body, k)
      [] kind \in Plain \ {"llrb"} -> Removed(kind, body, k)
      [] kind \in Cartesian -> Sunk(body, k)
      [] kind = "scapegoat" -> ScapegoatRemove(body, k)
      [] kind = "splay" -> SplayRemove(body, k)
      [] kind = "b-tree" -> Multi!BTreeRemove(body, k)
      [] kind = "skip-list" -> Multi!SkipRemove(body, k)
      [] kind = "veb" -> VebRemove(WordBits, body, k)
      [] kind = "x-fast" -> XFastRemove(body, k)
      [] kind = "y-fast" -> YFastRemove(body, k)

\* A query changes nothing, except that a splay tree moves the node it ends
\* at to its root; a lower bound splays the bound.
Touched(k) == IF kind = "splay" THEN Splayed(body, k) ELSE body

Contains(k) ==
    CASE kind \in Plain \cup Cartesian -> Holds(body, k)
      [] kind = "scapegoat" -> Holds(body.tree, k)
      [] kind = "splay" -> LET t == Touched(k) IN t # Nil /\ t.key = k
      [] kind = "b-tree" -> Multi!FindB(body, k, FALSE, None) = k
      [] kind = "skip-list" -> Multi!SkipCandidate(body, k) = k
      [] kind = "veb" -> VebContains(WordBits, body, k)
      [] kind = "x-fast" -> k \in IndexKeys(body)
      [] kind = "y-fast" -> Holds(body.buckets[Representative(body, k)].root, k)

SplayBound(k) ==
    LET bound == LowerBound(body, k, None)
        t == Splayed(body, IF bound = None THEN k ELSE bound)
    IN  IF t # Nil /\ t.key >= k THEN t.key ELSE None

Bound(k) ==
    CASE kind \in Plain \cup Cartesian -> LowerBound(body, k, None)
      [] kind = "scapegoat" -> LowerBound(body.tree, k, None)
      [] kind = "splay" -> SplayBound(k)
      [] kind = "b-tree" -> Multi!FindB(body, k, TRUE, None)
      [] kind = "skip-list" -> LET n == Multi!SkipCandidate(body, k)
                               IN  IF n = Multi!Nowhere THEN None ELSE n
      [] kind = "veb" -> IF VebContains(WordBits, body, k) THEN k
                         ELSE VebSuccessor(WordBits, body, k)
      [] kind = "x-fast" -> XFastLowerBound(body, k)
      [] kind = "y-fast" -> LowerBound(body.buckets[Representative(body, k)].root, k, None)

\* Whether the structure takes the key for stored: the index says so, or
\* the structure itself where it is searched first.
Stored(k) ==
    IF kind \in {"splay", "scapegoat", "skip-list"} THEN Contains(k) ELSE k \in by_key

Insert(k) ==
    /\ \E draw \in Draws : body' = IF Stored(k) THEN Touched(k) ELSE WithKey(k, draw)
    /\ by_key' = by_key \cup {k}
    /\ UNCHANGED kind

Remove(k) ==
    /\ body' = IF Stored(k) THEN WithoutKey(k) ELSE Touched(k)
    /\ by_key' = by_key \ {k}
    /\ UNCHANGED kind

Get(k) == body' = Touched(k) /\ UNCHANGED <<kind, by_key>>

GetLowerBound(k) ==
    /\ LET bound == LowerBound(body, k, None)
       IN  body' = IF kind = "splay" /\ bound # None THEN Touched(bound) ELSE Touched(k)
    /\ UNCHANGED <<kind, by_key>>

Next == \E k \in Keys[kind] : Insert(k) \/ Remove(k) \/ Get(k) \/ GetLowerBound(k)

Spec == Init /\ [][Next]_vars

-----------------------------------------------------------------------------
\* What each structure's check_invariants asks of it; for the vEB tree and
\* the X-fast trie, the one structure their keys can have.

Ordered(t) == \A i, j \in DOMAIN InOrder(t) : i < j => InOrder(t)[i] < InOrder(t)[j]
HeapOrdered(t) ==
    \A u \in Subtrees(t) : \A c \in {u.left, u.right} \ {Nil} : ~Higher(c, u)

RECURSIVE BlackHeights(_)
BlackHeights(t) ==
    IF t = Nil THEN {1}
    ELSE {h + (IF IsRed(t) THEN 0 ELSE 1) :
             h \in BlackHeights(t.left) \cup BlackHeights(t.right)}

ValidAvl(u) == /\ u.meta = 1 + Max2(Meta(u.left), Meta(u.right))
               /\ Factor(u) \in -1..1
ValidSize(u) == u.meta = 1 + Meta(u.left) + Meta(u.right)
ValidWbt(u) == /\ ValidSize(u)
               /\ 3 * Weight(u.left) >= Weight(u.right)
               /\ 3 * Weight(u.right) >= Weight(u.left)
ValidAa(u) == /\ u.meta >= 1
              /\ Meta(u.left) + 1 = u.meta
              /\ Meta(u.right) \in {u.meta, u.meta - 1}
              /\ u.right # Nil => Meta(u.right.right) < u.meta
              /\ u.meta > 1 => u.left # Nil /\ u.right # Nil
ValidLlrb(u) == ~IsRed(u.right) /\ ~(IsRed(u) /\ IsRed(u.left))

ValidB(root) ==
    /\ \A n \in Multi!NodesBelow(root) :
           /\ Len(n.keys) <= 2 * Degree - 1
           /\ n # root => Len(n.keys) >= Degree - 1
           /\ ~Multi!IsLeaf(n) => Len(n.children) = Len(n.keys) + 1
    /\ Multi!KeysBelow(root) = by_key

\* Every level links, in order, the keys whose nodes reach it.
ValidSkip ==
    /\ DOMAIN body = by_key \cup {Multi!SkipHead}
    /\ \A n \in DOMAIN body : \A level \in DOMAIN body[n] :
           body[n][level] = LET higher == {x \in by_key : x > n /\ Len(body[x]) >= level}
                            IN  IF higher = {} THEN Multi!Nowhere ELSE Sets!Min(higher)

ValidYFast ==
    /\ body.index = XFastOf(DOMAIN body.buckets)
    /\ LargestKey \in DOMAIN body.buckets
    /\ \A r \in DOMAIN body.buckets :
           LET t == body.buckets[r].root
           IN  /\ Ordered(t)
               /\ HeapOrdered(t)
               /\ body.buckets[r].len = Cardinality(KeysIn(t))
               /\ r # LargestKey => r \in KeysIn(t)
               /\ KeysIn(t) = {x \in by_key : x <= r /\ \A s \in DOMAIN body.buckets : s < r => s < x}

ValidTree(t) == Ordered(t) /\ KeysIn(t) = by_key

\* Every structure keeps the invariant its check_invariants states, holds
\* exactly the keys of its index, and each update leaves it so. A scapegoat tree
\* is never deeper than alpha allows for the most keys it held since its last
\* rebuild: an insertion that goes too deep finds an ancestor to rebuild, and
\* one rebuild is enough.
Shapely ==
    CASE kind = "avl" -> ValidTree(body) /\ \A u \in Subtrees(body) : ValidAvl(u)
      [] kind = "weight-balanced" -> ValidTree(body) /\ \A u \in Subtrees(body) : ValidWbt(u)
      [] kind = "aa" -> ValidTree(body) /\ \A u \in Subtrees(body) : ValidAa(u)
      [] kind = "llrb" -> /\ ValidTree(body)
                          /\ \A u \in Subtrees(body) : ValidLlrb(u)
                          /\ Cardinality(BlackHeights(body)) = 1
                          /\ ~IsRed(body)
      [] kind = "scapegoat" -> /\ ValidTree(body.tree)
                               /\ \A u \in Subtrees(body.tree) : ValidSize(u)
                               /\ body.q >= Meta(body.tree)
                               /\ body.q > 0 => Depth(body.tree) <= MaximumDepth(body.q) + 1
      [] kind = "splay" -> ValidTree(body)
      [] kind \in Cartesian -> ValidTree(body) /\ HeapOrdered(body)
      [] kind = "b-tree" -> ValidB(body)
      [] kind = "skip-list" -> ValidSkip
      [] kind = "veb" -> body = VebOf(WordBits, by_key)
      [] kind = "x-fast" -> body = XFastOf(by_key)
      [] kind = "y-fast" -> ValidYFast

\* Get finds a key if and only if it is stored, and LowerBound answers with
\* the least stored key that is not smaller, in every structure.
AnswersExact ==
    \A k \in Keys[kind] : /\ Contains(k) <=> k \in by_key
                          /\ Bound(k) = LeastOf({x \in by_key : x >= k})
=============================================================================
