----------------------------- MODULE SearchTrees -----------------------------
(* The binary search trees of crates/ordered-map/src: AVL, AA, left-leaning *)
(* red-black, weight-balanced, scapegoat, splay, treap and zip. A tree is   *)
(* Nil or a node with a key, the metadata its balancing keeps (height,      *)
(* level, colour, size, priority or rank) and two subtrees. A node holds    *)
(* the entry of its key, so entries are not written out; a removal that     *)
(* copies the successor into the removed node copies key and entry alike.   *)
(* The code rebalances the nodes of the removal path bottom-up after the    *)
(* removal and relinks each result to its parent: here the recursion itself *)
(* rebalances on its way up.                                                *)
EXTENDS Integers, Sequences, FiniteSets

CONSTANTS Numerator, Denominator    \* alpha of the scapegoat tree

Max2(a, b) == IF a >= b THEN a ELSE b
Min2(a, b) == IF a <= b THEN a ELSE b

Nil == [none |-> TRUE]
Red == 1
Black == 0
Meta(t) == IF t = Nil THEN 0 ELSE t.meta
Node(k, m) == [key |-> k, meta |-> m, left |-> Nil, right |-> Nil]

RECURSIVE InOrder(_), Subtrees(_), Depth(_)
InOrder(t) == IF t = Nil THEN <<>> ELSE InOrder(t.left) \o <<t.key>> \o InOrder(t.right)
Subtrees(t) == IF t = Nil THEN {} ELSE {t} \cup Subtrees(t.left) \cup Subtrees(t.right)
Depth(t) == IF t = Nil THEN 0 ELSE 1 + Max2(Depth(t.left), Depth(t.right))
KeysIn(t) == {u.key : u \in Subtrees(t)}

RECURSIVE Holds(_, _)
Holds(t, k) ==
    /\ t # Nil
    /\ \/ k = t.key
       \/ Holds(IF k < t.key THEN t.left ELSE t.right, k)

\* The least key not below k, or the candidate met on the way.
RECURSIVE LowerBound(_, _, _)
LowerBound(t, k, candidate) ==
    IF t = Nil THEN candidate
    ELSE IF k = t.key THEN k
    ELSE IF k < t.key THEN LowerBound(t.left, k, t.key)
    ELSE LowerBound(t.right, k, candidate)

\* ------------------------------------------------------------- rotations
\* The metadata a node derives from its subtrees; levels, priorities and
\* ranks are its own.
Measured(kind, t) ==
    [t EXCEPT !.meta =
        CASE kind = "avl" -> 1 + Max2(Meta(t.left), Meta(t.right))
          [] kind \in {"weight-balanced", "scapegoat"} -> 1 + Meta(t.left) + Meta(t.right)
          [] OTHER -> t.meta]

RotateLeft(kind, t) ==
    Measured(kind, [t.right EXCEPT !.left = Measured(kind, [t EXCEPT !.right = t.right.left])])
RotateRight(kind, t) ==
    Measured(kind, [t.left EXCEPT !.right = Measured(kind, [t EXCEPT !.left = t.left.right])])

\* -------------------------------------------------------------------- AVL
Factor(t) == Meta(t.left) - Meta(t.right)

AvlBalance(u) ==
    LET t == Measured("avl", u)
    IN  IF Factor(t) > 1 THEN
            RotateRight("avl", IF Factor(t.left) < 0
                               THEN [t EXCEPT !.left = RotateLeft("avl", @)] ELSE t)
        ELSE IF Factor(t) < -1 THEN
            RotateLeft("avl", IF Factor(t.right) > 0
                              THEN [t EXCEPT !.right = RotateRight("avl", @)] ELSE t)
        ELSE t

\* -------------------------------------------------------- weight-balanced
Weight(t) == Meta(t) + 1

WbtBalance(u) ==
    LET t == Measured("weight-balanced", u)
    IN  IF 3 * Weight(t.left) < Weight(t.right) THEN
            RotateLeft("weight-balanced",
                IF Weight(t.right.left) < 2 * Weight(t.right.right) THEN t
                ELSE [t EXCEPT !.right = RotateRight("weight-balanced", @)])
        ELSE IF 3 * Weight(t.right) < Weight(t.left) THEN
            RotateRight("weight-balanced",
                IF Weight(t.left.right) < 2 * Weight(t.left.left) THEN t
                ELSE [t EXCEPT !.left = RotateLeft("weight-balanced", @)])
        ELSE t

\* --------------------------------------------------------------------- AA
Skew(t) == IF t.left # Nil /\ Meta(t.left) = t.meta THEN RotateRight("aa", t) ELSE t

Split(t) ==
    IF t.right # Nil /\ t.right.right # Nil /\ Meta(t.right.right) = t.meta
    THEN [RotateLeft("aa", t) EXCEPT !.meta = @ + 1] ELSE t

DecreaseLevel(t) ==
    LET expected == Min2(Meta(t.left), Meta(t.right)) + 1
    IN  IF expected >= t.meta THEN t
        ELSE [t EXCEPT !.meta = expected,
                       !.right = IF @ = Nil THEN Nil ELSE [@ EXCEPT !.meta = Min2(@, expected)]]

OnRight(t, u) == [t EXCEPT !.right = u]
SkewRight(t) == IF t.right = Nil THEN t ELSE OnRight(t, Skew(t.right))

\* Mutant: the right child's right spine is not skewed.
AaRepairShort(t) ==
    LET u == Split(SkewRight(Skew(DecreaseLevel(t))))
    IN  IF u.right = Nil THEN u ELSE OnRight(u, Split(u.right))

AaRepair(t) ==
    LET s == SkewRight(Skew(DecreaseLevel(t)))
        r == IF s.right = Nil THEN s ELSE OnRight(s, SkewRight(s.right))
        u == Split(r)
    IN  IF u.right = Nil THEN u ELSE OnRight(u, Split(u.right))

\* -------------------------------------------------- treap, zip and buckets
Higher(a, b) == a.meta > b.meta \/ (a.meta = b.meta /\ a.key < b.key)

Raised(t, k) ==
    IF k < t.key THEN (IF Higher(t.left, t) THEN RotateRight("treap", t) ELSE t)
    ELSE (IF Higher(t.right, t) THEN RotateLeft("treap", t) ELSE t)

RECURSIVE Sunk(_, _)
Sunk(t, k) ==
    IF t = Nil THEN Nil
    ELSE IF k < t.key THEN [t EXCEPT !.left = Sunk(@, k)]
    ELSE IF k > t.key THEN [t EXCEPT !.right = Sunk(@, k)]
    ELSE IF t.left = Nil THEN t.right
    ELSE IF t.right = Nil THEN t.left
    ELSE IF Higher(t.left, t.right) THEN [RotateRight("treap", t) EXCEPT !.right = Sunk(@, k)]
    ELSE [RotateLeft("treap", t) EXCEPT !.left = Sunk(@, k)]

\* ----------------------------------------------- left-leaning red-black
IsRed(t) == t # Nil /\ t.meta = Red
LeftLeft(t) == IF t.left = Nil THEN Nil ELSE t.left.left
RightLeft(t) == IF t.right = Nil THEN Nil ELSE t.right.left

RedLeft(t) == [t.right EXCEPT !.meta = t.meta,
                              !.left = [t EXCEPT !.meta = Red, !.right = t.right.left]]
RedRight(t) == [t.left EXCEPT !.meta = t.meta,
                              !.right = [t EXCEPT !.meta = Red, !.left = t.left.right]]

Flipped(t) == IF t = Nil THEN Nil ELSE [t EXCEPT !.meta = 1 - @]
FlipColors(t) == [Flipped(t) EXCEPT !.left = Flipped(@), !.right = Flipped(@)]

SplitFour(t) == IF IsRed(t.left) /\ IsRed(t.right) THEN FlipColors(t) ELSE t
LeanBack(t) == IF IsRed(t.left) /\ IsRed(LeftLeft(t)) THEN RedRight(t) ELSE t
FixUp(t) == SplitFour(LeanBack(IF IsRed(t.right) THEN RedLeft(t) ELSE t))
LlrbGrown(t) ==
    SplitFour(LeanBack(IF IsRed(t.right) /\ ~IsRed(t.left) THEN RedLeft(t) ELSE t))

MoveRedLeft(t) ==
    LET u == FlipColors(t)
    IN  IF IsRed(RightLeft(u)) THEN FlipColors(RedLeft([u EXCEPT !.right = RedRight(@)])) ELSE u

MoveRedRight(t) ==
    LET u == FlipColors(t) IN IF IsRed(LeftLeft(u)) THEN FlipColors(RedRight(u)) ELSE u

\* Make sure that the left (right) subtree can lose a node.
ReadyLeft(t) == IF ~IsRed(t.left) /\ ~IsRed(LeftLeft(t)) THEN MoveRedLeft(t) ELSE t
ReadyRight(t) == IF ~IsRed(t.right) /\ ~IsRed(RightLeft(t)) THEN MoveRedRight(t) ELSE t

RECURSIVE Smallest(_)
Smallest(t) == IF t.left = Nil THEN t.key ELSE Smallest(t.left)

RECURSIVE DeleteMin(_)
DeleteMin(t) ==
    IF t.left = Nil THEN t.right
    ELSE LET u == ReadyLeft(t) IN FixUp([u EXCEPT !.left = DeleteMin(@)])

RECURSIVE LlrbRemoved(_, _)
LlrbRemoved(t, k) ==
    IF k < t.key THEN LET u == ReadyLeft(t) IN FixUp([u EXCEPT !.left = LlrbRemoved(@, k)])
    ELSE LET u == IF IsRed(t.left) THEN RedRight(t) ELSE t
         IN  IF k = u.key /\ u.right = Nil THEN Nil
             ELSE LET v == ReadyRight(u)
                  IN  FixUp(IF k = v.key
                            THEN [v EXCEPT !.key = Smallest(v.right), !.right = DeleteMin(@)]
                            ELSE [v EXCEPT !.right = LlrbRemoved(@, k)])

Blackened(t) == IF t = Nil THEN Nil ELSE [t EXCEPT !.meta = Black]
LlrbRemove(t, k) ==
    Blackened(LlrbRemoved(IF IsRed(t.left) \/ IsRed(t.right) THEN t
                          ELSE [t EXCEPT !.meta = Red], k))

\* ---------------------------------------- insertion and removal by descent
Grown(kind, t, k) ==
    CASE kind = "avl" -> AvlBalance(t)
      [] kind = "weight-balanced" -> WbtBalance(t)
      [] kind = "aa" -> Split(Skew(t))
      [] kind = "llrb" -> LlrbGrown(t)
      [] kind = "scapegoat" -> Measured(kind, t)
      [] kind \in {"treap", "zip"} -> Raised(t, k)

Shrunk(kind, t) ==
    CASE kind = "avl" -> AvlBalance(t)
      [] kind = "weight-balanced" -> WbtBalance(t)
      [] kind = "aa" -> AaRepair(t)
      [] kind = "scapegoat" -> Measured(kind, t)

RECURSIVE Inserted(_, _, _)
Inserted(kind, t, node) ==
    IF t = Nil THEN node
    ELSE Grown(kind, IF node.key < t.key THEN [t EXCEPT !.left = Inserted(kind, @, node)]
                     ELSE [t EXCEPT !.right = Inserted(kind, @, node)], node.key)

RECURSIVE WithoutSmallest(_, _)
WithoutSmallest(kind, t) ==
    IF t.left = Nil THEN t.right
    ELSE Shrunk(kind, [t EXCEPT !.left = WithoutSmallest(kind, @)])

RECURSIVE Removed(_, _, _)
Removed(kind, t, k) ==
    IF k < t.key THEN Shrunk(kind, [t EXCEPT !.left = Removed(kind, @, k)])
    ELSE IF k > t.key THEN Shrunk(kind, [t EXCEPT !.right = Removed(kind, @, k)])
    ELSE IF t.left = Nil THEN t.right
    ELSE IF t.right = Nil THEN t.left
    ELSE Shrunk(kind, [t EXCEPT !.key = Smallest(t.right), !.right = WithoutSmallest(kind, @)])

\* -------------------------------------------------------------- scapegoat
RECURSIVE Power(_, _)
Power(b, e) == IF e = 0 THEN 1 ELSE b * Power(b, e - 1)

\* The greatest depth d with (1 / alpha) ^ d <= q.
RECURSIVE DepthFor(_, _)
DepthFor(q, d) ==
    IF Power(Denominator, d + 1) <= q * Power(Numerator, d + 1) THEN DepthFor(q, d + 1) ELSE d
MaximumDepth(q) == DepthFor(q, 0)

RECURSIVE BuildBalanced(_)
BuildBalanced(s) ==
    IF s = <<>> THEN Nil
    ELSE LET middle == (Len(s) \div 2) + 1
         IN  [key |-> s[middle], meta |-> Len(s),
              left |-> BuildBalanced(SubSeq(s, 1, middle - 1)),
              right |-> BuildBalanced(SubSeq(s, middle + 1, Len(s)))]

RECURSIVE DepthOf(_, _)
DepthOf(t, k) == IF t.key = k THEN 0 ELSE 1 + DepthOf(IF k < t.key THEN t.left ELSE t.right, k)

AlphaViolation(child, parent) == child.meta * Denominator > parent.meta * Numerator

\* From the new key upwards, rebuild the first ancestor that is too heavy on
\* one side. The result says whether one was found.
RECURSIVE Relieved(_, _)
Relieved(t, k) ==
    IF t.key = k THEN [tree |-> t, done |-> FALSE]
    ELSE LET child == IF k < t.key THEN t.left ELSE t.right
             below == Relieved(child, k)
         IN  IF below.done \/ ~AlphaViolation(child, t)
             THEN [tree |-> IF k < t.key THEN [t EXCEPT !.left = below.tree]
                            ELSE [t EXCEPT !.right = below.tree], done |-> below.done]
             ELSE [tree |-> BuildBalanced(InOrder(t)), done |-> TRUE]

ScapegoatInsert(b, k) ==
    LET t == Inserted("scapegoat", b.tree, Node(k, 1))
        q == Max2(b.q, t.meta)
    IN  [tree |-> IF DepthOf(t, k) > MaximumDepth(q) THEN Relieved(t, k).tree ELSE t, q |-> q]

ScapegoatRemove(b, k) ==
    LET t == Removed("scapegoat", b.tree, k)
    IN  IF Meta(t) * Denominator < b.q * Numerator
        THEN [tree |-> BuildBalanced(InOrder(t)), q |-> Meta(t)]
        ELSE [tree |-> t, q |-> b.q]

\* ------------------------------------------------------------------ splay
RollRight(t) == IF t.left = Nil THEN t ELSE RotateRight("splay", t)
RollLeft(t) == IF t.right = Nil THEN t ELSE RotateLeft("splay", t)

ZigZagLeft(t) == RollRight([t EXCEPT !.left = RollLeft(@)])
ZigZagRight(t) == RollLeft([t EXCEPT !.right = RollRight(@)])

\* The last key met on the way to k becomes the root.
RECURSIVE Splayed(_, _)
Splayed(t, k) ==
    IF t = Nil \/ k = t.key THEN t
    ELSE IF k < t.key THEN
        IF t.left = Nil THEN t
        ELSE IF k = t.left.key THEN RotateRight("splay", t)
        ELSE IF k < t.left.key
             THEN RollRight(RotateRight("splay", [t EXCEPT !.left.left = Splayed(@, k)]))
        ELSE ZigZagLeft([t EXCEPT !.left.right = Splayed(@, k)])
    ELSE
        IF t.right = Nil THEN t
        ELSE IF k = t.right.key THEN RotateLeft("splay", t)
        ELSE IF k > t.right.key
             THEN RollLeft(RotateLeft("splay", [t EXCEPT !.right.right = Splayed(@, k)]))
        ELSE ZigZagRight([t EXCEPT !.right.left = Splayed(@, k)])

SplayInsert(t, k) ==
    LET u == Splayed(t, k)
    IN  IF u = Nil THEN Node(k, 0)
        ELSE IF u.key = k THEN u
        ELSE IF k < u.key
             THEN [Node(k, 0) EXCEPT !.left = u.left, !.right = [u EXCEPT !.left = Nil]]
        ELSE [Node(k, 0) EXCEPT !.left = [u EXCEPT !.right = Nil], !.right = u.right]

RECURSIVE Largest(_), JoinedRight(_, _)
Largest(t) == IF t.right = Nil THEN t.key ELSE Largest(t.right)
JoinedRight(t, r) == IF t.right = Nil THEN [t EXCEPT !.right = r]
                     ELSE [t EXCEPT !.right = JoinedRight(@, r)]

SplayRemove(t, k) ==
    LET u == Splayed(t, k)
    IN  IF u = Nil \/ u.key # k THEN u
        ELSE IF u.left = Nil THEN u.right
        ELSE Splayed(JoinedRight(u.left, u.right), Largest(u.left))
==============================================================================
