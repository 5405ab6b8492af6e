------------------------------ MODULE ArenaProofs ------------------------------
(***************************************************************************)
(* Proofs about Arena for every number of slots and generations, every     *)
(* value set and every slice budget.                                       *)
(***************************************************************************)
EXTENDS MCArena, SequenceTheorems, Sums

USE ArenaAssumption DEF ArenaAssumption

(***************************************************************************)
(* Slots                                                                   *)
(***************************************************************************)

LEMMA SlotShape ==
    /\ \A g \in 0..MaxGeneration, v \in Values : Occupied(g, v) \in Slot
    /\ \A g \in 0..MaxGeneration, n \in 0..SlotLimit : Vacant(g, n) \in Slot
    /\ \A g \in 0..MaxGeneration : Retired(g) \in Slot
BY DEF Slot, Occupied, Vacant, Retired

LEMMA SlotFields ==
    ASSUME NEW s \in Seq(Slot), NEW i \in DOMAIN s
    PROVE  /\ s[i] \in Slot
           /\ s[i].generation \in 0..MaxGeneration
           /\ s[i].next \in 0..SlotLimit
           /\ s[i].tag \in {"occupied", "vacant", "retired"}
           /\ s[i].tag = "occupied" => s[i].value \in Values
           /\ i \in 1..Len(s)
BY DEF Slot

\* The slots of one kind are finitely many.
LEMMA TaggedFinite ==
    ASSUME NEW s \in Seq(Slot), NEW t
    PROVE  IsFiniteSet(Tagged(s, t)) /\ Cardinality(Tagged(s, t)) \in Nat
<1>1. Tagged(s, t) \subseteq 1..Len(s)
    BY DEF Tagged
<1>2. IsFiniteSet(1..Len(s))
    BY FS_Interval
<1> QED
    BY <1>1, <1>2, FS_Subset, FS_CardinalityType

LEMMA FirstNumbers ==
    ASSUME NEW n \in Nat
    PROVE  IsFiniteSet(1..n) /\ Cardinality(1..n) = n
<1>1. IsFiniteSet(1..n) /\ Cardinality(1..n) = IF 1 > n THEN 0 ELSE n - 1 + 1
    BY FS_Interval
<1> QED
    BY <1>1

\* Changing one slot moves it from its own kind to the other.
LEMMA TaggedExcept ==
    ASSUME NEW s \in Seq(Slot), NEW i \in DOMAIN s, NEW x \in Slot, NEW t
    PROVE  /\ [s EXCEPT ![i] = x] \in Seq(Slot)
           /\ Len([s EXCEPT ![i] = x]) = Len(s)
           /\ DOMAIN [s EXCEPT ![i] = x] = DOMAIN s
           /\ Tagged([s EXCEPT ![i] = x], t) =
                 (Tagged(s, t) \ {i}) \cup (IF x.tag = t THEN {i} ELSE {})
BY DEF Tagged

\* The same for a slot pushed at the end.
LEMMA TaggedAppend ==
    ASSUME NEW s \in Seq(Slot), NEW x \in Slot, NEW t
    PROVE  /\ Append(s, x) \in Seq(Slot)
           /\ Len(Append(s, x)) = Len(s) + 1
           /\ \A i \in DOMAIN s : Append(s, x)[i] = s[i]
           /\ Tagged(Append(s, x), t) =
                 Tagged(s, t) \cup (IF x.tag = t THEN {Len(s) + 1} ELSE {})
<1>1. DOMAIN s = 1..Len(s) /\ DOMAIN Append(s, x) = 1..(Len(s) + 1)
    OBVIOUS
<1>2. \A i \in 1..Len(s) : Append(s, x)[i] = s[i]
    OBVIOUS
<1>3. Append(s, x)[Len(s) + 1] = x
    OBVIOUS
<1>4. Tagged(Append(s, x), t) \subseteq Tagged(s, t) \cup (IF x.tag = t THEN {Len(s) + 1} ELSE {})
    BY <1>1, <1>2, <1>3 DEF Tagged
<1>5. Tagged(s, t) \cup (IF x.tag = t THEN {Len(s) + 1} ELSE {}) \subseteq Tagged(Append(s, x), t)
    BY <1>1, <1>2, <1>3 DEF Tagged
<1> QED
    BY <1>1, <1>2, <1>4, <1>5

(***************************************************************************)
(* The free list                                                           *)
(***************************************************************************)

\* The head of a free list is vacant, and it is None only when no slot is.
LEMMA FreeHead ==
    ASSUME NEW s \in Seq(Slot), NEW head, FreeList(s, head)
    PROVE  /\ head = 0 <=> Tagged(s, "vacant") = {}
           /\ head # 0 => head \in Tagged(s, "vacant")
<1> DEFINE free == Tagged(s, "vacant")
           n == Cardinality(free)
<1>1. n \in Nat /\ IsFiniteSet(free)
    BY TaggedFinite
<1>2. PICK order \in [1..n -> free] : FreeOrder(s, head, n, order)
    BY DEF FreeList
<1>3. n = 0 <=> free = {}
    BY <1>1, FS_EmptySet
<1>4. \A i \in free : i \in Nat /\ i # 0
    BY DEF Tagged
<1> QED
    BY <1>1, <1>2, <1>3, <1>4 DEF FreeOrder

\* Pushing a slot that was in use keeps the free list exact.
LEMMA FreePush ==
    ASSUME NEW s \in Seq(Slot), NEW head \in 0..SlotLimit, FreeList(s, head),
           NEW i \in DOMAIN s, s[i].tag = "occupied", NEW g \in 0..MaxGeneration
    PROVE  FreeList([s EXCEPT ![i] = Vacant(g, head)], i)
<1> DEFINE free == Tagged(s, "vacant")
           n == Cardinality(free)
           t == [s EXCEPT ![i] = Vacant(g, head)]
           later == Tagged(t, "vacant")
<1>1. n \in Nat /\ IsFiniteSet(free)
    BY TaggedFinite
<1>2. PICK order \in [1..n -> free] : FreeOrder(s, head, n, order)
    BY DEF FreeList
<1>3. i \notin free
    BY DEF Tagged
<1>4. later = free \cup {i}
    BY <1>3, SlotShape, TaggedExcept, SMTT(30) DEF Vacant
<1>5. Cardinality(later) = n + 1
    BY <1>1, <1>3, <1>4, FS_AddElement
<1> DEFINE front == [j \in 1..(n + 1) |-> IF j = 1 THEN i ELSE order[j - 1]]
<1>6. front \in [1..(n + 1) -> later]
  <2>1. \A j \in 1..(n + 1) : j # 1 => j - 1 \in 1..n
    BY <1>1
  <2>2. \A j \in 1..(n + 1) : (IF j = 1 THEN i ELSE order[j - 1]) \in free \cup {i}
    BY <1>2, <2>1
  <2> QED
    BY <1>4, <2>2
<1>7. \A j \in 1..n : t[order[j]] = s[order[j]]
    BY <1>2, <1>3 DEF Tagged
<1>8. t[i].next = head
    BY DEF Vacant
<1>9. FreeOrder(t, i, n + 1, front)
  <2>1. i = IF n + 1 = 0 THEN 0 ELSE front[1]
    BY <1>1
  <2>2. \A j \in 1..(n + 1) : t[front[j]].next = IF j = n + 1 THEN 0 ELSE front[j + 1]
    <3> SUFFICES ASSUME NEW j \in 1..(n + 1)
                 PROVE  t[front[j]].next = IF j = n + 1 THEN 0 ELSE front[j + 1]
        OBVIOUS
    <3>1. CASE j = 1
        BY <1>1, <1>2, <1>8, <3>1 DEF FreeOrder
    <3>2. CASE j # 1
      <4>1. j - 1 \in 1..n /\ front[j] = order[j - 1]
          BY <1>1, <3>2
      <4>2. s[order[j - 1]].next = IF j - 1 = n THEN 0 ELSE order[(j - 1) + 1]
          BY <1>2, <4>1 DEF FreeOrder
      <4>3. j # n + 1 => front[j + 1] = order[j]
          BY <1>1, <3>2
      <4> QED
          BY <1>1, <1>7, <4>1, <4>2, <4>3
    <3> QED
        BY <3>1, <3>2
  <2>3. \A j, k \in 1..(n + 1) : front[j] = front[k] => j = k
    <3> SUFFICES ASSUME NEW j \in 1..(n + 1), NEW k \in 1..(n + 1), front[j] = front[k]
                 PROVE  j = k
        OBVIOUS
    <3>1. \A m \in 1..(n + 1) : m # 1 => m - 1 \in 1..n /\ front[m] \in free
        BY <1>1, <1>2
    <3>2. j = 1 <=> k = 1
        BY <1>3, <3>1
    <3>3. CASE j # 1
      <4>1. order[j - 1] = order[k - 1] /\ j - 1 \in 1..n /\ k - 1 \in 1..n
          BY <3>1, <3>2, <3>3
      <4>2. j - 1 = k - 1
          BY <1>2, <4>1 DEF FreeOrder
      <4> QED
          BY <4>2
    <3> QED
        BY <3>2, <3>3
  <2>4. \A k \in later : \E j \in 1..(n + 1) : front[j] = k
    <3> SUFFICES ASSUME NEW k \in later
                 PROVE  \E j \in 1..(n + 1) : front[j] = k
        OBVIOUS
    <3>1. CASE k = i
        BY <1>1, <3>1, SMTT(30)
    <3>2. CASE k \in free
      <4>1. PICK j \in 1..n : order[j] = k
          BY <1>2, <3>2 DEF FreeOrder
      <4>2. j + 1 \in 1..(n + 1) /\ front[j + 1] = k
          BY <1>1, <4>1
      <4> QED
          BY <4>2
    <3> QED
        BY <1>4, <3>1, <3>2
  <2> QED
    BY <2>1, <2>2, <2>3, <2>4 DEF FreeOrder
<1> QED
    BY <1>5, <1>6, <1>9 DEF FreeList

\* Popping the head keeps the rest of the free list exact.
LEMMA FreePop ==
    ASSUME NEW s \in Seq(Slot), NEW head, head # 0, FreeList(s, head),
           NEW x \in Slot, x.tag = "occupied"
    PROVE  FreeList([s EXCEPT ![head] = x], s[head].next)
<1> DEFINE free == Tagged(s, "vacant")
           n == Cardinality(free)
           t == [s EXCEPT ![head] = x]
           later == Tagged(t, "vacant")
<1>1. n \in Nat /\ IsFiniteSet(free)
    BY TaggedFinite
<1>2. PICK order \in [1..n -> free] : FreeOrder(s, head, n, order)
    BY DEF FreeList
<1>3. head \in free /\ head \in DOMAIN s /\ n # 0 /\ order[1] = head
    BY <1>1, <1>2, FreeHead DEF FreeOrder, Tagged
<1>4. later = free \ {head}
    BY <1>3, TaggedExcept
<1>5. Cardinality(later) = n - 1
  <2>1. Cardinality(free \ {head}) = n - 1
    BY <1>1, <1>3, FS_RemoveElement
  <2> QED
    BY <1>4, <2>1
<1> DEFINE rest == [j \in 1..(n - 1) |-> order[j + 1]]
<1>6. \A j \in 1..(n - 1) : order[j + 1] \in later
  <2> SUFFICES ASSUME NEW j \in 1..(n - 1)
               PROVE  order[j + 1] \in later
    OBVIOUS
  <2>1. j + 1 \in 1..n /\ 1 \in 1..n /\ j + 1 # 1
    BY <1>1, <1>3
  <2>2. order[j + 1] \in free /\ order[j + 1] # order[1]
    BY <1>2, <2>1 DEF FreeOrder
  <2> QED
    BY <1>3, <1>4, <2>2
<1>7. \A j \in 1..(n - 1) : t[rest[j]] = s[order[j + 1]]
    BY <1>4, <1>6 DEF Tagged
<1>8. FreeOrder(t, s[head].next, n - 1, rest)
  <2>1. s[head].next = IF n - 1 = 0 THEN 0 ELSE rest[1]
    BY <1>1, <1>2, <1>3 DEF FreeOrder
  <2>2. \A j \in 1..(n - 1) : t[rest[j]].next = IF j = n - 1 THEN 0 ELSE rest[j + 1]
    BY <1>1, <1>2, <1>7 DEF FreeOrder
  <2>3. \A j, k \in 1..(n - 1) : rest[j] = rest[k] => j = k
    BY <1>1, <1>2 DEF FreeOrder
  <2>4. \A k \in later : \E j \in 1..(n - 1) : rest[j] = k
    <3> SUFFICES ASSUME NEW k \in later
                 PROVE  \E j \in 1..(n - 1) : rest[j] = k
        OBVIOUS
    <3>1. PICK j \in 1..n : order[j] = k
        BY <1>2, <1>4 DEF FreeOrder
    <3>2. j # 1
        BY <1>3, <1>4, <3>1
    <3>3. j - 1 \in 1..(n - 1) /\ rest[j - 1] = k
        BY <1>1, <3>1, <3>2
    <3> QED
        BY <3>3
  <2> QED
    BY <2>1, <2>2, <2>3, <2>4 DEF FreeOrder
<1> QED
    BY <1>5, <1>6, <1>8 DEF FreeList

\* A change that leaves every vacant slot alone leaves the free list alone.
LEMMA FreeKeep ==
    ASSUME NEW s \in Seq(Slot), NEW t \in Seq(Slot), NEW head, FreeList(s, head),
           Tagged(t, "vacant") = Tagged(s, "vacant"),
           \A i \in Tagged(s, "vacant") : t[i] = s[i]
    PROVE  FreeList(t, head)
<1> DEFINE free == Tagged(s, "vacant")
           n == Cardinality(free)
<1>1. n \in Nat
    BY TaggedFinite
<1>2. PICK order \in [1..n -> free] : FreeOrder(s, head, n, order)
    BY DEF FreeList
<1>3. FreeOrder(t, head, n, order)
    BY <1>1, <1>2 DEF FreeOrder
<1> QED
    BY <1>3 DEF FreeList

(***************************************************************************)
(* The walk of validate_snapshot                                           *)
(***************************************************************************)

WalkStart(head) == [cursor |-> head, visited |-> {}, ok |-> TRUE]

\* The rounds of the walk one by one.
LEMMA WalkRuns ==
    ASSUME NEW s \in Seq(Slot), NEW head
    PROVE  \E w : /\ w[0] = WalkStart(head)
                  /\ \A i \in 1 .. Len(s) + 2 : w[i] = WalkRound(s, w[i - 1])
                  /\ Walked(s, head) = w[Len(s) + 2]
<1> DEFINE N == Len(s) + 2
           IsWalk(m, w) == w = [n \in 0 .. m |-> IF n = 0 THEN WalkStart(head)
                                                 ELSE WalkRound(s, w[n - 1])]
           good == {m \in 0 .. N : \E w : IsWalk(m, w)}
<1>1. N \in Nat
    OBVIOUS
<1>2. Walked(s, head) = (CHOOSE w : IsWalk(N, w))[N]
    BY DEF Walked, WalkStart
<1> HIDE DEF N
<1>3. 0 \in good
  <2>1. IsWalk(0, [i \in 0 .. 0 |-> WalkStart(head)])
    OBVIOUS
  <2>2. 0 \in 0 .. N
    BY <1>1
  <2> HIDE DEF IsWalk
  <2> QED
    BY <2>1, <2>2
<1>4. ASSUME NEW m \in 0 .. N, m > 0, m - 1 \in good PROVE m \in good
  <2>1. PICK w : IsWalk(m - 1, w)
    BY <1>4
  <2>2. \A i \in 0 .. (m - 1) :
            w[i] = IF i = 0 THEN WalkStart(head) ELSE WalkRound(s, w[i - 1])
    BY <2>1
  <2> DEFINE h == [i \in 0 .. m |-> IF i = m THEN WalkRound(s, w[m - 1]) ELSE w[i]]
  <2>3. \A i \in 0 .. m : h[i] = IF i = 0 THEN WalkStart(head) ELSE WalkRound(s, h[i - 1])
    <3> TAKE i \in 0 .. m
    <3>1. CASE i = m
        BY <1>4, <3>1
    <3>2. CASE i # m
      <4>1. i \in 0 .. (m - 1) /\ h[i] = w[i] /\ (i > 0 => h[i - 1] = w[i - 1])
          BY <3>2
      <4> QED
          BY <2>2, <4>1
    <3> QED
        BY <3>1, <3>2
  <2>4. h = [i \in 0 .. m |-> h[i]]
    OBVIOUS
  <2> HIDE DEF h
  <2>5. IsWalk(m, h)
    BY <2>3, <2>4
  <2> QED
    BY <2>5
<1> HIDE DEF good
<1>5. N \in good
  <2>1. 0 .. N \subseteq good
    BY <1>1, <1>3, <1>4, UpToInduction
  <2> QED
    BY <1>1, <2>1
<1>6. PICK w : IsWalk(N, w) /\ Walked(s, head) = w[N]
    BY <1>2, <1>5 DEF good
<1>7. \A i \in 0 .. N : w[i] = IF i = 0 THEN WalkStart(head) ELSE WalkRound(s, w[i - 1])
    BY <1>6
<1>8. w[0] = WalkStart(head) /\ \A i \in 1 .. N : w[i] = WalkRound(s, w[i - 1])
    BY <1>1, <1>7
<1> QED
    BY <1>6, <1>8 DEF N

\* The first m slots of a free list visited from `head`, the cursor next.
Trail(s, head, m, order, w) ==
    /\ order \in [1 .. m -> Tagged(s, "vacant")]
    /\ w.visited = {order[j] : j \in 1 .. m}
    /\ IsFiniteSet(w.visited) /\ Cardinality(w.visited) = m
    /\ head = IF m = 0 THEN w.cursor ELSE order[1]
    /\ \A j \in 1 .. m : s[order[j]].next = IF j = m THEN w.cursor ELSE order[j + 1]
    /\ \A i, j \in 1 .. m : order[i] = order[j] => i = j
    /\ w.ok => w.cursor \in 0 .. SlotLimit

\* A round that meets a vacant slot not yet visited lengthens the trail.
LEMMA TrailGrows ==
    ASSUME NEW s \in Seq(Slot), NEW head, NEW m \in Nat, NEW order, NEW w,
           w = [cursor |-> w.cursor, visited |-> w.visited, ok |-> w.ok],
           Trail(s, head, m, order, w), w.ok,
           w.cursor \in Tagged(s, "vacant"), w.cursor \notin w.visited
    PROVE  \E longer : Trail(s, head, m + 1, longer,
               [w EXCEPT !.visited = @ \cup {w.cursor}, !.cursor = s[w.cursor].next])
<1> DEFINE c == w.cursor
           x == [w EXCEPT !.visited = @ \cup {w.cursor}, !.cursor = s[w.cursor].next]
           free == Tagged(s, "vacant")
           longer == [j \in 1 .. (m + 1) |-> IF j = m + 1 THEN c ELSE order[j]]
<1>1. x.visited = w.visited \cup {c} /\ x.cursor = s[c].next /\ x.ok = w.ok
    OBVIOUS
<1>2. s[c].next \in 0 .. SlotLimit
    BY SlotFields DEF Tagged
<1>3. /\ order \in [1 .. m -> free] /\ w.visited = {order[j] : j \in 1 .. m}
      /\ IsFiniteSet(w.visited) /\ Cardinality(w.visited) = m
      /\ head = IF m = 0 THEN c ELSE order[1]
      /\ \A j \in 1 .. m : s[order[j]].next = IF j = m THEN c ELSE order[j + 1]
      /\ \A i, j \in 1 .. m : order[i] = order[j] => i = j
    BY DEF Trail
<1>4. c \in free /\ c \notin w.visited
    OBVIOUS
<1>5. IsFiniteSet(w.visited \cup {c}) /\ Cardinality(w.visited \cup {c}) = m + 1
    BY <1>3, <1>4, FS_AddElement
<1>6. \A j \in 1 .. m : j \in 1 .. (m + 1) /\ j # m + 1 /\ longer[j] = order[j] /\ order[j] # c
    BY <1>3, <1>4
<1>7. longer[m + 1] = c /\ m + 1 \in 1 .. (m + 1)
    OBVIOUS
<1>8. \A j \in 1 .. (m + 1) : j # m + 1 => j \in 1 .. m
    OBVIOUS
<1>9. longer \in [1 .. (m + 1) -> free]
    BY <1>3, <1>4, <1>6, <1>7, <1>8
<1> HIDE DEF longer, c, x, free
<1>10. w.visited \cup {c} = {longer[j] : j \in 1 .. (m + 1)}
  <2> DEFINE T == w.visited \cup {c}
             R == {longer[j] : j \in 1 .. (m + 1)}
  <2>1. ASSUME NEW k \in T PROVE k \in R
    BY <1>3, <1>6, <1>7
  <2>2. ASSUME NEW j \in 1 .. (m + 1) PROVE longer[j] \in T
    BY <1>3, <1>6, <1>7, <1>8
  <2>3. \A k \in R : k \in T
    BY <2>2
  <2> HIDE DEF T, R
  <2>4. T = R
    BY <2>1, <2>3
  <2> QED
    BY <2>4 DEF T, R
<1>11. head = longer[1]
    BY <1>3, <1>6, <1>7
<1>12. \A j \in 1 .. (m + 1) :
          s[longer[j]].next = IF j = m + 1 THEN s[c].next ELSE longer[j + 1]
  <2> TAKE j \in 1 .. (m + 1)
  <2>1. CASE j = m + 1
    BY <1>7, <2>1
  <2>2. CASE j = m /\ j # m + 1
    BY <1>3, <1>6, <1>7, <1>8, <2>2
  <2>3. CASE j # m /\ j # m + 1
    <3>1. j \in 1 .. m /\ j + 1 \in 1 .. m
        BY <1>8, <2>3
    <3> QED
        BY <1>3, <1>6, <2>3, <3>1
  <2> QED
    BY <2>1, <2>2, <2>3
<1>13. \A i, j \in 1 .. (m + 1) : longer[i] = longer[j] => i = j
    BY <1>3, <1>6, <1>7, <1>8
<1>14. m + 1 # 0
    OBVIOUS
<1>15. Trail(s, head, m + 1, longer, x)
    BY <1>1, <1>2, <1>5, <1>9, <1>10, <1>11, <1>12, <1>13, <1>14 DEF Trail, free
<1> QED
    BY <1>15 DEF x

\* What every round of the walk keeps: the slots visited are a trail.
OnTrail(s, head, w) ==
    /\ w = [cursor |-> w.cursor, visited |-> w.visited, ok |-> w.ok]
    /\ w.ok => \E m \in Nat : \E order : Trail(s, head, m, order, w)

LEMMA TrailStep ==
    ASSUME NEW s \in Seq(Slot), NEW head, NEW w, OnTrail(s, head, w)
    PROVE  OnTrail(s, head, WalkRound(s, w))
<1>1. w = [cursor |-> w.cursor, visited |-> w.visited, ok |-> w.ok]
    BY DEF OnTrail
<1>2. CASE w.cursor = 0 \/ ~w.ok
    BY <1>2 DEF WalkRound
<1>3. CASE /\ ~(w.cursor = 0 \/ ~w.ok)
           /\ w.cursor \in w.visited \/ w.cursor \notin Tagged(s, "vacant")
  <2>1. WalkRound(s, w) = [w EXCEPT !.ok = FALSE]
    BY <1>3 DEF WalkRound
  <2>2. WalkRound(s, w) = [cursor |-> w.cursor, visited |-> w.visited, ok |-> FALSE]
    BY <1>1, <2>1
  <2> QED
    BY <2>2 DEF OnTrail
<1>4. CASE /\ ~(w.cursor = 0 \/ ~w.ok)
           /\ ~(w.cursor \in w.visited \/ w.cursor \notin Tagged(s, "vacant"))
  <2> DEFINE x == [w EXCEPT !.visited = @ \cup {w.cursor}, !.cursor = s[w.cursor].next]
  <2>1. WalkRound(s, w) = x
    BY <1>4 DEF WalkRound
  <2>2. PICK m \in Nat : \E order : Trail(s, head, m, order, w)
    BY <1>4 DEF OnTrail
  <2>3. \E longer : Trail(s, head, m + 1, longer, x)
    BY <1>1, <1>4, <2>2, TrailGrows
  <2>4. x = [cursor |-> x.cursor, visited |-> x.visited, ok |-> x.ok]
    <3> DEFINE next == s[w.cursor].next
               seen == w.visited \cup {w.cursor}
    <3>1. x = [w EXCEPT !.visited = seen, !.cursor = next]
        OBVIOUS
    <3> HIDE DEF next, seen, x
    <3>2. x = [cursor |-> next, visited |-> seen, ok |-> w.ok]
        BY <1>1, <3>1
    <3> QED
        BY <3>2
  <2> HIDE DEF x
  <2>5. m + 1 \in Nat
    BY <2>2
  <2> QED
    BY <2>1, <2>3, <2>4, <2>5 DEF OnTrail
<1> QED
    BY <1>2, <1>3, <1>4

\* A round of the walk that goes on.
LEMMA RoundMoves ==
    ASSUME NEW s, NEW c, NEW v, c # 0, c \in Tagged(s, "vacant"), c \notin v
    PROVE  WalkRound(s, [cursor |-> c, visited |-> v, ok |-> TRUE])
               = [cursor |-> s[c].next, visited |-> v \cup {c}, ok |-> TRUE]
<1> DEFINE w == [cursor |-> c, visited |-> v, ok |-> TRUE]
           x == WalkRound(s, w)
           next == s[c].next
           seen == v \cup {c}
<1>1. w.cursor = c /\ w.visited = v /\ w.ok
    OBVIOUS
<1>2. x = [w EXCEPT !.visited = seen, !.cursor = next]
  <2> HIDE DEF w
  <2> QED
    BY <1>1 DEF WalkRound
<1>3. w = [cursor |-> c, visited |-> v, ok |-> TRUE]
    OBVIOUS
<1> HIDE DEF w, x, next, seen
<1>4. x = [cursor |-> next, visited |-> seen, ok |-> TRUE]
    BY <1>2, <1>3
<1> QED
    BY <1>4 DEF w, x, next, seen

\* What the walk accepts is a free list.
LEMMA WalkSound ==
    ASSUME NEW s \in Seq(Slot), NEW head \in 0 .. SlotLimit, WalkAccepts(s, head)
    PROVE  FreeList(s, head)
<1> DEFINE N == Len(s) + 2
           free == Tagged(s, "vacant")
<1>1. N \in Nat
    OBVIOUS
<1>2. PICK w : /\ w[0] = WalkStart(head)
               /\ \A i \in 1 .. N : w[i] = WalkRound(s, w[i - 1])
               /\ Walked(s, head) = w[N]
    BY WalkRuns
<1> HIDE DEF N
<1> DEFINE good == {i \in 0 .. N : OnTrail(s, head, w[i])}
<1>3. 0 \in good
  <2> DEFINE none == [j \in 1 .. 0 |-> 0]
  <2>1. none \in [1 .. 0 -> Tagged(s, "vacant")] /\ {none[j] : j \in 1 .. 0} = {}
    OBVIOUS
  <2>2. Trail(s, head, 0, none, WalkStart(head))
    BY <2>1, FS_EmptySet DEF Trail, WalkStart
  <2> HIDE DEF none
  <2>3. OnTrail(s, head, WalkStart(head))
    BY <2>2 DEF OnTrail, WalkStart
  <2> QED
    BY <1>1, <1>2, <2>3
<1>4. ASSUME NEW i \in 0 .. N, i > 0, i - 1 \in good PROVE i \in good
    BY <1>1, <1>2, <1>4, TrailStep
<1> HIDE DEF good
<1>5. N \in good
  <2>1. 0 .. N \subseteq good
    BY <1>1, <1>3, <1>4, UpToInduction
  <2> QED
    BY <1>1, <2>1
<1> DEFINE v == Walked(s, head)
<1>6. OnTrail(s, head, v)
    BY <1>2, <1>5 DEF good
<1>7. v.ok /\ v.cursor = 0 /\ Cardinality(v.visited) = Cardinality(free)
    BY DEF WalkAccepts
<1> HIDE DEF v
<1>8. PICK m \in Nat : \E order : Trail(s, head, m, order, v)
    BY <1>6, <1>7 DEF OnTrail
<1>9. PICK order : Trail(s, head, m, order, v)
    BY <1>8
<1>10. Cardinality(free) = m /\ order \in [1 .. m -> free]
    BY <1>7, <1>9 DEF Trail
<1>11. v.visited = free
  <2>1. v.visited \subseteq free /\ IsFiniteSet(free)
    BY <1>9, TaggedFinite DEF Trail
  <2> QED
    BY <1>7, <2>1, FS_Subset
<1>12. \A i \in free : \E j \in 1 .. m : order[j] = i
    BY <1>9, <1>11 DEF Trail
<1>13. FreeOrder(s, head, m, order)
    BY <1>7, <1>9, <1>12 DEF Trail, FreeOrder
<1> QED
    BY <1>10, <1>13 DEF FreeList

\* The walk follows a free list to its end and accepts.
LEMMA WalkComplete ==
    ASSUME NEW s \in Seq(Slot), NEW head \in 0 .. SlotLimit, FreeList(s, head)
    PROVE  WalkAccepts(s, head)
<1> DEFINE N == Len(s) + 2
           free == Tagged(s, "vacant")
           n == Cardinality(free)
<1>1. n \in Nat /\ IsFiniteSet(free) /\ N \in Nat
    BY TaggedFinite
<1>2. n < N
  <2>1. free \subseteq 1 .. Len(s) /\ Len(s) \in Nat
    BY DEF Tagged
  <2>2. IsFiniteSet(1 .. Len(s)) /\ Cardinality(1 .. Len(s)) = Len(s)
    BY <2>1, FirstNumbers
  <2>3. n <= Len(s)
    BY <2>1, <2>2, FS_Subset
  <2> QED
    BY <1>1, <2>1, <2>3
<1>3. PICK order \in [1 .. n -> free] : FreeOrder(s, head, n, order)
    BY DEF FreeList
<1>4. PICK w : /\ w[0] = WalkStart(head)
               /\ \A i \in 1 .. N : w[i] = WalkRound(s, w[i - 1])
               /\ Walked(s, head) = w[N]
    BY WalkRuns
<1>5. /\ head = IF n = 0 THEN 0 ELSE order[1]
      /\ \A j \in 1 .. n : s[order[j]].next = IF j = n THEN 0 ELSE order[j + 1]
      /\ \A i, j \in 1 .. n : order[i] = order[j] => i = j
      /\ \A i \in free : \E j \in 1 .. n : order[j] = i
    BY <1>3 DEF FreeOrder
<1>6. \A j \in 1 .. n : order[j] \in free /\ order[j] # 0
    BY <1>3 DEF Tagged
<1> HIDE DEF N, n, free
<1> DEFINE After(i) == [cursor |-> IF i >= n THEN 0 ELSE order[i + 1],
                        visited |-> {order[j] : j \in {k \in 1 .. n : k <= i}},
                        ok |-> TRUE]
           good == {i \in 0 .. N : w[i] = After(i)}
<1>7. 0 \in good
  <2>1. After(0) = WalkStart(head)
    <3>0. head = IF 0 >= n THEN 0 ELSE order[0 + 1]
        BY <1>1, <1>5
    <3>1. {k \in 1 .. n : k <= 0} = {} /\ (0 >= n <=> n = 0)
        BY <1>1
    <3>2. {order[j] : j \in {k \in 1 .. n : k <= 0}} = {}
        BY <3>1
    <3> QED
        BY <3>0, <3>2 DEF WalkStart
  <2>2. 0 \in 0 .. N
    BY <1>1
  <2> HIDE DEF After
  <2> QED
    BY <1>4, <2>1, <2>2
<1>8. ASSUME NEW i \in 0 .. N, i > 0, i - 1 \in good PROVE i \in good
  <2>1. w[i] = WalkRound(s, After(i - 1)) /\ i - 1 \in Nat
    BY <1>4, <1>8
  <2>2. CASE i - 1 >= n
    <3>1. {k \in 1 .. n : k <= i - 1} = {k \in 1 .. n : k <= i}
        BY <1>1, <2>2
    <3>2. After(i) = After(i - 1) /\ After(i - 1).cursor = 0
      <4>1. i >= n
          BY <1>1, <2>2
      <4> QED
          BY <2>2, <3>1, <4>1
    <3> QED
        BY <2>1, <3>2 DEF WalkRound
  <2>3. CASE i - 1 < n
    <3> DEFINE a == After(i - 1)
    <3>1. i \in 1 .. n /\ ~(i - 1 >= n)
        BY <1>1, <2>1, <2>3
    <3>2. a.cursor = order[i] /\ a.ok
        BY <3>1
    <3>3. order[i] \in Tagged(s, "vacant") /\ order[i] # 0
        BY <1>6, <3>1 DEF free
    <3>4. order[i] \notin a.visited
      <4> SUFFICES ASSUME NEW j \in {k \in 1 .. n : k <= i - 1}, order[j] = order[i] PROVE FALSE
          OBVIOUS
      <4> QED
          BY <1>5, <3>1
    <3>5. a.visited \cup {order[i]} = After(i).visited
      <4>1. {k \in 1 .. n : k <= i} = {k \in 1 .. n : k <= i - 1} \cup {i}
          BY <1>1, <3>1
      <4> QED
          BY <4>1
    <3>6. s[order[i]].next = After(i).cursor
        BY <1>1, <1>5, <3>1
    <3>7. a = [cursor |-> a.cursor, visited |-> a.visited, ok |-> TRUE]
        OBVIOUS
    <3>8. WalkRound(s, a) = [cursor |-> s[order[i]].next, visited |-> a.visited \cup {order[i]},
                             ok |-> TRUE]
      <4> HIDE DEF a, After
      <4>1. WalkRound(s, [cursor |-> order[i], visited |-> a.visited, ok |-> TRUE])
               = [cursor |-> s[order[i]].next, visited |-> a.visited \cup {order[i]},
                  ok |-> TRUE]
          BY <3>3, <3>4, RoundMoves
      <4>2. a = [cursor |-> order[i], visited |-> a.visited, ok |-> TRUE]
          BY <3>2, <3>7
      <4> QED
          BY <4>1, <4>2
    <3>9. After(i) = [cursor |-> After(i).cursor, visited |-> After(i).visited, ok |-> TRUE]
        OBVIOUS
    <3> HIDE DEF After
    <3> QED
        BY <2>1, <3>5, <3>6, <3>8, <3>9
  <2> QED
    BY <1>1, <2>1, <2>2, <2>3
<1> HIDE DEF good
<1>9. N \in good
  <2>1. 0 .. N \subseteq good
    BY <1>1, <1>7, <1>8, UpToInduction
  <2> QED
    BY <1>1, <2>1
<1>10. Walked(s, head) = After(N)
    BY <1>4, <1>9 DEF good
<1>11. After(N).ok /\ After(N).cursor = 0
    BY <1>1, <1>2
<1>12. After(N).visited = free
  <2>1. {k \in 1 .. n : k <= N} = 1 .. n
    BY <1>1, <1>2
  <2>2. {order[j] : j \in 1 .. n} = free
    BY <1>5, <1>6
  <2> QED
    BY <2>1, <2>2
<1> HIDE DEF After
<1> QED
    BY <1>10, <1>11, <1>12 DEF WalkAccepts, free

(***************************************************************************)
(* The inductive invariant                                                 *)
(***************************************************************************)

\* A well-formed arena: what validate_snapshot demands, but for the last index.
ArenaState(s, head, count) ==
    /\ s \in Seq(Slot) /\ Len(s) <= SlotLimit
    /\ head \in 0..SlotLimit
    /\ FreeList(s, head)
    /\ count = Cardinality(Tagged(s, "occupied"))

\* The slots tell the history: the occupied ones hold the live values, and a
\* slot has outgrown every key handed out for it and removed.
HistoryOf(s, m, given) ==
    /\ DOMAIN m = {KeyAt(s, i) : i \in Tagged(s, "occupied")}
    /\ \A i \in Tagged(s, "occupied") : m[KeyAt(s, i)] = s[i].value
    /\ DOMAIN m \subseteq given
    /\ given \subseteq Keys
    /\ \A k \in given :
           /\ k.index \in DOMAIN s
           /\ k.generation <= s[k.index].generation
           /\ s[k.index].tag = "vacant" => k.generation < s[k.index].generation

CodecType ==
    /\ image \in [source : Seq(Slot), records : Seq(Slot), count : 0..SlotLimit,
                  freeHead : 0..SlotLimit, len : 0..SlotLimit, complete : BOOLEAN]
    /\ restore \in [active : BOOLEAN, slots : Seq(Slot)]
    /\ saved = [live |-> saved.live, issued |-> saved.issued, intact |-> saved.intact]
    /\ restore.active => image.complete
    /\ image.complete \/ saved.intact
    /\ Len(restore.slots) <= image.count
    /\ restore.active \/ restore.slots = <<>>

\* The records written and the records read are prefixes of the snapshot.
IsPrefixOf(r, s) ==
    /\ Len(r) <= Len(s)
    /\ \A j \in 1..Len(r) : r[j] = s[j]

Checkpoint ==
    saved.intact =>
        /\ ArenaState(image.source, image.freeHead, image.len)
        /\ image.count = Len(image.source)
        /\ HistoryOf(image.source, saved.live, saved.issued)
        /\ IsPrefixOf(image.records, image.source)
        /\ IsPrefixOf(restore.slots, image.source)
        /\ image.complete => Len(image.records) = image.count

IInv ==
    /\ ArenaState(slots, freeHead, len)
    /\ HistoryOf(slots, live, issued)
    /\ CodecType
    /\ Checkpoint

\* The number of occupied slots fits the slots.
LEMMA CountBound ==
    ASSUME NEW s \in Seq(Slot), Len(s) <= SlotLimit, NEW t
    PROVE  Cardinality(Tagged(s, t)) \in 0..SlotLimit
<1>1. Tagged(s, t) \subseteq 1..Len(s)
    BY DEF Tagged
<1>2. IsFiniteSet(1..Len(s)) /\ Cardinality(1..Len(s)) = Len(s)
  <2>1. Len(s) \in Nat
    OBVIOUS
  <2> QED
    BY <2>1, FirstNumbers
<1>3. Cardinality(Tagged(s, t)) <= Len(s)
    BY <1>1, <1>2, FS_Subset
<1> QED
    BY <1>3, TaggedFinite

LEMMA InitIInv == Init => IInv
<1> SUFFICES ASSUME Init PROVE IInv
    OBVIOUS
<1>1. Tagged(<<>>, "occupied") = {} /\ Tagged(<<>>, "vacant") = {}
    BY DEF Tagged
<1>2. Cardinality({}) = 0
    BY FS_EmptySet
<1>3. FreeList(<<>>, 0)
  <2>1. [j \in 1..0 |-> 0] \in [1..0 -> {}]
    OBVIOUS
  <2>2. FreeOrder(<<>>, 0, 0, [j \in 1..0 |-> 0])
    BY <1>1 DEF FreeOrder
  <2> QED
    BY <1>1, <1>2, <2>1, <2>2 DEF FreeList
<1>4. <<>> \in Seq(Slot) /\ Len(<<>>) = 0
    OBVIOUS
<1>5. ArenaState(<<>>, 0, 0)
    BY <1>1, <1>2, <1>3, <1>4 DEF ArenaState
<1>6. HistoryOf(<<>>, [k \in {} |-> NoValue], {})
    BY <1>1 DEF HistoryOf
<1>7. CodecType
    BY <1>4 DEF Init, CodecType, NoImage, Idle
<1>8. Checkpoint
    BY <1>4, <1>5, <1>6 DEF Init, Checkpoint, NoImage, Idle, IsPrefixOf
<1> QED
    BY <1>5, <1>6, <1>7, <1>8 DEF Init, IInv

(***************************************************************************)
(* What the operations do to the slots and the history                     *)
(***************************************************************************)

\* Where a key resolves.
LEMMA GetMeaning ==
    ASSUME NEW s \in Seq(Slot), NEW k \in Keys
    PROVE  /\ Get(s, k) # NoValue <=>
                  k.index \in Tagged(s, "occupied") /\ s[k.index].generation = k.generation
           /\ Get(s, k) # NoValue => Get(s, k) = s[k.index].value /\ k = KeyAt(s, k.index)
           /\ Get(s, k) \in Values \cup {NoValue}
BY SlotFields DEF Get, Tagged, KeyAt, Keys

LEMMA ReuseState ==
    ASSUME NEW s \in Seq(Slot), NEW head, NEW count, NEW m, NEW given, NEW v \in Values,
           ArenaState(s, head, count), HistoryOf(s, m, given), head # 0
    PROVE  LET k == KeyAt(s, head)
               t == [s EXCEPT ![head] = Occupied(s[head].generation, v)]
               later == [j \in DOMAIN m \cup {k} |-> IF j = k THEN v ELSE m[j]]
           IN /\ ArenaState(t, s[head].next, count + 1)
              /\ HistoryOf(t, later, given \cup {k})
              /\ k \in Keys \ given
<1> DEFINE k == KeyAt(s, head)
           x == Occupied(s[head].generation, v)
           t == [s EXCEPT ![head] = x]
           later == [j \in DOMAIN m \cup {k} |-> IF j = k THEN v ELSE m[j]]
<1>1. head \in Tagged(s, "vacant") /\ head \in DOMAIN s /\ head \in 1..SlotLimit
    BY FreeHead DEF ArenaState, Tagged
<1>2. /\ s[head].generation \in 0..MaxGeneration
      /\ s[head].next \in 0..SlotLimit
    BY <1>1, SlotFields
<1>3. x \in Slot /\ x.tag = "occupied" /\ x.value = v /\ x.generation = s[head].generation
    BY <1>2, SlotShape DEF Occupied
<1>4. t \in Seq(Slot) /\ Len(t) = Len(s) /\ DOMAIN t = DOMAIN s
    BY <1>1, <1>3, TaggedExcept
<1>5. Tagged(t, "occupied") = Tagged(s, "occupied") \cup {head} /\ head \notin Tagged(s, "occupied")
    BY <1>1, <1>3, TaggedExcept DEF Tagged
<1>6. Cardinality(Tagged(t, "occupied")) = count + 1
    BY <1>5, TaggedFinite, FS_AddElement DEF ArenaState
<1>7. FreeList(t, s[head].next)
    BY <1>3, FreePop DEF ArenaState
<1>8. ArenaState(t, s[head].next, count + 1)
    BY <1>2, <1>4, <1>6, <1>7 DEF ArenaState
<1>9. \A i \in DOMAIN s : KeyAt(t, i) = KeyAt(s, i)
    BY <1>3 DEF KeyAt
<1>10. k \in Keys /\ k.index = head /\ k.generation = s[head].generation
    BY <1>1, <1>2 DEF KeyAt, Keys
<1>11. k \notin given
    BY <1>1, <1>2, <1>10 DEF HistoryOf, Tagged, Keys
<1>12. HistoryOf(t, later, given \cup {k})
  <2>1. \A i \in Tagged(s, "occupied") : i \in DOMAIN s /\ i # head /\ KeyAt(s, i) # k /\ t[i] = s[i]
    BY <1>5 DEF Tagged, KeyAt
  <2>2. DOMAIN later = {KeyAt(t, i) : i \in Tagged(t, "occupied")}
    <3>1. \A i \in Tagged(t, "occupied") : KeyAt(t, i) = KeyAt(s, i)
        BY <1>1, <1>5, <1>9, <2>1
    <3>2. DOMAIN later = {KeyAt(s, i) : i \in Tagged(s, "occupied") \cup {head}}
        BY DEF HistoryOf
    <3> QED
        BY <1>5, <3>1, <3>2
  <2>3. \A i \in Tagged(t, "occupied") : later[KeyAt(t, i)] = t[i].value
    BY <1>1, <1>3, <1>5, <1>9, <2>1 DEF HistoryOf
  <2>4. \A j \in given \cup {k} :
           /\ j.index \in DOMAIN t
           /\ j.generation <= t[j.index].generation
           /\ t[j.index].tag = "vacant" => j.generation < t[j.index].generation
    <3>1. \A i \in DOMAIN s : /\ t[i].generation = s[i].generation
                              /\ t[i].tag = "vacant" => s[i].tag = "vacant"
        BY <1>1, <1>3
    <3>2. t[head].tag = "occupied"
        BY <1>1, <1>3
    <3> QED
        BY <1>1, <1>2, <1>4, <1>10, <3>1, <3>2 DEF HistoryOf
  <2>5. DOMAIN later \subseteq given \cup {k} /\ given \cup {k} \subseteq Keys
    BY <1>10 DEF HistoryOf
  <2> QED
    BY <2>2, <2>3, <2>4, <2>5 DEF HistoryOf
<1> QED
    BY <1>8, <1>10, <1>11, <1>12

LEMMA GrowState ==
    ASSUME NEW s \in Seq(Slot), NEW count, NEW m, NEW given, NEW v \in Values,
           ArenaState(s, 0, count), HistoryOf(s, m, given), Len(s) < SlotLimit
    PROVE  LET k == [index |-> Len(s) + 1, generation |-> 1]
               t == Append(s, Occupied(1, v))
               later == [j \in DOMAIN m \cup {k} |-> IF j = k THEN v ELSE m[j]]
           IN /\ ArenaState(t, 0, count + 1)
              /\ HistoryOf(t, later, given \cup {k})
              /\ k \in Keys \ given
<1> DEFINE n == Len(s) + 1
           k == [index |-> n, generation |-> 1]
           x == Occupied(1, v)
           t == Append(s, x)
           later == [j \in DOMAIN m \cup {k} |-> IF j = k THEN v ELSE m[j]]
<1>1. x \in Slot /\ x.tag = "occupied" /\ x.value = v /\ x.generation = 1
    BY SlotShape DEF Occupied
<1>2. /\ t \in Seq(Slot) /\ Len(t) = n /\ DOMAIN t = DOMAIN s \cup {n} /\ n \notin DOMAIN s
      /\ \A i \in DOMAIN s : t[i] = s[i]
      /\ t[n] = x
    BY <1>1
<1>3. Tagged(t, "occupied") = Tagged(s, "occupied") \cup {n} /\ n \notin Tagged(s, "occupied")
    BY <1>1, <1>2, TaggedAppend DEF Tagged
<1>4. Tagged(t, "vacant") = Tagged(s, "vacant")
    BY <1>1, <1>2 DEF Tagged
<1>5. Cardinality(Tagged(t, "occupied")) = count + 1
    BY <1>3, TaggedFinite, FS_AddElement DEF ArenaState
<1>6. FreeList(t, 0)
  <2>1. \A i \in Tagged(s, "vacant") : t[i] = s[i]
    BY <1>2 DEF Tagged
  <2> QED
    BY <1>2, <1>4, <2>1, FreeKeep DEF ArenaState
<1>7. ArenaState(t, 0, count + 1)
    BY <1>2, <1>5, <1>6 DEF ArenaState
<1>8. k \in Keys /\ k \notin given
    BY <1>2 DEF Keys, HistoryOf
<1>9. HistoryOf(t, later, given \cup {k})
  <2>1. \A i \in Tagged(s, "occupied") : i \in DOMAIN s /\ KeyAt(t, i) = KeyAt(s, i) /\ KeyAt(s, i) # k
    BY <1>2 DEF Tagged, KeyAt
  <2>2. KeyAt(t, n) = k
    BY <1>1, <1>2 DEF KeyAt
  <2>3. DOMAIN later = {KeyAt(t, i) : i \in Tagged(t, "occupied")}
    BY <1>3, <2>1, <2>2 DEF HistoryOf
  <2>4. \A i \in Tagged(t, "occupied") : later[KeyAt(t, i)] = t[i].value
    BY <1>1, <1>2, <1>3, <2>1, <2>2 DEF HistoryOf
  <2>5. \A j \in given \cup {k} :
           /\ j.index \in DOMAIN t
           /\ j.generation <= t[j.index].generation
           /\ t[j.index].tag = "vacant" => j.generation < t[j.index].generation
    BY <1>1, <1>2 DEF HistoryOf
  <2> QED
    BY <1>8, <2>3, <2>4, <2>5 DEF HistoryOf
<1> QED
    BY <1>7, <1>8, <1>9

LEMMA RemoveState ==
    ASSUME NEW s \in Seq(Slot), NEW head, NEW count, NEW m, NEW given, NEW k \in Keys,
           ArenaState(s, head, count), HistoryOf(s, m, given), Get(s, k) # NoValue,
           NEW x, x = IF k.generation < MaxGeneration
                      THEN Vacant(k.generation + 1, head) ELSE Retired(k.generation)
    PROVE  LET t == [s EXCEPT ![k.index] = x]
               later == [j \in DOMAIN m \ {k} |-> m[j]]
           IN /\ ArenaState(t, IF k.generation # MaxGeneration THEN k.index ELSE head, count - 1)
              /\ HistoryOf(t, later, given)
              /\ k \in DOMAIN m
<1> DEFINE i == k.index
           t == [s EXCEPT ![i] = x]
           later == [j \in DOMAIN m \ {k} |-> m[j]]
<1>1. /\ i \in Tagged(s, "occupied") /\ i \in DOMAIN s /\ i \in 1..SlotLimit
      /\ s[i].generation = k.generation /\ k = KeyAt(s, i)
      /\ k.generation \in 0..MaxGeneration /\ head \in 0..SlotLimit
    BY GetMeaning DEF Tagged, ArenaState, Keys
<1>2. /\ x \in Slot /\ x.tag \in {"vacant", "retired"} /\ x.tag # "occupied"
      /\ k.generation <= x.generation
      /\ x.tag = "vacant" => k.generation < x.generation
    BY <1>1, SlotShape, SMTT(30) DEF Vacant, Retired
<1>3. t \in Seq(Slot) /\ Len(t) = Len(s) /\ DOMAIN t = DOMAIN s
    BY <1>1, <1>2, TaggedExcept
<1>4. Tagged(t, "occupied") = Tagged(s, "occupied") \ {i}
    BY <1>1, <1>2 DEF Tagged
<1>5. Cardinality(Tagged(t, "occupied")) = count - 1
  <2>1. Cardinality(Tagged(s, "occupied") \ {i}) = count - 1
    BY <1>1, TaggedFinite, FS_RemoveElement DEF ArenaState
  <2> QED
    BY <1>4, <2>1
<1>6. FreeList(t, IF k.generation # MaxGeneration THEN i ELSE head)
  <2>1. CASE k.generation < MaxGeneration
    <3>1. k.generation + 1 \in 0..MaxGeneration /\ s[i].tag = "occupied"
        BY <1>1, <2>1 DEF Tagged
    <3>2. FreeList([s EXCEPT ![i] = Vacant(k.generation + 1, head)], i)
        BY <1>1, <3>1, FreePush DEF ArenaState
    <3> QED
        BY <1>1, <2>1, <3>2
  <2>2. CASE ~(k.generation < MaxGeneration)
    <3>1. x.tag = "retired" /\ k.generation = MaxGeneration
        BY <1>1, <2>2 DEF Retired
    <3>2. Tagged(t, "vacant") = Tagged(s, "vacant")
        BY <1>1, <3>1 DEF Tagged
    <3>3. \A j \in Tagged(s, "vacant") : t[j] = s[j]
        BY <1>1 DEF Tagged
    <3> QED
        BY <1>3, <3>1, <3>2, <3>3, FreeKeep DEF ArenaState
  <2> QED
    BY <2>1, <2>2
<1>7. ArenaState(t, IF k.generation # MaxGeneration THEN i ELSE head, count - 1)
    BY <1>1, <1>3, <1>5, <1>6 DEF ArenaState
<1>8. k \in DOMAIN m
    BY <1>1 DEF HistoryOf
<1>9. HistoryOf(t, later, given)
  <2>1. \A j \in Tagged(t, "occupied") :
            j \in Tagged(s, "occupied") /\ t[j] = s[j] /\ KeyAt(t, j) = KeyAt(s, j) /\ KeyAt(s, j) # k
    BY <1>1, <1>4 DEF Tagged, KeyAt
  <2>2. DOMAIN later = {KeyAt(s, j) : j \in Tagged(s, "occupied")} \ {k}
    BY DEF HistoryOf
  <2>3. {KeyAt(s, j) : j \in Tagged(s, "occupied")} \ {k} =
            {KeyAt(t, j) : j \in Tagged(t, "occupied")}
    <3>1. \A j \in Tagged(s, "occupied") : KeyAt(s, j) # k => j \in Tagged(t, "occupied")
        BY <1>1, <1>4
    <3>2. ASSUME NEW e \in {KeyAt(s, j) : j \in Tagged(s, "occupied")}, e # k
          PROVE  e \in {KeyAt(t, j) : j \in Tagged(t, "occupied")}
      <4>1. PICK j \in Tagged(s, "occupied") : e = KeyAt(s, j)
          BY <3>2
      <4>2. j \in Tagged(t, "occupied") /\ e = KeyAt(t, j)
          BY <2>1, <3>1, <3>2, <4>1
      <4> QED
          BY <4>2
    <3>3. ASSUME NEW e \in {KeyAt(t, j) : j \in Tagged(t, "occupied")}
          PROVE  e \in {KeyAt(s, j) : j \in Tagged(s, "occupied")} /\ e # k
      <4>1. PICK j \in Tagged(t, "occupied") : e = KeyAt(t, j)
          BY <3>3
      <4> QED
          BY <2>1, <4>1
    <3> QED
        BY <3>2, <3>3
  <2>4. \A j \in Tagged(t, "occupied") : later[KeyAt(t, j)] = t[j].value
    BY <2>1, <2>2 DEF HistoryOf
  <2>5. \A j \in given :
           /\ j.index \in DOMAIN t
           /\ j.generation <= t[j.index].generation
           /\ t[j.index].tag = "vacant" => j.generation < t[j.index].generation
    <3> SUFFICES ASSUME NEW j \in given
                 PROVE  /\ j.index \in DOMAIN t
                        /\ j.generation <= t[j.index].generation
                        /\ t[j.index].tag = "vacant" => j.generation < t[j.index].generation
        OBVIOUS
    <3>1. j.index \in DOMAIN s /\ j.generation <= s[j.index].generation
        BY DEF HistoryOf
    <3>2. CASE j.index = i
        BY <1>1, <1>2, <3>1, <3>2, SlotFields, SMTT(30) DEF HistoryOf, Keys, Slot
    <3>3. CASE j.index # i
        BY <1>1, <3>1, <3>3 DEF HistoryOf
    <3> QED
        BY <3>2, <3>3
  <2>6. DOMAIN later \subseteq given /\ given \subseteq Keys
    BY DEF HistoryOf
  <2> QED
    BY <2>2, <2>3, <2>4, <2>5, <2>6 DEF HistoryOf
<1> QED
    BY <1>7, <1>8, <1>9

LEMMA WriteState ==
    ASSUME NEW s \in Seq(Slot), NEW head, NEW count, NEW m, NEW given, NEW k \in Keys,
           NEW v \in Values,
           ArenaState(s, head, count), HistoryOf(s, m, given), Get(s, k) # NoValue
    PROVE  LET t == [s EXCEPT ![k.index].value = v]
           IN /\ ArenaState(t, head, count)
              /\ HistoryOf(t, [m EXCEPT ![k] = v], given)
              /\ k \in DOMAIN m
<1> DEFINE i == k.index
           x == [s[i] EXCEPT !.value = v]
           t == [s EXCEPT ![i] = x]
           later == [m EXCEPT ![k] = v]
<1>1. i \in Tagged(s, "occupied") /\ i \in DOMAIN s /\ k = KeyAt(s, i)
    BY GetMeaning DEF Tagged
<1>2. x \in Slot /\ x.tag = "occupied" /\ x.value = v /\ x.generation = s[i].generation
    BY <1>1, SlotFields, SMTT(30) DEF Slot, Tagged
<1>3. t \in Seq(Slot) /\ Len(t) = Len(s) /\ DOMAIN t = DOMAIN s
    BY <1>1, <1>2, TaggedExcept
<1>4. /\ Tagged(t, "occupied") = Tagged(s, "occupied")
      /\ Tagged(t, "vacant") = Tagged(s, "vacant")
      /\ \A j \in Tagged(s, "vacant") : t[j] = s[j]
    BY <1>1, <1>2 DEF Tagged
<1>5. ArenaState(t, head, count)
    BY <1>3, <1>4, FreeKeep DEF ArenaState
<1>6. \A j \in DOMAIN s : KeyAt(t, j) = KeyAt(s, j) /\ (j # i => KeyAt(s, j) # k /\ t[j] = s[j])
    BY <1>1, <1>2 DEF KeyAt
<1>7. HistoryOf(t, later, given)
  <2>1. {KeyAt(t, j) : j \in Tagged(t, "occupied")} = {KeyAt(s, j) : j \in Tagged(s, "occupied")}
    <3>1. \A j \in Tagged(s, "occupied") : KeyAt(t, j) = KeyAt(s, j)
        BY <1>6 DEF Tagged
    <3> QED
        BY <1>4, <3>1
  <2>2. \A j \in Tagged(t, "occupied") : later[KeyAt(t, j)] = t[j].value
    <3> SUFFICES ASSUME NEW j \in Tagged(s, "occupied")
                 PROVE  later[KeyAt(s, j)] = t[j].value
        BY <1>4, <1>6 DEF Tagged
    <3>1. j \in DOMAIN s /\ KeyAt(s, j) \in DOMAIN m
        BY DEF HistoryOf, Tagged
    <3>2. CASE j = i
        BY <1>1, <1>2, <3>1, <3>2
    <3>3. CASE j # i
        BY <1>6, <3>1, <3>3 DEF HistoryOf
    <3> QED
        BY <3>2, <3>3
  <2>3. \A j \in given :
           /\ j.index \in DOMAIN t
           /\ j.generation <= t[j.index].generation
           /\ t[j.index].tag = "vacant" => j.generation < t[j.index].generation
    BY <1>1, <1>2, <1>3 DEF HistoryOf
  <2> QED
    BY <2>1, <2>2, <2>3 DEF HistoryOf
<1>8. k \in DOMAIN m
    BY <1>1 DEF HistoryOf
<1>9. t = [s EXCEPT ![i].value = v]
    OBVIOUS
<1> QED
    BY <1>5, <1>7, <1>8, <1>9

\* An accepted checkpoint that is no one's history starts a history of its own.
LEMMA ForeignHistory ==
    ASSUME NEW s \in Seq(Slot), Len(s) <= SlotLimit,
           NEW m, m = [k \in {KeyAt(s, i) : i \in Tagged(s, "occupied")} |-> Get(s, k)]
    PROVE  HistoryOf(s, m, DOMAIN m)
<1>1. \A i \in Tagged(s, "occupied") : /\ i \in DOMAIN s /\ s[i].generation \in 0..MaxGeneration
                                       /\ i \in 1..SlotLimit /\ s[i].tag = "occupied"
    BY SlotFields DEF Tagged
<1>2. \A i \in Tagged(s, "occupied") : /\ KeyAt(s, i).index = i
                                       /\ KeyAt(s, i).generation = s[i].generation
                                       /\ KeyAt(s, i) \in Keys
    BY <1>1 DEF KeyAt, Keys
<1>3. \A i \in Tagged(s, "occupied") : Get(s, KeyAt(s, i)) = s[i].value
    BY <1>2 DEF Get
<1> QED
    BY <1>1, <1>2, <1>3 DEF HistoryOf

(***************************************************************************)
(* Every step keeps the invariant                                          *)
(***************************************************************************)

\* Steps that touch neither codec continuation keep both.
LEMMA CodecKept ==
    ASSUME IInv, UNCHANGED <<image, restore, saved>>
    PROVE  CodecType' /\ Checkpoint'
BY DEF IInv, CodecType, Checkpoint

LEMMA StepInsert ==
    ASSUME IInv, NEW v \in Values, InsertReuse(v) \/ InsertGrow(v)
    PROVE  IInv' /\ Store!Insert
<1> USE DEF IInv
<1>1. slots \in Seq(Slot) /\ ArenaState(slots, freeHead, len) /\ HistoryOf(slots, live, issued)
    BY DEF ArenaState
<1>2. CASE InsertReuse(v)
  <2>1. freeHead # 0
    BY <1>2 DEF InsertReuse
  <2>2. slots' = [slots EXCEPT ![freeHead] = Occupied(slots[freeHead].generation, v)]
    BY <1>2 DEF InsertReuse
  <2> DEFINE k == KeyAt(slots, freeHead)
             t == [slots EXCEPT ![freeHead] = Occupied(slots[freeHead].generation, v)]
             later == [j \in DOMAIN live \cup {k} |-> IF j = k THEN v ELSE live[j]]
  <2>a. /\ ArenaState(t, slots[freeHead].next, len + 1)
        /\ HistoryOf(t, later, issued \cup {k})
        /\ k \in Keys \ issued
    BY <1>1, <2>1, ReuseState
  <2>3. ArenaState(slots', freeHead', len') /\ HistoryOf(slots', live', issued')
        /\ k \in Keys \ issued
    BY <1>2, <2>2, <2>a DEF InsertReuse, Issue
  <2>4. CodecType' /\ Checkpoint'
    BY <1>2, CodecKept DEF InsertReuse, Issue
  <2>5. Store!Insert
    BY <1>2, <2>3 DEF InsertReuse, Issue, Store!Insert
  <2> QED
    BY <2>3, <2>4, <2>5
<1>3. CASE InsertGrow(v)
  <2> DEFINE k == [index |-> Len(slots) + 1, generation |-> 1]
  <2>1. freeHead = 0 /\ freeHead' = 0 /\ Len(slots) < SlotLimit
    BY <1>3 DEF InsertGrow
  <2> DEFINE t == Append(slots, Occupied(1, v))
             later == [j \in DOMAIN live \cup {k} |-> IF j = k THEN v ELSE live[j]]
  <2>a. /\ ArenaState(t, 0, len + 1)
        /\ HistoryOf(t, later, issued \cup {k})
        /\ k \in Keys \ issued
    BY <1>1, <2>1, GrowState
  <2>2. ArenaState(slots', freeHead', len') /\ HistoryOf(slots', live', issued')
        /\ k \in Keys \ issued
    BY <1>3, <2>1, <2>a DEF InsertGrow, Issue
  <2>3. CodecType' /\ Checkpoint'
    BY <1>3, CodecKept DEF InsertGrow, Issue
  <2>4. Store!Insert
    BY <1>3, <2>2 DEF InsertGrow, Issue, Store!Insert
  <2> QED
    BY <2>2, <2>3, <2>4
<1> QED
    BY <1>2, <1>3

LEMMA StepRemove ==
    ASSUME IInv, NEW k \in Keys, Remove(k)
    PROVE  IInv' /\ Store!Remove
<1>1. slots \in Seq(Slot) /\ ArenaState(slots, freeHead, len) /\ HistoryOf(slots, live, issued)
    BY DEF IInv, ArenaState
<1> DEFINE t == [slots EXCEPT ![k.index] = Replacement(k)]
           later == [j \in DOMAIN live \ {k} |-> live[j]]
<1>a. /\ ArenaState(t, IF k.generation # MaxGeneration THEN k.index ELSE freeHead, len - 1)
      /\ HistoryOf(t, later, issued)
      /\ k \in DOMAIN live
  <2>1. Get(slots, k) # NoValue
    BY DEF Remove
  <2>2. Replacement(k) = IF k.generation < MaxGeneration
                         THEN Vacant(k.generation + 1, freeHead) ELSE Retired(k.generation)
    BY DEF Replacement
  <2> QED
    BY <1>1, <2>1, <2>2, RemoveState
<1>2. /\ ArenaState(slots', freeHead', len')
      /\ HistoryOf(slots', live', issued)
      /\ k \in DOMAIN live
    BY <1>a DEF Remove
<1>3. CodecType' /\ Checkpoint'
    BY CodecKept DEF Remove
<1>4. Store!Remove
    BY <1>2 DEF Remove, Store!Remove
<1> QED
    BY <1>2, <1>3, <1>4 DEF Remove, IInv

LEMMA StepWrite ==
    ASSUME IInv, NEW k \in Keys, NEW v \in Values, Write(k, v)
    PROVE  IInv' /\ Store!Write
<1>1. slots \in Seq(Slot) /\ ArenaState(slots, freeHead, len) /\ HistoryOf(slots, live, issued)
    BY DEF IInv, ArenaState
<1> DEFINE t == [slots EXCEPT ![k.index].value = v]
<1>a. /\ ArenaState(t, freeHead, len)
      /\ HistoryOf(t, [live EXCEPT ![k] = v], issued)
      /\ k \in DOMAIN live
  <2>1. Get(slots, k) # NoValue
    BY DEF Write
  <2> QED
    BY <1>1, <2>1, WriteState
<1>2. /\ ArenaState(slots', freeHead, len)
      /\ HistoryOf(slots', live', issued)
      /\ k \in DOMAIN live
    BY <1>a DEF Write
<1>3. CodecType' /\ Checkpoint'
    BY CodecKept DEF Write
<1>4. Store!Write
    BY <1>2 DEF Write, Store!Write
<1> QED
    BY <1>2, <1>3, <1>4 DEF Write, IInv

LEMMA StepBeginEncode ==
    ASSUME IInv, BeginEncode
    PROVE  IInv' /\ Store!Save
<1>1. ArenaState(slots, freeHead, len) /\ HistoryOf(slots, live, issued) /\ CodecType
    BY DEF IInv
<1>2. slots \in Seq(Slot) /\ Len(slots) \in 0..SlotLimit /\ len \in 0..SlotLimit
    BY <1>1, CountBound DEF ArenaState
<1>3. CodecType'
    BY <1>1, <1>2 DEF BeginEncode, CodecType, ArenaState, Idle
<1>4. Checkpoint'
  <2>1. image'.source = slots /\ image'.freeHead = freeHead /\ image'.len = len
        /\ image'.count = Len(slots) /\ image'.records = <<>> /\ image'.complete = FALSE
    BY DEF BeginEncode
  <2>2. saved'.live = live /\ saved'.issued = issued /\ restore'.slots = <<>>
    BY <1>1 DEF BeginEncode, CodecType
  <2> QED
    BY <1>1, <1>2, <2>1, <2>2 DEF Checkpoint, IsPrefixOf
<1>5. Store!Save
    BY DEF BeginEncode, Store!Save, Store!History
<1> QED
    BY <1>1, <1>3, <1>4, <1>5 DEF BeginEncode, IInv

LEMMA LesserBounds ==
    ASSUME NEW x \in Int, NEW y \in Int
    PROVE  Lesser(x, y) \in {x, y} /\ Lesser(x, y) <= x /\ Lesser(x, y) <= y
BY DEF Lesser

\* Appending the next records of s to r gives a prefix of whatever both are
\* prefixes of.
LEMMA PrefixGrows ==
    ASSUME NEW r \in Seq(Slot), NEW s \in Seq(Slot), NEW from, from = Len(r),
           NEW end \in Nat, from <= end, end <= Len(s)
    PROVE  /\ r \o SubSeq(s, from + 1, end) \in Seq(Slot)
           /\ Len(r \o SubSeq(s, from + 1, end)) = end
           /\ \A x \in Seq(Slot) : IsPrefixOf(r, x) /\ IsPrefixOf(s, x) =>
                  IsPrefixOf(r \o SubSeq(s, from + 1, end), x)
<1> DEFINE q == SubSeq(s, from + 1, end)
<1>1. from \in Nat /\ from + 1 \in Int
    OBVIOUS
<1>2. \A j \in (from + 1)..end : s[j] \in Slot
    BY <1>1
<1>3. /\ q \in Seq(Slot)
      /\ Len(q) = (IF from + 1 <= end THEN end - (from + 1) + 1 ELSE 0)
      /\ \A j \in 1..(end - (from + 1) + 1) : q[j] = s[from + 1 + j - 1]
    BY <1>1, <1>2, SubSeqProperties
<1>4. Len(q) = end - from
    BY <1>1, <1>3
<1>5. /\ r \o q \in Seq(Slot)
      /\ Len(r \o q) = Len(r) + Len(q)
      /\ \A j \in 1..(Len(r) + Len(q)) : (r \o q)[j] = IF j <= Len(r) THEN r[j] ELSE q[j - Len(r)]
    BY <1>3, ConcatProperties
<1> HIDE DEF q
<1>6. Len(r \o q) = end
    BY <1>1, <1>4, <1>5
<1>7. \A j \in 1..end : (r \o q)[j] = IF j <= from THEN r[j] ELSE s[j]
    BY <1>1, <1>3, <1>4, <1>5
<1>8. ASSUME NEW x \in Seq(Slot), IsPrefixOf(r, x), IsPrefixOf(s, x)
      PROVE  IsPrefixOf(r \o q, x)
    BY <1>1, <1>6, <1>7, <1>8 DEF IsPrefixOf
<1> QED
    BY <1>5, <1>6, <1>8 DEF q

LEMMA StepEncode ==
    ASSUME IInv, NEW b \in 1..MaxBudget, EncodeSlice(b)
    PROVE  IInv' /\ UNCHANGED <<live, issued, saved>>
<1> DEFINE from == Len(image.records)
           end == Lesser(from + b, Len(image.source))
           grown == image.records \o SubSeq(image.source, from + 1, end)
<1>1. CodecType /\ Checkpoint /\ image.source \in Seq(Slot) /\ image.records \in Seq(Slot)
    BY DEF IInv, CodecType
<1>2. ~image.complete /\ UNCHANGED <<arena, restore, history>>
    BY DEF EncodeSlice
<1>3. image' = [image EXCEPT !.records = grown, !.complete = (end = Len(image.source))]
    BY DEF EncodeSlice
<1>4. ~restore.active /\ restore.slots = <<>> /\ saved.intact
    BY <1>1, <1>2 DEF CodecType
<1>5. image.count = Len(image.source) /\ IsPrefixOf(image.records, image.source)
    BY <1>1, <1>4 DEF Checkpoint
<1>6. end \in Nat /\ from <= end /\ end <= Len(image.source)
    BY <1>1, <1>5, LesserBounds DEF IsPrefixOf
<1>7. IsPrefixOf(image.source, image.source)
    BY <1>1 DEF IsPrefixOf
<1> HIDE DEF end
<1>8. grown \in Seq(Slot) /\ Len(grown) = end /\ IsPrefixOf(grown, image.source)
  <2> DEFINE r == image.records
             s == image.source
  <2>1. /\ r \in Seq(Slot) /\ s \in Seq(Slot)
        /\ end \in Nat /\ Len(r) <= end /\ end <= Len(s)
    BY <1>1, <1>6
  <2> HIDE DEF r, s
  <2>2. /\ r \o SubSeq(s, Len(r) + 1, end) \in Seq(Slot)
        /\ Len(r \o SubSeq(s, Len(r) + 1, end)) = end
        /\ \A x \in Seq(Slot) : IsPrefixOf(r, x) /\ IsPrefixOf(s, x) =>
               IsPrefixOf(r \o SubSeq(s, Len(r) + 1, end), x)
    BY <2>1, PrefixGrows
  <2>3. IsPrefixOf(r, s) /\ IsPrefixOf(s, s)
    BY <1>5, <1>7 DEF r, s
  <2> QED
    BY <2>1, <2>2, <2>3 DEF r, s
<1> HIDE DEF grown
<1>9. /\ image'.source = image.source /\ image'.count = image.count /\ image'.len = image.len
      /\ image'.freeHead = image.freeHead /\ image'.records = grown
      /\ image'.complete = (end = Len(image.source))
    BY <1>1, <1>3 DEF CodecType
<1>10. UNCHANGED <<restore, saved, slots, freeHead, len, live, issued>>
    BY <1>2 DEF arena, history
<1>11. CodecType'
  <2>1. image' \in [source : Seq(Slot), records : Seq(Slot), count : 0..SlotLimit,
                    freeHead : 0..SlotLimit, len : 0..SlotLimit, complete : BOOLEAN]
    BY <1>1, <1>3, <1>8 DEF CodecType
  <2> QED
    BY <1>1, <1>4, <1>9, <1>10, <2>1 DEF CodecType
<1>12. Checkpoint'
    BY <1>1, <1>4, <1>5, <1>8, <1>9, <1>10 DEF Checkpoint
<1> QED
    BY <1>10, <1>11, <1>12 DEF IInv

LEMMA StepDamage ==
    ASSUME IInv, Damage
    PROVE  IInv' /\ Store!Lose
<1>1. CodecType /\ image.source \in Seq(Slot) /\ image.records \in Seq(Slot)
    BY DEF IInv, CodecType
<1>2. /\ image.complete /\ saved.intact /\ ~restore.active
      /\ saved' = [saved EXCEPT !.intact = FALSE]
      /\ UNCHANGED <<slots, freeHead, len, restore, live, issued>>
    BY DEF Damage, arena
<1>3. /\ saved' = [live |-> saved'.live, issued |-> saved'.issued, intact |-> saved'.intact]
      /\ ~saved'.intact
    BY <1>1, <1>2 DEF CodecType
<1> DEFINE Image == [source : Seq(Slot), records : Seq(Slot), count : 0..SlotLimit,
                     freeHead : 0..SlotLimit, len : 0..SlotLimit, complete : BOOLEAN]
<1>4. image \in Image
    BY <1>1 DEF CodecType
<1>5. image' \in Image /\ image'.count = image.count /\ image'.complete
  <2>1. ASSUME NEW r \in Seq(Slot), image' = [image EXCEPT !.records = r]
        PROVE  image' \in Image /\ image'.count = image.count /\ image'.complete
    BY <1>2, <1>4, <2>1
  <2>2. CASE image.records # <<>>
             /\ image' = [image EXCEPT !.records = SubSeq(@, 1, Len(@) - 1)]
    <3>1. \A j \in 1..(Len(image.records) - 1) : image.records[j] \in Slot
        BY <1>1
    <3>2. SubSeq(image.records, 1, Len(image.records) - 1) \in Seq(Slot)
        BY <1>1, <3>1, SubSeqProperties
    <3> QED
        BY <2>1, <2>2, <3>2
  <2>3. CASE image' = [image EXCEPT !.records = Append(@, Retired(1))]
    <3>1. Append(image.records, Retired(1)) \in Seq(Slot)
        BY <1>1, SlotShape
    <3> QED
        BY <2>1, <2>3, <3>1
  <2>4. ASSUME NEW i \in DOMAIN image.records, NEW n \in 0..SlotLimit,
               image' = [image EXCEPT !.records =
                  [image.records EXCEPT ![i] = Vacant(image.records[i].generation, n)]]
        PROVE  image' \in Image /\ image'.count = image.count /\ image'.complete
    <3>1. Vacant(image.records[i].generation, n) \in Slot
        BY <1>1, SlotFields, SlotShape
    <3>2. [image.records EXCEPT ![i] = Vacant(image.records[i].generation, n)] \in Seq(Slot)
        BY <1>1, <3>1, TaggedExcept
    <3> QED
        BY <2>1, <2>4, <3>2
  <2>5. CASE \E n \in 0..SlotLimit : image' = [image EXCEPT !.freeHead = n]
    BY <1>2, <1>4, <2>5
  <2>6. \/ image.records # <<>> /\ image' = [image EXCEPT !.records = SubSeq(@, 1, Len(@) - 1)]
        \/ image' = [image EXCEPT !.records = Append(@, Retired(1))]
        \/ \E i \in DOMAIN image.records, n \in 0..SlotLimit :
               image' = [image EXCEPT !.records =
                  [image.records EXCEPT ![i] = Vacant(image.records[i].generation, n)]]
        \/ \E n \in 0..SlotLimit : image' = [image EXCEPT !.freeHead = n]
    BY DEF Damage
  <2> HIDE DEF Image
  <2>7. CASE \E i \in DOMAIN image.records, n \in 0..SlotLimit :
               image' = [image EXCEPT !.records =
                  [image.records EXCEPT ![i] = Vacant(image.records[i].generation, n)]]
    BY <2>4, <2>7
  <2> QED
    BY <2>2, <2>3, <2>5, <2>6, <2>7
<1>6. CodecType'
    BY <1>1, <1>2, <1>3, <1>5 DEF CodecType
<1> QED
    BY <1>2, <1>3, <1>6 DEF IInv, Checkpoint, Store!Lose

LEMMA StepBeginRestore ==
    ASSUME IInv, BeginRestore
    PROVE  IInv' /\ UNCHANGED <<live, issued, saved>>
<1>1. CodecType /\ Checkpoint
    BY DEF IInv
<1>2. /\ image.complete /\ restore' = [active |-> TRUE, slots |-> <<>>]
      /\ UNCHANGED <<slots, freeHead, len, image, live, issued, saved>>
    BY DEF BeginRestore, arena, history
<1>3. CodecType'
    BY <1>1, <1>2 DEF CodecType
<1>4. Checkpoint'
    BY <1>1, <1>2 DEF Checkpoint, IsPrefixOf, CodecType
<1> QED
    BY <1>2, <1>3, <1>4 DEF IInv

LEMMA StepRestore ==
    ASSUME IInv, NEW b \in 1..MaxBudget, RestoreSlice(b)
    PROVE  IInv' /\ (Store!Restore \/ Store!Adopt \/ UNCHANGED <<live, issued, saved>>)
<1> DEFINE from == Len(restore.slots)
           end == Lesser(from + b, image.count)
           decoded == restore.slots \o SubSeq(image.records, from + 1, end)
<1>1. /\ CodecType /\ Checkpoint
      /\ restore.slots \in Seq(Slot) /\ image.records \in Seq(Slot) /\ image.source \in Seq(Slot)
      /\ image.count \in 0..SlotLimit
    BY DEF IInv, CodecType
<1>2. restore.active /\ image.complete /\ UNCHANGED <<image, saved>>
    BY <1>1 DEF RestoreSlice, CodecType
<1>3. end \in Nat /\ from <= end /\ end <= image.count
  <2>1. from \in Nat /\ from <= image.count /\ from + b \in Int /\ image.count \in Int
    BY <1>1 DEF CodecType
  <2>2. end \in {from + b, image.count} /\ end <= image.count
    BY <2>1, LesserBounds
  <2> QED
    BY <2>1, <2>2
<1>4. CASE restore' = Idle /\ UNCHANGED <<arena, live, issued>>
  <2>1. CodecType' /\ Checkpoint'
    BY <1>1, <1>2, <1>4 DEF Idle, CodecType, Checkpoint, IsPrefixOf
  <2> QED
    BY <1>2, <1>4, <2>1 DEF IInv, arena
<1>5. ASSUME end <= Len(image.records)
      PROVE  /\ decoded \in Seq(Slot) /\ Len(decoded) = end
             /\ saved.intact => IsPrefixOf(decoded, image.source)
  <2>1. /\ decoded \in Seq(Slot) /\ Len(decoded) = end
        /\ \A x \in Seq(Slot) : IsPrefixOf(restore.slots, x) /\ IsPrefixOf(image.records, x) =>
               IsPrefixOf(decoded, x)
    <3>1. restore.slots \in Seq(Slot) /\ image.records \in Seq(Slot) /\ from = Len(restore.slots)
        BY <1>1
    <3>2. end \in Nat /\ from <= end /\ end <= Len(image.records)
        BY <1>3, <1>5
    <3>3. /\ restore.slots \o SubSeq(image.records, from + 1, end) \in Seq(Slot)
          /\ Len(restore.slots \o SubSeq(image.records, from + 1, end)) = end
        BY <3>1, <3>2, PrefixGrows, SMTT(30)
    <3>4. ASSUME NEW x \in Seq(Slot), IsPrefixOf(restore.slots, x), IsPrefixOf(image.records, x)
          PROVE  IsPrefixOf(restore.slots \o SubSeq(image.records, from + 1, end), x)
        BY <3>1, <3>2, <3>4, PrefixGrows, ZenonT(60)
    <3> QED
        BY <3>3, <3>4
  <2> QED
    BY <1>1, <2>1 DEF Checkpoint
<1>6. CASE /\ end <= Len(image.records)
           /\ restore' = [restore EXCEPT !.slots = decoded]
           /\ UNCHANGED <<arena, live, issued>>
  <2> HIDE DEF decoded, end
  <2>1. restore'.slots = decoded /\ restore'.active /\ restore' \in [active : BOOLEAN, slots : Seq(Slot)]
    BY <1>1, <1>2, <1>5, <1>6 DEF CodecType
  <2>2. CodecType' /\ Checkpoint'
    BY <1>1, <1>2, <1>3, <1>5, <1>6, <2>1 DEF CodecType, Checkpoint
  <2> QED
    BY <1>2, <1>6, <2>2 DEF IInv, arena
<1>7. CASE end <= Len(image.records) /\ end = image.count /\ restore' = Idle
           /\ Accepted(decoded) /\ Adopt(decoded)
  <2>1. decoded \in Seq(Slot) /\ Len(decoded) = image.count
        /\ Len(image.records) = image.count
    BY <1>5, <1>7 DEF Accepted
  <2>2. saved.intact => decoded = image.source
    <3>1. ASSUME saved.intact PROVE decoded = image.source
      <4>1. IsPrefixOf(decoded, image.source) /\ Len(image.source) = image.count
          BY <1>1, <1>5, <1>7, <3>1 DEF Checkpoint
      <4> QED
          BY <1>1, <2>1, <4>1, SeqEqual DEF IsPrefixOf
    <3> QED
        BY <3>1
  <2> HIDE DEF decoded, end
  <2>3. slots' = decoded /\ freeHead' = image.freeHead /\ len' = image.len
    BY <1>7 DEF Adopt
  <2>4. ArenaState(slots', freeHead', len')
    BY <1>1, <1>7, <2>1, <2>3 DEF Accepted, ValidSnapshot, ArenaState, CodecType
  <2>5. CodecType' /\ Checkpoint'
    BY <1>1, <1>2, <1>7 DEF Idle, CodecType, Checkpoint, IsPrefixOf
  <2>6. CASE saved.intact
    <3>1. live' = saved.live /\ issued' = saved.issued
        BY <1>7, <2>6 DEF Adopt
    <3>2. HistoryOf(slots', live', issued')
        BY <1>1, <2>2, <2>3, <2>6, <3>1 DEF Checkpoint
    <3> QED
        BY <1>2, <2>4, <2>5, <2>6, <3>1, <3>2 DEF IInv, Store!Restore
  <2>7. CASE ~saved.intact
    <3>1. /\ live' = [k \in {KeyAt(decoded, i) : i \in Tagged(decoded, "occupied")} |-> Get(decoded, k)]
          /\ issued' = DOMAIN live'
        BY <1>7, <2>7 DEF Adopt
    <3>2. HistoryOf(slots', live', issued')
        BY <2>1, <2>3, <2>4, <3>1, ForeignHistory DEF ArenaState
    <3> QED
        BY <1>2, <2>4, <2>5, <2>7, <3>1, <3>2 DEF IInv, Store!Adopt
  <2> QED
    BY <2>6, <2>7
<1> QED
    BY <1>4, <1>6, <1>7 DEF RestoreSlice

LEMMA StepIInv ==
    ASSUME IInv, [Next]_vars
    PROVE  IInv' /\ [Store!Next]_<<live, issued, saved>>
<1>1. CASE UNCHANGED vars
    BY <1>1 DEF vars, IInv, ArenaState, HistoryOf, CodecType, Checkpoint
<1>2. ASSUME NEW v \in Values, InsertReuse(v) \/ InsertGrow(v)
      PROVE  IInv' /\ Store!Next
    BY <1>2, StepInsert DEF Store!Next
<1>3. ASSUME NEW k \in Keys, Remove(k)
      PROVE  IInv' /\ Store!Next
    BY <1>3, StepRemove DEF Store!Next
<1>4. ASSUME NEW k \in Keys, NEW v \in Values, Write(k, v)
      PROVE  IInv' /\ Store!Next
    BY <1>4, StepWrite DEF Store!Next
<1>5. CASE BeginEncode
    BY <1>5, StepBeginEncode DEF Store!Next
<1>6. CASE Damage
    BY <1>6, StepDamage DEF Store!Next
<1>7. CASE BeginRestore
    BY <1>7, StepBeginRestore
<1>8. ASSUME NEW b \in 1..MaxBudget, EncodeSlice(b) \/ RestoreSlice(b)
      PROVE  IInv' /\ [Store!Next]_<<live, issued, saved>>
    BY <1>8, StepEncode, StepRestore DEF Store!Next
<1> QED
    BY <1>1, <1>2, <1>3, <1>4, <1>5, <1>6, <1>7, <1>8 DEF Next

\* The invariant holds in every reachable state.
THEOREM Invariance == Spec => []IInv
<1>1. IInv /\ [Next]_vars => IInv'
    BY StepIInv
<1> QED
    BY InitIInv, <1>1, PTL DEF Spec

\* Type correctness of the arena, its checkpoint and both continuations.
THEOREM TypeCorrect == Spec => []TypeOK
<1>1. IInv => TypeOK
  <2> SUFFICES ASSUME IInv PROVE TypeOK
    OBVIOUS
  <2>1. ArenaState(slots, freeHead, len) /\ HistoryOf(slots, live, issued) /\ CodecType
    BY DEF IInv
  <2>2. slots \in Seq(Slot) /\ len \in 0..SlotLimit
    BY <2>1, CountBound DEF ArenaState
  <2>3. \A k \in DOMAIN live : live[k] \in Values
    <3> SUFFICES ASSUME NEW k \in DOMAIN live PROVE live[k] \in Values
        OBVIOUS
    <3>1. PICK i \in Tagged(slots, "occupied") : k = KeyAt(slots, i) /\ live[k] = slots[i].value
        BY <2>1 DEF HistoryOf
    <3> QED
        BY <2>2, <3>1, SlotFields DEF Tagged
  <2> QED
    BY <2>1, <2>2, <2>3 DEF TypeOK, ArenaState, HistoryOf, CodecType
<1> QED
    BY <1>1, Invariance, PTL

\* The free list is exact: every reusable slot once, no slot in use.
THEOREM FreeListIsExact == Spec => []FreeListExact
<1>1. IInv => FreeListExact
    BY DEF IInv, ArenaState, FreeListExact
<1> QED
    BY <1>1, Invariance, PTL

\* No stale key ever resolves, and a live one resolves to its value.
THEOREM KeysAlwaysResolve == Spec => []KeysResolve
<1>1. IInv => KeysResolve
  <2> SUFFICES ASSUME IInv, NEW k \in issued
               PROVE  Get(slots, k) = IF k \in DOMAIN live THEN live[k] ELSE NoValue
    BY DEF KeysResolve
  <2>1. slots \in Seq(Slot) /\ HistoryOf(slots, live, issued) /\ k \in Keys
    BY DEF IInv, ArenaState, HistoryOf
  <2>2. CASE k \in DOMAIN live
    <3>1. PICK i \in Tagged(slots, "occupied") : k = KeyAt(slots, i) /\ live[k] = slots[i].value
        BY <2>1, <2>2 DEF HistoryOf
    <3> QED
        BY <2>2, <3>1 DEF Get, KeyAt
  <2>3. CASE k \notin DOMAIN live
    <3>1. Get(slots, k) = NoValue
        BY <2>1, <2>3, GetMeaning DEF HistoryOf
    <3> QED
        BY <2>3, <3>1
  <2> QED
    BY <2>2, <2>3
<1> QED
    BY <1>1, Invariance, PTL

\* Slices of any budgets write and read back the snapshot and nothing else.
THEOREM SlicesAreFaithful == Spec => []SlicesFaithful
<1>1. IInv => SlicesFaithful
  <2> SUFFICES ASSUME IInv, saved.intact PROVE SlicesFaithful
    BY DEF SlicesFaithful
  <2>1. CodecType /\ Checkpoint /\ image.source \in Seq(Slot)
        /\ image.records \in Seq(Slot) /\ restore.slots \in Seq(Slot)
    BY DEF IInv, CodecType
  <2>2. ASSUME NEW r \in Seq(Slot), NEW s \in Seq(Slot), IsPrefixOf(r, s)
        PROVE  r = SubSeq(s, 1, Len(r))
    <3>1. \A j \in 1..Len(r) : s[j] \in Slot
        BY <2>2 DEF IsPrefixOf
    <3>2. Len(r) \in Nat
        OBVIOUS
    <3>3. /\ SubSeq(s, 1, Len(r)) \in Seq(Slot)
          /\ Len(SubSeq(s, 1, Len(r))) = IF 1 <= Len(r) THEN Len(r) - 1 + 1 ELSE 0
          /\ \A j \in 1..(Len(r) - 1 + 1) : SubSeq(s, 1, Len(r))[j] = s[1 + j - 1]
        BY <3>1, <3>2, SubSeqProperties
    <3>4. Len(SubSeq(s, 1, Len(r))) = Len(r)
        BY <3>2, <3>3
    <3>5. \A j \in 1..Len(r) : r[j] = SubSeq(s, 1, Len(r))[j]
        BY <2>2, <3>2, <3>3 DEF IsPrefixOf
    <3> QED
        BY <3>3, <3>4, <3>5, SeqEqual
  <2>3. image.complete /\ image.count < SlotLimit => Accepted(image.source)
    BY <2>1 DEF Checkpoint, Accepted, ValidSnapshot, ArenaState
  <2> QED
    BY <2>1, <2>2, <2>3 DEF SlicesFaithful, Checkpoint
<1> QED
    BY <1>1, Invariance, PTL

\* The walk of validate_snapshot accepts a free list exactly when it visits
\* every vacant slot once, on the arena in use and on any damaged checkpoint.
THEOREM WalkIsExact == Spec => []WalkExact
<1>1. IInv => WalkExact
  <2> SUFFICES ASSUME IInv PROVE WalkExact
    OBVIOUS
  <2>1. /\ slots \in Seq(Slot) /\ freeHead \in 0..SlotLimit
        /\ image.records \in Seq(Slot) /\ image.freeHead \in 0..SlotLimit
    BY DEF IInv, ArenaState, CodecType
  <2>2. \A s \in Seq(Slot), head \in 0..SlotLimit : WalkAccepts(s, head) = FreeList(s, head)
    <3> TAKE s \in Seq(Slot), head \in 0..SlotLimit
    <3>1. WalkAccepts(s, head) \in BOOLEAN /\ FreeList(s, head) \in BOOLEAN
        BY DEF WalkAccepts, FreeList
    <3> QED
        BY <3>1, WalkSound, WalkComplete
  <2> QED
    BY <2>1, <2>2 DEF WalkExact
<1> QED
    BY <1>1, Invariance, PTL

\* The arena implements the keyed store: no key is handed out twice, a stale
\* key changes nothing, a checkpoint returns to what it saved.
THEOREM Refinement == Spec => ImplementsStore
<1>1. Init => Store!Init
    BY DEF Init, Store!Init, Store!History
<1>2. IInv /\ [Next]_vars => [Store!Next]_(Store!vars)
    BY StepIInv DEF Store!vars
<1> QED
    BY <1>1, <1>2, Invariance, PTL DEF Spec, ImplementsStore, Store!Spec
================================================================================
