------------------------ MODULE OrderedMapSessionProofs ------------------------
(***************************************************************************)
(* Proofs about OrderedMapSession for every timeline, interval, chunk,      *)
(* checkpoint bound and choice of failing items.                            *)
(***************************************************************************)
EXTENDS OrderedMapSession, SequenceTheorems, Sums

USE SessionAssumption DEF SessionAssumption, Items, Boundaries

(***************************************************************************)
(* Instances                                                                *)
(***************************************************************************)

\* A nonempty set of naturals below a bound has a greatest element.
LEMMA GreatestNatural ==
    ASSUME NEW n \in Nat, NEW T \in SUBSET (0 .. n), T # {}
    PROVE  \E x \in T : \A y \in T : y <= x
<1> DEFINE D == {n - y : y \in T}
<1>0. \A y \in T : n - y \in Nat
    OBVIOUS
<1>1. D \in SUBSET Nat /\ D # {}
    BY <1>0
<1>2. PICK d \in D : \A e \in D : d <= e
    BY <1>1, LeastNatural
<1>3. PICK x \in T : d = n - x
    BY <1>2
<1>4. \A y \in T : n - y \in D
    OBVIOUS
<1>5. \A y \in T : y <= x
    BY <1>2, <1>3, <1>4
<1> QED
    BY <1>5

\* Prefix(c) is an instance of length c.
LEMMA PrefixType ==
    ASSUME NEW c \in Boundaries
    PROVE  /\ Prefix(c) \in Instances
           /\ Len(Prefix(c)) = c
           /\ \A i \in 1 .. c : Prefix(c)[i] = i
    BY DEF Prefix, Instances, HalfDone

\* Replaying from+1 .. to on an instance gives an instance.
LEMMA ReplayedType ==
    ASSUME NEW h \in Instances, NEW from \in Boundaries, NEW to \in Boundaries, from <= to
    PROVE  Replayed(h, from, to) \in Instances
<1>1. Len(h) \in Nat /\ \A i \in 1 .. Len(h) : h[i] \in Items \cup {HalfDone}
    BY DEF Instances
<1>2. \A i \in 1 .. Len(h) + (to - from) :
        (IF i <= Len(h) THEN h[i] ELSE from + (i - Len(h))) \in Items \cup {HalfDone}
    BY <1>1
<1> QED
    BY <1>1, <1>2 DEF Replayed, Instances

\* Replaying the rest of the timeline on a prefix gives the longer prefix.
LEMMA ReplayedPrefix ==
    ASSUME NEW from \in Boundaries, NEW to \in Boundaries, from <= to
    PROVE  Replayed(Prefix(from), from, to) = Prefix(to)
<1>1. Len(Prefix(from)) = from /\ \A i \in 1 .. from : Prefix(from)[i] = i
    BY PrefixType
<1>2. Replayed(Prefix(from), from, to) =
        [i \in 1 .. to |-> IF i <= from THEN Prefix(from)[i] ELSE from + (i - from)]
    BY <1>1 DEF Replayed
<1>3. \A i \in 1 .. to :
        (IF i <= from THEN Prefix(from)[i] ELSE from + (i - from)) = i
    BY <1>1
<1> QED
    BY <1>2, <1>3 DEF Prefix

\* A half-done operation leaves an instance, of some shape.
LEMMA TornType ==
    ASSUME NEW h \in Instances
    PROVE  Torn(h) \in Instances
<1>1. HalfDone \in Items \cup {HalfDone}
    OBVIOUS
<1> QED
    BY <1>1, AppendProperties DEF Torn, Instances

\* The first failing item of a replay lies inside it.
LEMMA FirstFailureIn ==
    ASSUME NEW from \in Boundaries, NEW to \in Boundaries, ReplayFails(from, to)
    PROVE  /\ FirstFailure(from, to) \in Failing
           /\ FirstFailure(from, to) - 1 \in from .. to
           /\ FirstFailure(from, to) - 1 \in Boundaries
           /\ from < FirstFailure(from, to)
           /\ FirstFailure(from, to) <= to
           /\ ~ReplayFails(from, FirstFailure(from, to) - 1)
<1>0. \A i \in Failing : i \in Nat
    OBVIOUS
<1>1. {i \in Failing : from < i /\ i <= to} \in SUBSET Nat
    BY <1>0
<1>2. \E i \in Failing : /\ from < i /\ i <= to
                         /\ \A j \in Failing : from < j /\ j <= to => i <= j
    BY <1>1, LeastNatural DEF ReplayFails
<1>3. /\ FirstFailure(from, to) \in Failing
      /\ from < FirstFailure(from, to) /\ FirstFailure(from, to) <= to
      /\ \A j \in Failing : from < j /\ j <= to => FirstFailure(from, to) <= j
    BY <1>2 DEF FirstFailure
<1> DEFINE f == FirstFailure(from, to)
<1>4. f \in Nat /\ \A j \in Failing : from < j /\ j <= to => f <= j
    BY <1>0, <1>3
<1> HIDE DEF f
<1>5. \A j \in Failing : j <= f - 1 => j <= to
    BY <1>0, <1>3, <1>4 DEF f
<1>6. ~ReplayFails(from, f - 1)
    BY <1>0, <1>4, <1>5 DEF ReplayFails
<1>7. f - 1 \in from .. to /\ f - 1 \in Boundaries
    BY <1>3, <1>4 DEF f
<1> QED
    BY <1>3, <1>6, <1>7 DEF f

(***************************************************************************)
(* The inductive invariant.  The invariants that the runs check are not     *)
(* inductive: an accepted seek installs whatever its candidate holds, a     *)
(* rollback and a seek install what a checkpoint holds, and the index files  *)
(* what its own instance holds, so each of these instances has to be exact   *)
(* all the time, and the items in front of each cursor must be replayable.   *)
(***************************************************************************)
Runnable(c) == ~ReplayFails(0, c)

\* What a set of checkpoints reports.
Held(S) == MapThenSumSet(LAMBDA p : p.bytes, S)

CheckpointsGood ==
    /\ checkpoints \subseteq Checkpoint
    /\ checkpointBytes \in 0 .. MaxCheckpointBytes
    /\ checkpointBytes = Held(checkpoints)
    /\ CheckpointsExact
    /\ IsFiniteSet(checkpoints)
    /\ Cardinality(checkpoints) <= MaxCheckpoints
    /\ \A p \in checkpoints : Runnable(p.cursor)

LiveGood ==
    /\ cursor \in Boundaries
    /\ stagedNext \in BOOLEAN
    /\ Runnable(cursor)
    /\ stagedNext => Runnable(cursor + 1)
    /\ LiveAtBoundary

SeekGood ==
    /\ stagedSeek \in [algorithm : Instances, cursor : Boundaries, target : Boundaries]
    /\ seekPhase \in {"none", "replaying", "offered", "failed"}
    /\ stagedSeek.cursor <= stagedSeek.target
    /\ seekPhase \in {"replaying", "offered"} =>
        /\ stagedSeek.algorithm = Prefix(stagedSeek.cursor)
        /\ Runnable(stagedSeek.cursor)
    /\ seekPhase = "offered" => stagedSeek.cursor = stagedSeek.target

IndexGood ==
    /\ indexing \in BOOLEAN
    /\ indexCursor \in Boundaries
    /\ indexAlgorithm \in Instances
    /\ indexing => indexAlgorithm = Prefix(indexCursor)
    /\ Runnable(indexCursor)
    /\ ~indexing => indexCursor = ItemCount \/ indexCursor + 1 \in Failing

IInv == LiveGood /\ SeekGood /\ CheckpointsGood /\ IndexGood

\* Nothing fails in front of the start of the timeline, and a replay from a
\* runnable boundary that meets no failing item ends at a runnable boundary.
LEMMA RunnableExtends ==
    ASSUME NEW from \in Boundaries, NEW to \in Boundaries
    PROVE  /\ Runnable(0)
           /\ Runnable(from) /\ ~ReplayFails(from, to) => Runnable(to)
           /\ Runnable(to) => ~ReplayFails(from, to)
<1>1. \A i \in Failing : i \in Nat /\ 0 < i
    OBVIOUS
<1> QED
    BY <1>1 DEF Runnable, ReplayFails

\* A nonempty set of checkpoints has a latest one.
LEMMA LatestIn ==
    ASSUME NEW S \in SUBSET Checkpoint, S # {}
    PROVE  /\ Latest(S) \in S
           /\ \A q \in S : q.cursor <= Latest(S).cursor
<1> DEFINE T == {p.cursor : p \in S}
<1>1. T \in SUBSET (0 .. ItemCount) /\ T # {}
    BY DEF Checkpoint
<1>2. PICK c \in T : \A d \in T : d <= c
    BY <1>1, GreatestNatural
<1>3. PICK p \in S : p.cursor = c
    BY <1>2
<1>4. \A q \in S : q.cursor <= p.cursor
    BY <1>2, <1>3
<1> QED
    BY <1>4 DEF Latest

(***************************************************************************)
(* Evictions.                                                               *)
(***************************************************************************)

HeldFold(S, g) ==
    g = [s \in SUBSET S |-> IF s = {} THEN 0 ELSE Chosen(s).bytes + g[s \ {Chosen(s)}]]
BytesOf(S) == [p \in S |-> p.bytes]

LEMMA HeldIsFold ==
    ASSUME NEW S
    PROVE  Held(S) = (CHOOSE g : HeldFold(S, g))[S]
BY DEF Held, MapThenSumSet, MapThenFoldSet, HeldFold, Chosen

LEMMA HeldIsTotal ==
    ASSUME NEW S, IsFiniteSet(S)
    PROVE  Held(S) = Total(BytesOf(S), S)
<1> DEFINE f == BytesOf(S)
           a == CHOOSE g : HeldFold(S, g)
           b == CHOOSE g : Folds(f, S, g)
<1>1. ASSUME NEW g PROVE HeldFold(S, g) <=> Folds(f, S, g)
  <2>1. ASSUME NEW s \in SUBSET S, s # {} PROVE f[Chosen(s)] = Chosen(s).bytes
    <3>1. Chosen(s) \in S
      BY <2>1, ChosenIsIn
    <3> QED
      BY <3>1 DEF BytesOf
  <2>2. [s \in SUBSET S |-> IF s = {} THEN 0 ELSE Chosen(s).bytes + g[s \ {Chosen(s)}]]
          = [s \in SUBSET S |-> IF s = {} THEN 0 ELSE f[Chosen(s)] + g[s \ {Chosen(s)}]]
    BY <2>1
  <2> QED
    BY <2>2 DEF HeldFold, Folds
<1>2. Folds(f, S, b)
  BY FoldExists
<1>3. HeldFold(S, b)
  BY <1>1, <1>2
<1>4. HeldFold(S, a)
  BY <1>3
<1>5. Folds(f, S, a)
  BY <1>1, <1>4
<1>6. Held(S) = a[S]
  BY HeldIsFold
<1>7. Total(f, S) = b[S]
  BY TotalIsFold
<1> HIDE DEF a, b, f
<1>8. a[S] = b[S]
  BY <1>2, <1>5, FoldsAgree
<1> QED
  BY <1>6, <1>7, <1>8 DEF f

LEMMA HeldRules ==
    ASSUME NEW S, IsFiniteSet(S), \A p \in S : p.bytes \in Nat
    PROVE  /\ Held({}) = 0
           /\ Held(S) \in Int
           /\ \A p \in S : Held(S) = p.bytes + Held(S \ {p})
<1>1. Held({}) = 0
  <2>1. IsFiniteSet({})
    BY FS_EmptySet
  <2>2. Held({}) = Total(BytesOf({}), {})
    BY <2>1, HeldIsTotal
  <2>3. Total(BytesOf({}), {}) = 0
    BY <2>1, TotalStep
  <2> QED
    BY <2>2, <2>3
<1>2. ASSUME NEW T \in SUBSET S
      PROVE  /\ IsFiniteSet(T) /\ Held(T) = Total(BytesOf(T), T) /\ Held(T) \in Int
             /\ Held(T) = Total(BytesOf(S), T)
  <2>1. IsFiniteSet(T)
    BY FS_Subset
  <2>2. \A p \in T : BytesOf(T)[p] = p.bytes /\ BytesOf(S)[p] = p.bytes
    BY DEF BytesOf
  <2>3. \A p \in T : BytesOf(T)[p] \in Int /\ BytesOf(S)[p] \in Int
                     /\ BytesOf(T)[p] = BytesOf(S)[p]
    BY <2>2
  <2>4. Held(T) = Total(BytesOf(T), T)
    BY <2>1, HeldIsTotal
  <2>5. Total(BytesOf(T), T) \in Int
    BY <2>1, <2>3, TotalType
  <2>6. Total(BytesOf(T), T) = Total(BytesOf(S), T)
    BY <2>1, <2>3, TotalSame
  <2> QED
    BY <2>1, <2>4, <2>5, <2>6
<1>3. ASSUME NEW p \in S PROVE Held(S) = p.bytes + Held(S \ {p})
  <2>1. \A q \in S : BytesOf(S)[q] \in Int /\ BytesOf(S)[q] = q.bytes
    BY DEF BytesOf
  <2>2. Total(BytesOf(S), S) = BytesOf(S)[p] + Total(BytesOf(S), S \ {p})
    BY <2>1, TotalRemove
  <2> QED
    BY <1>2, <2>1, <2>2
<1> QED
  BY <1>1, <1>2, <1>3

LEMMA HeldAdd ==
    ASSUME NEW S, IsFiniteSet(S), NEW p, p \notin S, \A q \in S \cup {p} : q.bytes \in Nat
    PROVE  Held(S \cup {p}) = p.bytes + Held(S)
<1> DEFINE U == S \cup {p}
           R == U \ {p}
<1>1. IsFiniteSet(U) /\ R = S /\ p \in U /\ \A q \in U : q.bytes \in Nat
  BY FS_AddElement
<1> HIDE DEF U
<1>2. Held(U) = p.bytes + Held(R)
  BY <1>1, HeldRules
<1> HIDE DEF R
<1>3. Held(U) = p.bytes + Held(S)
  BY <1>1, <1>2
<1> QED
  BY <1>3 DEF U

LEMMA HeldIsNatural ==
    ASSUME NEW S, IsFiniteSet(S), \A p \in S : p.bytes \in Nat
    PROVE  Held(S) \in Nat
<1> DEFINE good == {T \in SUBSET S : Held(T) \in Nat}
<1>1. {} \in good
  BY HeldRules
<1>2. ASSUME NEW T \in SUBSET S, NEW p \in S \ T, T \in good PROVE T \cup {p} \in good
  <2>1. IsFiniteSet(T) /\ p.bytes \in Nat /\ Held(T) \in Nat /\ \A q \in T \cup {p} : q.bytes \in Nat
    BY <1>2, FS_Subset
  <2>2. Held(T \cup {p}) = p.bytes + Held(T)
    BY <2>1, HeldAdd
  <2>3. Held(T \cup {p}) \in Nat
    BY <2>1, <2>2
  <2> QED
    BY <2>3
<1> HIDE DEF good
<1>3. S \in good
  BY <1>1, <1>2, SubsetInduction
<1> QED
  BY <1>3 DEF good

LEMMA HeldGrows ==
    ASSUME NEW S, IsFiniteSet(S), \A p \in S : p.bytes \in Nat, NEW K \in SUBSET S
    PROVE  Held(K) \in Nat /\ Held(K) <= Held(S)
<1>1. IsFiniteSet(K)
  BY FS_Subset
<1>2. Held(K) \in Nat
  BY <1>1, HeldIsNatural
<1> DEFINE D == S \ K
           good == {T \in SUBSET D : Held(K) <= Held(K \cup T)}
<1>3. IsFiniteSet(D)
  BY FS_Subset
<1>4. {} \in good
  <2>1. K \cup {} = K
    OBVIOUS
  <2> QED
    BY <1>2, <2>1
<1>5. ASSUME NEW T \in SUBSET D, NEW p \in D \ T, T \in good PROVE T \cup {p} \in good
  <2> DEFINE U == K \cup T
             V == K \cup (T \cup {p})
  <2>1. IsFiniteSet(U) /\ p \notin U /\ (\A q \in U \cup {p} : q.bytes \in Nat)
          /\ U \cup {p} = V /\ p.bytes \in Nat
    BY FS_Subset
  <2>2. Held(K) <= Held(U)
    BY <1>5
  <2> HIDE DEF U, V
  <2>3. Held(U \cup {p}) = p.bytes + Held(U) /\ Held(U) \in Nat
    BY <2>1, HeldAdd, HeldIsNatural
  <2>4. Held(K) <= Held(V)
    <3>1. Held(V) = p.bytes + Held(U)
      BY <2>1, <2>3
    <3> QED
      BY <1>2, <2>1, <2>2, <2>3, <3>1
  <2> QED
    BY <2>4 DEF V
<1> HIDE DEF good
<1>6. D \in good
  BY <1>3, <1>4, <1>5, SubsetInduction
<1>7. K \cup D = S
  OBVIOUS
<1> HIDE DEF D
<1>8. Held(K) <= Held(K \cup D)
  BY <1>6 DEF good
<1> QED
  BY <1>2, <1>7, <1>8

\* One checkpoint per boundary.
Distinct(S) == \A p, q \in S : p.cursor = q.cursor => p = q

LEMMA EarliestIn ==
    ASSUME NEW S \in SUBSET Checkpoint, S # {}
    PROVE  /\ Earliest(S) \in S
           /\ \A q \in S : Earliest(S).cursor <= q.cursor
<1> DEFINE T == {p.cursor : p \in S}
<1>1. T \in SUBSET Nat /\ T # {}
    BY DEF Checkpoint
<1>2. PICK c \in T : \A d \in T : c <= d
    BY <1>1, LeastNatural
<1>3. PICK p \in S : p.cursor = c
    BY <1>2
<1>4. \A q \in S : p.cursor <= q.cursor
    BY <1>2, <1>3
<1> QED
    BY <1>4 DEF Earliest

\* Of three checkpoints or more, an inner one of least gap is evicted.
LEMMA EvictsInner ==
    ASSUME NEW S \in SUBSET Checkpoint, S # {}, IsFiniteSet(S), Distinct(S),
           ~(Cardinality(S) <= 2)
    PROVE  /\ CheckpointToEvict(S) \in S \ {Earliest(S), Latest(S)}
           /\ \A q \in S \ {Earliest(S), Latest(S)} : Gap(S, CheckpointToEvict(S)) <= Gap(S, q)
<1> DEFINE a == Earliest(S)
           z == Latest(S)
           inner == S \ {a, z}
           narrowest == {p \in inner : \A q \in inner : Gap(S, p) <= Gap(S, q)}
<1>1. a \in S /\ z \in S /\ \A q \in S : a.cursor <= q.cursor /\ q.cursor <= z.cursor
  BY EarliestIn, LatestIn
<1>2. CheckpointToEvict(S) = Earliest(narrowest)
  BY DEF CheckpointToEvict
<1> HIDE DEF a, z
<1>3. inner # {}
  <2> SUFFICES ASSUME S \subseteq {a, z} PROVE FALSE
    OBVIOUS
  <2>1. IsFiniteSet({a, z}) /\ Cardinality({a, z}) <= 2
    <3>1. IsFiniteSet({a}) /\ Cardinality({a}) = 1
      BY FS_Singleton
    <3>2. /\ IsFiniteSet({a} \cup {z})
          /\ Cardinality({a} \cup {z}) = IF z \in {a} THEN 1 ELSE 1 + 1
      BY <3>1, FS_AddElement
    <3> DEFINE both == {a} \cup {z}
    <3>3. {a, z} = both
      OBVIOUS
    <3>4. IsFiniteSet(both) /\ (Cardinality(both) = 1 \/ Cardinality(both) = 2)
      BY <3>2
    <3> HIDE DEF both
    <3>5. Cardinality(both) <= 2
      BY <3>4
    <3> QED
      BY <3>3, <3>4, <3>5
  <2>2. Cardinality(S) <= Cardinality({a, z})
    BY <2>1, FS_Subset
  <2>3. Cardinality(S) \in Nat /\ Cardinality({a, z}) \in Nat
    BY <2>1, FS_CardinalityType
  <2> QED
    BY <2>1, <2>2, <2>3
<1>4. \A p \in inner : Gap(S, p) \in Nat
  <2> SUFFICES ASSUME NEW p \in inner PROVE Gap(S, p) \in Nat
    OBVIOUS
  <2> DEFINE above == {q \in S : q.cursor > p.cursor}
             below == {q \in S : q.cursor < p.cursor}
  <2>1. p \in S /\ p # a /\ p # z /\ p.cursor \in Nat /\ \A q \in S : q.cursor \in Nat
    BY DEF Checkpoint
  <2>2. a.cursor < p.cursor /\ p.cursor < z.cursor
    BY <1>1, <2>1 DEF Distinct
  <2>3. above \in SUBSET Checkpoint /\ above # {} /\ below \in SUBSET Checkpoint /\ below # {}
    BY <1>1, <2>1, <2>2
  <2>4. Earliest(above) \in above /\ Latest(below) \in below
    BY <2>3, EarliestIn, LatestIn
  <2>5. Gap(S, p) = Earliest(above).cursor - Latest(below).cursor
    BY DEF Gap
  <2>6. /\ Earliest(above).cursor \in Nat /\ Earliest(above).cursor > p.cursor
        /\ Latest(below).cursor \in Nat /\ Latest(below).cursor < p.cursor
    BY <2>1, <2>4
  <2> HIDE DEF above, below
  <2> QED
    BY <2>1, <2>5, <2>6
<1>5. narrowest # {}
  <2> DEFINE G == {Gap(S, p) : p \in inner}
  <2>1. G \in SUBSET Nat /\ G # {}
    BY <1>3, <1>4
  <2>2. PICK g \in G : \A k \in G : g <= k
    BY <2>1, LeastNatural
  <2>3. PICK p \in inner : g = Gap(S, p)
    BY <2>2
  <2>4. \A q \in inner : Gap(S, q) \in G
    OBVIOUS
  <2>5. \A q \in inner : Gap(S, p) <= Gap(S, q)
    BY <2>2, <2>3, <2>4
  <2> QED
    BY <2>5
<1>6. narrowest \in SUBSET Checkpoint
  OBVIOUS
<1> HIDE DEF narrowest
<1>7. Earliest(narrowest) \in narrowest
  BY <1>5, <1>6, EarliestIn
<1> QED
  BY <1>2, <1>7 DEF narrowest, a, z

\* What is evicted is one of the checkpoints.
LEMMA EvictsOneOf ==
    ASSUME NEW S \in SUBSET Checkpoint, S # {}, IsFiniteSet(S), Distinct(S)
    PROVE  CheckpointToEvict(S) \in S
<1>1. CASE Cardinality(S) <= 2
    BY <1>1, EarliestIn DEF CheckpointToEvict
<1>2. CASE ~(Cardinality(S) <= 2)
    BY <1>2, EvictsInner
<1> QED
    BY <1>1, <1>2

\* What is left: some of the checkpoints, one fewer per eviction, and what they
\* report.  So the subtraction never has to saturate.
Leaves(left, S, n) ==
    /\ left.kept \subseteq S
    /\ Cardinality(left.kept) = Cardinality(S) - n
    /\ left.bytes = Held(left.kept)

LEMMA EvictLeaves ==
    ASSUME NEW S \in SUBSET Checkpoint, IsFiniteSet(S), Distinct(S),
           NEW n \in Nat, n < Cardinality(S), NEW left, Leaves(left, S, n)
    PROVE  Leaves(Evict(left), S, n + 1)
<1> DEFINE K == left.kept
           e == CheckpointToEvict(K)
<1>1. /\ K \in SUBSET Checkpoint /\ IsFiniteSet(K) /\ Distinct(K) /\ K \subseteq S
      /\ Cardinality(K) = Cardinality(S) - n /\ left.bytes = Held(K)
    BY FS_Subset DEF Leaves, Distinct
<1>2. Cardinality(S) \in Nat
    BY FS_CardinalityType
<1>3. K # {}
    BY <1>1, <1>2, FS_EmptySet
<1>4. e \in K
    BY <1>1, <1>3, EvictsOneOf
<1>5. Evict(left) = [kept |-> K \ {e},
                     bytes |-> IF e.bytes > left.bytes THEN 0 ELSE left.bytes - e.bytes]
    BY DEF Evict
<1> HIDE DEF K, e
<1>6. \A p \in K : p.bytes \in Nat
    BY <1>1 DEF Checkpoint
<1>7. IsFiniteSet(K \ {e}) /\ Cardinality(K \ {e}) = Cardinality(K) - 1
    BY <1>1, <1>4, FS_RemoveElement
<1>8. Held(K) = e.bytes + Held(K \ {e})
    BY <1>1, <1>4, <1>6, HeldRules
<1>9. Held(K \ {e}) \in Nat /\ e.bytes \in Nat
    BY <1>4, <1>6, <1>7, HeldIsNatural
<1>10. (IF e.bytes > left.bytes THEN 0 ELSE left.bytes - e.bytes) = Held(K \ {e})
    BY <1>1, <1>8, <1>9
<1>11. Evict(left).kept = K \ {e} /\ Evict(left).bytes = Held(K \ {e})
    BY <1>5, <1>10
<1> QED
    BY <1>1, <1>2, <1>7, <1>11 DEF Leaves

\* The evictions one by one.
LEMMA EvictionsRecur ==
    ASSUME checkpoints \subseteq Checkpoint, IsFiniteSet(checkpoints), Distinct(checkpoints),
           checkpointBytes = Held(checkpoints)
    PROVE  \A i \in 0 .. Cardinality(checkpoints) :
             AfterEvictions[i] = IF i = 0 THEN [kept |-> checkpoints, bytes |-> checkpointBytes]
                                 ELSE Evict(AfterEvictions[i - 1])
<1> DEFINE N == Cardinality(checkpoints)
           all == [kept |-> checkpoints, bytes |-> checkpointBytes]
           IsLeft(m, g) == g = [i \in 0 .. m |-> IF i = 0 THEN all ELSE Evict(g[i - 1])]
           left == AfterEvictions
<1>1. N \in Nat
    BY FS_CardinalityType
<1>2. left = CHOOSE g : IsLeft(N, g)
    BY DEF AfterEvictions
<1> HIDE DEF N, all, left
<1>3. \E g : IsLeft(N, g)
  <2> DEFINE good == {m \in 0 .. N : \E g : IsLeft(m, g)}
  <2>1. 0 \in good
    <3>1. IsLeft(0, [i \in 0 .. 0 |-> all])
      OBVIOUS
    <3>2. 0 \in 0 .. N
      BY <1>1
    <3> QED
      BY <3>1, <3>2
  <2>2. ASSUME NEW m \in 0 .. N, m > 0, m - 1 \in good PROVE m \in good
    <3>1. PICK g : IsLeft(m - 1, g)
      BY <2>2
    <3>2. \A i \in 0 .. (m - 1) : g[i] = IF i = 0 THEN all ELSE Evict(g[i - 1])
      BY <3>1
    <3> DEFINE h == [i \in 0 .. m |-> IF i = m THEN Evict(g[m - 1]) ELSE g[i]]
    <3>3. \A i \in 0 .. m : h[i] = IF i = 0 THEN all ELSE Evict(h[i - 1])
      <4> TAKE i \in 0 .. m
      <4>1. CASE i = m
        BY <2>2, <4>1
      <4>2. CASE i # m
        <5>1. i \in 0 .. (m - 1) /\ h[i] = g[i] /\ (i > 0 => h[i - 1] = g[i - 1])
          BY <4>2
        <5> QED
          BY <3>2, <5>1
      <4> QED
        BY <4>1, <4>2
    <3>4. h = [i \in 0 .. m |-> h[i]]
      OBVIOUS
    <3> HIDE DEF h
    <3>5. h = [i \in 0 .. m |-> IF i = 0 THEN all ELSE Evict(h[i - 1])]
      BY <3>3, <3>4
    <3> QED
      BY <3>5
  <2> HIDE DEF good
  <2>3. 0 .. N \subseteq good
    BY <1>1, <2>1, <2>2, UpToInduction
  <2>4. N \in good
    BY <1>1, <2>3
  <2> QED
    BY <2>4 DEF good
<1>4. left = [i \in 0 .. N |-> IF i = 0 THEN all ELSE Evict(left[i - 1])]
    BY <1>2, <1>3
<1>5. \A i \in 0 .. N : left[i] = IF i = 0 THEN all ELSE Evict(left[i - 1])
    BY <1>4
<1> QED
    BY <1>5 DEF all, left, N

LEMMA EvictionsLeave ==
    ASSUME checkpoints \subseteq Checkpoint, IsFiniteSet(checkpoints), Distinct(checkpoints),
           checkpointBytes = Held(checkpoints)
    PROVE  \A n \in 0 .. Cardinality(checkpoints) : Leaves(AfterEvictions[n], checkpoints, n)
<1> DEFINE N == Cardinality(checkpoints)
           all == [kept |-> checkpoints, bytes |-> checkpointBytes]
           left == AfterEvictions
<1>1. N \in Nat
    BY FS_CardinalityType
<1>5. \A i \in 0 .. N : left[i] = IF i = 0 THEN all ELSE Evict(left[i - 1])
    BY EvictionsRecur
<1> HIDE DEF N, all, left
<1> DEFINE good == {i \in 0 .. N : Leaves(left[i], checkpoints, i)}
<1>6. 0 \in good
  <2>1. left[0] = all /\ 0 \in 0 .. N
    BY <1>1, <1>5
  <2>2. all.kept = checkpoints /\ all.bytes = checkpointBytes
    BY DEF all
  <2> QED
    BY <1>1, <2>1, <2>2 DEF Leaves, N
<1>7. ASSUME NEW i \in 0 .. N, i > 0, i - 1 \in good PROVE i \in good
  <2>1. left[i] = Evict(left[i - 1])
    BY <1>5, <1>7
  <2>2. Leaves(left[i - 1], checkpoints, i - 1) /\ i - 1 \in Nat /\ i - 1 < N
    BY <1>1, <1>7
  <2>3. Leaves(Evict(left[i - 1]), checkpoints, (i - 1) + 1)
    BY <2>2, EvictLeaves DEF N
  <2> QED
    BY <2>1, <2>3
<1> HIDE DEF good
<1>8. 0 .. N \subseteq good
    BY <1>1, <1>6, <1>7, UpToInduction
<1> QED
    BY <1>8 DEF good, N, left

\* Filing an exact instance under its boundary keeps the checkpoints exact,
\* within the byte budget and within the count bound, whatever is evicted.
LEMMA StoreKeepsCheckpoints ==
    ASSUME CheckpointsGood, NEW c \in Boundaries, Runnable(c),
           StoreCheckpoint(c, Prefix(c))
    PROVE  CheckpointsGood'
<1>1. PICK size \in Sizes :
        IF \/ \E p \in checkpoints : p.cursor = c
           \/ size > MaxCheckpointBytes
           \/ MaxCheckpoints = 0
        THEN UNCHANGED checkpointVars
        ELSE \E n \in 0 .. Cardinality(checkpoints) :
                LET left == AfterEvictions[n]
                    new == [cursor |-> c, bytes |-> size, algorithm |-> Prefix(c)]
                IN /\ HasRoom(left, size) \/ n = Cardinality(checkpoints)
                   /\ \A m \in 0 .. n - 1 : ~HasRoom(AfterEvictions[m], size)
                   /\ IF HasRoom(left, size)
                      THEN checkpoints' = left.kept \cup {new} /\ checkpointBytes' = left.bytes + size
                      ELSE checkpoints' = left.kept /\ checkpointBytes' = left.bytes
    BY DEF StoreCheckpoint
<1>2. CASE UNCHANGED checkpointVars
    BY <1>2 DEF checkpointVars, CheckpointsGood, CheckpointsExact
<1>3. CASE ~UNCHANGED checkpointVars
  <2> DEFINE new == [cursor |-> c, bytes |-> size, algorithm |-> Prefix(c)]
  <2>1. \A p \in checkpoints : p.cursor # c
    BY <1>1, <1>3
  <2>2. PICK n \in 0 .. Cardinality(checkpoints) :
          LET left == AfterEvictions[n]
          IN  IF HasRoom(left, size)
              THEN checkpoints' = left.kept \cup {new} /\ checkpointBytes' = left.bytes + size
              ELSE checkpoints' = left.kept /\ checkpointBytes' = left.bytes
    BY <1>1, <1>3
  <2> DEFINE kept == AfterEvictions[n].kept
             bytes == AfterEvictions[n].bytes
  <2>0. Leaves(AfterEvictions[n], checkpoints, n)
    BY EvictionsLeave DEF CheckpointsGood, CheckpointsExact, Distinct
  <2>3. kept \subseteq checkpoints /\ bytes = Held(kept)
    BY <2>0 DEF Leaves
  <2>4. /\ IsFiniteSet(kept)
        /\ Cardinality(kept) \in Nat
        /\ Cardinality(kept) <= MaxCheckpoints
    <3>1. /\ IsFiniteSet(kept) /\ Cardinality(kept) <= Cardinality(checkpoints)
      BY <2>3, FS_Subset DEF CheckpointsGood
    <3>2. Cardinality(kept) \in Nat /\ Cardinality(checkpoints) \in Nat
      BY <3>1, FS_CardinalityType DEF CheckpointsGood
    <3> QED
      BY <3>1, <3>2 DEF CheckpointsGood
  <2>5. /\ new \in Checkpoint
        /\ new.cursor = c /\ new.algorithm = Prefix(c) /\ new.bytes = size /\ size \in Nat
    BY PrefixType DEF Checkpoint
  <2>8. bytes \in Nat /\ bytes <= checkpointBytes
    <3>1. \A p \in checkpoints : p.bytes \in Nat
      BY DEF CheckpointsGood, Checkpoint
    <3>2. Held(kept) \in Nat /\ Held(kept) <= Held(checkpoints)
      BY <2>3, <3>1, HeldGrows DEF CheckpointsGood
    <3> QED
      BY <2>3, <3>2 DEF CheckpointsGood
  <2>6. CASE HasRoom(AfterEvictions[n], size)
    <3>1. checkpoints' = kept \cup {new} /\ checkpointBytes' = bytes + size
      BY <2>2, <2>6
    <3>2. /\ IsFiniteSet(kept \cup {new})
          /\ Cardinality(kept \cup {new}) <= MaxCheckpoints
      <4>1. Cardinality(kept) < MaxCheckpoints
        BY <2>6 DEF HasRoom
      <4> HIDE DEF kept, new
      <4>2. /\ IsFiniteSet(kept \cup {new})
            /\ Cardinality(kept \cup {new}) =
                 IF new \in kept THEN Cardinality(kept) ELSE Cardinality(kept) + 1
        BY <2>4, FS_AddElement
      <4> QED
        BY <2>4, <4>1, <4>2
    <3>3. bytes + size \in 0 .. MaxCheckpointBytes
      <4>1. bytes + size <= MaxCheckpointBytes
        BY <2>6 DEF HasRoom
      <4> QED
        BY <2>5, <2>8, <4>1 DEF CheckpointsGood
    <3>5. bytes + size = Held(kept \cup {new})
      <4> HIDE DEF kept, bytes, new
      <4>1. new \notin kept /\ \A p \in kept : p.bytes \in Nat
        BY <2>1, <2>3, <2>5 DEF CheckpointsGood, Checkpoint
      <4>2. Held(kept \cup {new}) = new.bytes + Held(kept)
        BY <2>4, <2>5, <4>1, HeldAdd
      <4> QED
        BY <2>3, <2>5, <2>8, <4>2
    <3>4. \A p, q \in kept \cup {new} :
            /\ p \in Checkpoint
            /\ p.algorithm = Prefix(p.cursor)
            /\ Runnable(p.cursor)
            /\ p.cursor = q.cursor => p = q
      <4> HIDE DEF kept, new
      <4> QED
        BY <2>1, <2>3, <2>5 DEF CheckpointsGood, CheckpointsExact
    <3> HIDE DEF kept, new, bytes
    <3> QED
      BY <3>1, <3>2, <3>3, <3>4, <3>5 DEF CheckpointsGood, CheckpointsExact, Runnable, ReplayFails
  <2>7. CASE ~HasRoom(AfterEvictions[n], size)
    <3>1. checkpoints' = kept /\ checkpointBytes' = bytes
      BY <2>2, <2>7
    <3> HIDE DEF kept, bytes
    <3> QED
      BY <2>3, <2>4, <2>8, <3>1 DEF CheckpointsGood, CheckpointsExact, Runnable, ReplayFails
  <2> QED
    BY <2>6, <2>7
<1> QED
    BY <1>2, <1>3

LEMMA StoreActiveKeepsCheckpoints ==
    ASSUME CheckpointsGood, NEW c \in Boundaries, Runnable(c),
           StoreActiveCheckpoint(c, Prefix(c))
    PROVE  CheckpointsGood'
<1>1. CASE StoreCheckpoint(c, Prefix(c))
    BY <1>1, StoreKeepsCheckpoints
<1>2. CASE UNCHANGED checkpointVars
    BY <1>2 DEF checkpointVars, CheckpointsGood, CheckpointsExact, Runnable, ReplayFails
<1> QED
    BY <1>1, <1>2 DEF StoreActiveCheckpoint

\* The latest checkpoint at or below a boundary is one of the checkpoints.
LEMMA LatestUpTo ==
    ASSUME CheckpointsGood, NEW t \in Boundaries, UpTo(t) # {}
    PROVE  /\ Latest(UpTo(t)) \in checkpoints
           /\ Latest(UpTo(t)).cursor \in 0 .. t
           /\ \A p \in UpTo(t) : p.cursor <= Latest(UpTo(t)).cursor
<1>1. UpTo(t) \in SUBSET Checkpoint
    BY DEF UpTo, CheckpointsGood
<1>2. /\ Latest(UpTo(t)) \in UpTo(t)
      /\ \A p \in UpTo(t) : p.cursor <= Latest(UpTo(t)).cursor
    BY <1>1, LatestIn
<1> QED
    BY <1>1, <1>2 DEF UpTo, Checkpoint

\* A rollback reaches the committed boundary exactly.
LEMMA RestoreExact ==
    ASSUME CheckpointsGood, cursor \in Boundaries, Runnable(cursor)
    PROVE  /\ ~ReplayFails(RollbackBase.cursor, cursor)
           /\ Replayed(RollbackBase.algorithm, RollbackBase.cursor, cursor) = Prefix(cursor)
           /\ \A h : RestoreBoundary(h) => algorithm' = Prefix(cursor)
<1>1. /\ RollbackBase.cursor \in 0 .. cursor
      /\ RollbackBase.algorithm = Prefix(RollbackBase.cursor)
  <2>1. CASE UpTo(cursor) = {}
    BY <2>1 DEF RollbackBase, Scratch
  <2>2. CASE UpTo(cursor) # {}
    <3>1. /\ Latest(UpTo(cursor)) \in checkpoints
          /\ Latest(UpTo(cursor)).cursor \in 0 .. cursor
      BY <2>2, LatestUpTo
    <3> QED
      BY <2>2, <3>1 DEF RollbackBase, CheckpointsGood, CheckpointsExact
  <2> QED
    BY <2>1, <2>2
<1>2. ~ReplayFails(RollbackBase.cursor, cursor)
    BY <1>1, RunnableExtends
<1>3. Replayed(RollbackBase.algorithm, RollbackBase.cursor, cursor) = Prefix(cursor)
    BY <1>1, ReplayedPrefix
<1> QED
    BY <1>2, <1>3 DEF RestoreBoundary

\* A seek starts from an exact, runnable instance at or below its target.
LEMMA SeekStartExact ==
    ASSUME CheckpointsGood, cursor \in Boundaries, Runnable(cursor),
           algorithm = Prefix(cursor), NEW t \in Boundaries
    PROVE  /\ SeekStart(t).cursor \in 0 .. t
           /\ SeekStart(t).algorithm = Prefix(SeekStart(t).cursor)
           /\ Runnable(SeekStart(t).cursor)
<1>1. CASE SeekBase(t) # {}
  <2>1. SeekStart(t) \in SeekBase(t)
    BY <1>1 DEF SeekStart
  <2>2. SeekStart(t) \in UpTo(t)
    BY <2>1 DEF SeekBase
  <2> QED
    BY <2>2 DEF UpTo, CheckpointsGood, CheckpointsExact, Checkpoint
<1>2. CASE SeekBase(t) = {} /\ t < cursor
    BY <1>2, RunnableExtends DEF SeekStart, Scratch
<1>3. CASE SeekBase(t) = {} /\ ~(t < cursor)
    BY <1>3 DEF SeekStart
<1> QED
    BY <1>1, <1>2, <1>3

(***************************************************************************)
(* The invariant is inductive.                                              *)
(***************************************************************************)

LEMMA InitEstablishesInv == Init => IInv
<1> SUFFICES ASSUME Init PROVE IInv
    OBVIOUS
<1>1. Prefix(0) \in Instances /\ Runnable(0)
    BY PrefixType, RunnableExtends
<1>2. LiveGood
  <2>1. algorithm = Prefix(0) /\ cursor = 0 /\ stagedNext = FALSE
    BY DEF Init
  <2>2. LiveAtBoundary
    BY <2>1 DEF Init, LiveAtBoundary
  <2>3. cursor \in Boundaries
    BY <2>1
  <2>4. Runnable(cursor)
    BY <1>1, <2>1 DEF Runnable, ReplayFails
  <2>5. stagedNext \in BOOLEAN
    BY <2>1, Zenon
  <2> QED
    BY <2>1, <2>2, <2>3, <2>4, <2>5 DEF LiveGood
<1>3. SeekGood
    BY <1>1 DEF Init, SeekGood, NoSeek
<1>4. IndexGood
    BY <1>1 DEF Init, IndexGood
<1>5. CheckpointsGood
  <2>1. PICK size \in Sizes :
          IF size <= MaxCheckpointBytes
          THEN /\ checkpoints = {[cursor |-> 0, bytes |-> size, algorithm |-> Prefix(0)]}
               /\ checkpointBytes = size
          ELSE checkpoints = {} /\ checkpointBytes = 0
    BY DEF Init
  <2>2. IsFiniteSet(checkpoints) /\ Cardinality(checkpoints) <= MaxCheckpoints
    <3>1. CASE checkpoints = {}
      BY <3>1, FS_EmptySet
    <3>2. CASE \E p : checkpoints = {p}
      <4>1. PICK p : checkpoints = {p}
        BY <3>2
      <4>2. IsFiniteSet({p}) /\ Cardinality({p}) = 1
        BY FS_Singleton
      <4> QED
        BY <4>1, <4>2
    <3> QED
      BY <2>1, <3>1, <3>2
  <2>3. checkpointBytes = Held(checkpoints)
    <3>1. CASE checkpoints = {}
      <4>1. checkpointBytes = 0
        BY <2>1, <3>1
      <4> QED
        BY <3>1, <4>1, HeldRules, FS_EmptySet
    <3>2. CASE checkpoints # {}
      <4> DEFINE first == [cursor |-> 0, bytes |-> size, algorithm |-> Prefix(0)]
      <4>1. checkpoints = {} \cup {first} /\ checkpointBytes = size /\ first.bytes = size /\ size \in Nat
        BY <2>1, <3>2
      <4> HIDE DEF first
      <4>2. Held({} \cup {first}) = first.bytes + Held({})
        BY <4>1, FS_EmptySet, HeldAdd
      <4>3. Held({}) = 0
        BY HeldRules, FS_EmptySet
      <4> QED
        BY <4>1, <4>2, <4>3
    <3> QED
      BY <3>1, <3>2
  <2> QED
    BY <1>1, <2>1, <2>2, <2>3 DEF CheckpointsGood, CheckpointsExact, Checkpoint
<1> QED
    BY <1>2, <1>3, <1>4, <1>5 DEF IInv

\* What a step leaves alone stays good.
LEMMA UnchangedGood ==
    /\ LiveGood /\ UNCHANGED <<liveVars, seekPhase>> => LiveGood'
    /\ SeekGood /\ UNCHANGED seekVars => SeekGood'
    /\ CheckpointsGood /\ UNCHANGED checkpointVars => CheckpointsGood'
    /\ IndexGood /\ UNCHANGED indexVars => IndexGood'
<1>1. LiveGood /\ UNCHANGED <<liveVars, seekPhase>> => LiveGood'
    BY DEF LiveGood, LiveAtBoundary, Runnable, ReplayFails, liveVars
<1>2. SeekGood /\ UNCHANGED seekVars => SeekGood'
    BY DEF SeekGood, Runnable, ReplayFails, seekVars
<1>3. CheckpointsGood /\ UNCHANGED checkpointVars => CheckpointsGood'
    BY DEF CheckpointsGood, CheckpointsExact, Runnable, ReplayFails, checkpointVars
<1>4. IndexGood /\ UNCHANGED indexVars => IndexGood'
    BY DEF IndexGood, Runnable, ReplayFails, indexVars
<1> QED
    BY <1>1, <1>2, <1>3, <1>4

LEMMA StepKeepsInv == IInv /\ [Next]_vars => IInv'
<1> SUFFICES ASSUME IInv, [Next]_vars PROVE IInv'
    OBVIOUS
<1> USE DEF IInv
<1>1. CASE StageNext
  <2>1. cursor + 1 \in Boundaries /\ Runnable(cursor + 1)
    BY <1>1 DEF StageNext, CanStage, LiveGood, Runnable, ReplayFails
  <2>2. algorithm' = Prefix(cursor + 1)
    BY <1>1, <2>1, ReplayedPrefix DEF StageNext, CanStage, LiveGood, LiveAtBoundary
  <2>3. LiveGood'
    BY <1>1, <2>1, <2>2
    DEF StageNext, CanStage, LiveGood, LiveAtBoundary, seekVars, Runnable, ReplayFails
  <2> QED
    BY <1>1, <2>3, UnchangedGood DEF StageNext
<1>2. CASE StageNextFails
  <2>1. algorithm' = Prefix(cursor)
    BY <1>2, RestoreExact DEF StageNextFails, LiveGood
  <2>2. LiveGood'
    BY <1>2, <2>1
    DEF StageNextFails, CanStage, LiveGood, LiveAtBoundary, seekVars, Runnable, ReplayFails
  <2> QED
    BY <1>2, <2>2, UnchangedGood DEF StageNextFails
<1>3. CASE CommitStagedNext
  <2>1. cursor + 1 \in Boundaries /\ Runnable(cursor + 1)
    BY <1>3 DEF CommitStagedNext, LiveGood, LiveAtBoundary
  <2>2. algorithm = Prefix(cursor + 1)
    BY <1>3 DEF CommitStagedNext, LiveGood, LiveAtBoundary
  <2>3. CheckpointsGood'
    BY <1>3, <2>1, <2>2, StoreActiveKeepsCheckpoints DEF CommitStagedNext
  <2>4. LiveGood'
    BY <1>3, <2>1, <2>2
    DEF CommitStagedNext, LiveGood, LiveAtBoundary, seekVars, Runnable, ReplayFails
  <2> QED
    BY <1>3, <2>3, <2>4, UnchangedGood DEF CommitStagedNext
<1>4. CASE DiscardStagedNext
  <2>1. algorithm' = Prefix(cursor)
    BY <1>4, RestoreExact DEF DiscardStagedNext, LiveGood
  <2>2. LiveGood'
    BY <1>4, <2>1
    DEF DiscardStagedNext, LiveGood, LiveAtBoundary, seekVars, Runnable, ReplayFails
  <2> QED
    BY <1>4, <2>2, UnchangedGood DEF DiscardStagedNext
<1>5. CASE WorkerSeeks
  <2>1. PICK t \in Boundaries : BeginSeek(t)
    BY <1>5 DEF WorkerSeeks
  <2>2. /\ SeekStart(t).cursor \in 0 .. t
        /\ SeekStart(t).algorithm = Prefix(SeekStart(t).cursor)
        /\ Runnable(SeekStart(t).cursor)
    BY <1>5, SeekStartExact DEF WorkerSeeks, LiveGood, LiveAtBoundary
  <2>3. SeekGood'
    BY <2>1, <2>2, PrefixType DEF BeginSeek, SeekGood, Runnable, ReplayFails
  <2>4. LiveGood'
    BY <1>5, <2>1
    DEF WorkerSeeks, BeginSeek, LiveGood, LiveAtBoundary, liveVars, Runnable, ReplayFails
  <2> QED
    BY <2>1, <2>3, <2>4, UnchangedGood DEF BeginSeek
<1>6. CASE ResumeSeek
  <2> DEFINE from == stagedSeek.cursor
             to == ChunkEnd(from, stagedSeek.target)
             stop == IF ReplayFails(from, to) THEN FirstFailure(from, to) - 1 ELSE to
             instance == Replayed(stagedSeek.algorithm, from, stop)
  <2>1. /\ seekPhase = "replaying"
        /\ stagedSeek' =
                [stagedSeek EXCEPT
                    !.cursor = stop,
                    !.algorithm = IF ReplayFails(from, to) THEN Torn(instance) ELSE instance]
        /\ seekPhase' =
                IF ReplayFails(from, to) \/ (to = stagedSeek.target /\ to \in OversizedFrames)
                THEN "failed"
                ELSE IF to = stagedSeek.target THEN "offered" ELSE "replaying"
    BY <1>6 DEF ResumeSeek
  <2>2. /\ from \in Boundaries /\ to \in Boundaries
        /\ from <= to /\ to <= stagedSeek.target
    BY DEF SeekGood, ChunkEnd
  <2>3. /\ stop \in Boundaries /\ from <= stop /\ stop <= to
        /\ ~ReplayFails(from, to) => stop = to
    <3>1. CASE ReplayFails(from, to)
      BY <2>2, <3>1, FirstFailureIn
    <3>2. CASE ~ReplayFails(from, to)
      BY <2>2, <3>2
    <3> QED
      BY <3>1, <3>2
  <2>4. instance = Prefix(stop)
    BY <2>1, <2>2, <2>3, ReplayedPrefix DEF SeekGood
  <2>5. ~ReplayFails(from, to) => Runnable(to)
    BY <2>1, <2>2, RunnableExtends DEF SeekGood
  <2>6. Prefix(stop) \in Instances /\ Torn(Prefix(stop)) \in Instances
    BY <2>3, PrefixType, TornType
  <2> HIDE DEF from, to, stop, instance
  <2>7. /\ stagedSeek' \in [algorithm : Instances, cursor : Boundaries, target : Boundaries]
        /\ stagedSeek'.cursor = stop /\ stagedSeek'.target = stagedSeek.target
        /\ ~ReplayFails(from, to) => stagedSeek'.algorithm = Prefix(stop)
    BY <2>1, <2>3, <2>4, <2>6 DEF SeekGood
  <2>8. SeekGood'
    <3>1. stagedSeek'.cursor <= stagedSeek'.target
      BY <2>2, <2>3, <2>7 DEF SeekGood
    <3>2. seekPhase' \in {"replaying", "offered"} =>
            /\ stagedSeek'.algorithm = Prefix(stagedSeek'.cursor)
            /\ Runnable(stagedSeek'.cursor)
      BY <2>1, <2>3, <2>5, <2>7
    <3>3. seekPhase' = "offered" => stagedSeek'.cursor = stagedSeek'.target
      BY <2>1, <2>3, <2>7
    <3>4. seekPhase' \in {"replaying", "offered", "failed"}
      BY <2>1
    <3> QED
      BY <2>7, <3>1, <3>2, <3>3, <3>4 DEF SeekGood, Runnable, ReplayFails
  <2>9. LiveGood'
    BY <1>6
    DEF ResumeSeek, LiveGood, LiveAtBoundary, liveVars, Runnable, ReplayFails
  <2> QED
    BY <1>6, <2>8, <2>9, UnchangedGood DEF ResumeSeek
<1>7. CASE WorkerCommitsSeek
  <2> DEFINE c == stagedSeek.cursor
  <2>1. /\ c \in Boundaries /\ Runnable(c)
        /\ stagedSeek.algorithm = Prefix(c)
    BY <1>7 DEF WorkerCommitsSeek, SeekGood
  <2>2. CheckpointsGood'
    BY <1>7, <2>1, StoreActiveKeepsCheckpoints DEF WorkerCommitsSeek, CommitStagedSeek
  <2>3. LiveGood'
    BY <1>7, <2>1
    DEF WorkerCommitsSeek, CommitStagedSeek, LiveGood, LiveAtBoundary, Runnable, ReplayFails
  <2>4. SeekGood'
    BY <1>7, PrefixType DEF WorkerCommitsSeek, CommitStagedSeek, SeekGood, NoSeek
  <2> QED
    BY <1>7, <2>2, <2>3, <2>4, UnchangedGood DEF WorkerCommitsSeek, CommitStagedSeek
<1>8. CASE DiscardStagedSeek
  <2>1. LiveGood'
    BY <1>8
    DEF DiscardStagedSeek, LiveGood, LiveAtBoundary, liveVars, Runnable, ReplayFails
  <2>2. SeekGood'
    BY <1>8, PrefixType DEF DiscardStagedSeek, SeekGood, NoSeek
  <2> QED
    BY <1>8, <2>1, <2>2, UnchangedGood DEF DiscardStagedSeek
<1>9. CASE ResumeSeekIndex
  <2> DEFINE to == ChunkEnd(indexCursor, ItemCount)
             instance == Replayed(indexAlgorithm, indexCursor, to)
  <2>1. /\ indexCursor \in Boundaries /\ to \in Boundaries /\ indexCursor <= to
    BY DEF IndexGood, ChunkEnd
  <2>2. CASE ReplayFails(indexCursor, to)
    <3> DEFINE f == FirstFailure(indexCursor, to)
    <3>1. /\ f \in Failing /\ indexCursor < f /\ f <= to
          /\ ~ReplayFails(indexCursor, f - 1)
      BY <2>1, <2>2, FirstFailureIn
    <3>2. f - 1 \in Boundaries
      BY <2>1, <2>2, FirstFailureIn
    <3>3. Runnable(f - 1)
      BY <2>1, <3>1, <3>2, RunnableExtends DEF IndexGood
    <3>4. /\ indexCursor' = f - 1 /\ indexing' = FALSE /\ indexAlgorithm' = Prefix(0)
          /\ UNCHANGED checkpointVars
      BY <1>9, <2>2 DEF ResumeSeekIndex
    <3> HIDE DEF f
    <3>5. Prefix(0) \in Instances
      BY PrefixType
    <3>6. indexCursor' + 1 = f
      BY <3>1, <3>2, <3>4 DEF Boundaries
    <3>7. IndexGood'
      BY <3>1, <3>2, <3>3, <3>4, <3>5, <3>6 DEF IndexGood, Runnable, ReplayFails
    <3> QED
      BY <1>9, <3>4, <3>7, UnchangedGood DEF ResumeSeekIndex, seekVars
  <2>3. CASE ~ReplayFails(indexCursor, to)
    <3>1. Runnable(to)
      BY <2>1, <2>3, RunnableExtends DEF IndexGood
    <3>2. /\ indexing
          /\ indexCursor' = to /\ indexing' = (to # ItemCount)
          /\ indexAlgorithm' = (IF to = ItemCount THEN Prefix(0) ELSE instance)
          /\ StoreActiveCheckpoint(to, instance)
      BY <1>9, <2>3 DEF ResumeSeekIndex
    <3>3. instance = Prefix(to)
      BY <2>1, <3>2, ReplayedPrefix DEF IndexGood
    <3>4. CheckpointsGood'
      BY <2>1, <3>1, <3>2, <3>3, StoreActiveKeepsCheckpoints
    <3>5. Prefix(0) \in Instances /\ Prefix(to) \in Instances
      BY <2>1, PrefixType
    <3> HIDE DEF to, instance
    <3>7. IndexGood'
      BY <2>1, <3>1, <3>2, <3>3, <3>5 DEF IndexGood, Runnable, ReplayFails
    <3> QED
      BY <1>9, <3>4, <3>7, UnchangedGood DEF ResumeSeekIndex, seekVars
  <2> QED
    BY <2>2, <2>3
<1>10. CASE UNCHANGED vars
    BY <1>10, UnchangedGood DEF vars, seekVars
<1> QED
    BY <1>1, <1>2, <1>3, <1>4, <1>5, <1>6, <1>7, <1>8, <1>9, <1>10 DEF Next

LEMMA InvariantHolds == Spec => []IInv
    BY InitEstablishesInv, StepKeepsInv, PTL DEF Spec

\* Every variable keeps its type.
THEOREM TypeCorrect == Spec => []TypeOK
<1>1. IInv => TypeOK
    BY PrefixType DEF IInv, LiveGood, LiveAtBoundary, SeekGood, CheckpointsGood, IndexGood, TypeOK
<1> QED
    BY <1>1, InvariantHolds, PTL

\* The live instance holds exactly the committed items, plus the staged one: a
\* rollback, a failed step or an accepted seek never leaves it elsewhere.
THEOREM LiveStaysAtBoundary == Spec => []LiveAtBoundary
<1>1. IInv => LiveAtBoundary
    BY DEF IInv, LiveGood
<1> QED
    BY <1>1, InvariantHolds, PTL

\* An offered seek candidate holds exactly the items up to its target.
THEOREM CandidateStaysAtTarget == Spec => []CandidateAtTarget
<1>1. IInv => CandidateAtTarget
    BY DEF IInv, SeekGood, CandidateAtTarget
<1> QED
    BY <1>1, InvariantHolds, PTL

\* Every checkpoint restores the boundary it is filed under, one per boundary.
THEOREM CheckpointsStayExact == Spec => []CheckpointsExact
<1>1. IInv => CheckpointsExact
    BY DEF IInv, CheckpointsGood
<1> QED
    BY <1>1, InvariantHolds, PTL

\* The error return of restore_current_boundary is unreachable.
THEOREM RollbackIsTotal == Spec => []RollbackNeverFails
<1>1. IInv => RollbackNeverFails
    BY RestoreExact DEF IInv, LiveGood, RollbackNeverFails
<1> QED
    BY <1>1, InvariantHolds, PTL

\* Checkpoints stay within their byte budget and their count bound.
THEOREM CheckpointsStayInBudget == Spec => []CheckpointBudget
<1>1. IInv => CheckpointBudget
    BY DEF IInv, CheckpointsGood, CheckpointBudget
<1> QED
    BY <1>1, InvariantHolds, PTL

\* The running total of the budget is what the stored checkpoints report.
THEOREM TotalStaysExact == Spec => []CheckpointTotal
<1>1. IInv => CheckpointTotal
    BY DEF IInv, CheckpointsGood, CheckpointTotal, Held
<1> QED
    BY <1>1, InvariantHolds, PTL

\* The background index goes quiet only at the end or in front of a failing item.
THEOREM IndexAlwaysStopsForCause == Spec => []IndexStopsForCause
<1>1. IInv => IndexStopsForCause
    BY DEF IInv, IndexGood, IndexStopsForCause
<1> QED
    BY <1>1, InvariantHolds, PTL

\* A seek starts at the nearest boundary the session can replay from.
THEOREM SeeksReplayShortest == Spec => ShortestReplay
<1> DEFINE Shortest ==
        WorkerSeeks =>
          LET t == stagedSeek'.target
          IN /\ \A p \in UpTo(t) : p.cursor <= stagedSeek'.cursor
             /\ cursor <= t => cursor <= stagedSeek'.cursor
             /\ stagedSeek'.cursor <= t
<1>1. IInv /\ [Next]_vars => [Shortest]_vars
  <2> SUFFICES ASSUME IInv, WorkerSeeks PROVE Shortest
    OBVIOUS
  <2>1. PICK t \in Boundaries : BeginSeek(t)
    BY DEF WorkerSeeks
  <2>2. stagedSeek'.target = t /\ stagedSeek'.cursor = SeekStart(t).cursor
    BY <2>1 DEF BeginSeek
  <2>3. CheckpointsGood /\ cursor \in Boundaries /\ SeekStart(t).cursor \in 0 .. t
    BY SeekStartExact DEF WorkerSeeks, IInv, LiveGood, LiveAtBoundary
  <2>4. \A p \in UpTo(t) : p.cursor \in Nat /\ p.cursor <= t
    BY <2>3 DEF UpTo, CheckpointsGood, Checkpoint
  <2>5. CASE SeekBase(t) # {}
    <3>1. SeekStart(t) \in SeekBase(t)
      BY <2>5 DEF SeekStart
    <3>2. /\ SeekStart(t) = Latest(UpTo(t)) /\ SeekStart(t) \in UpTo(t)
          /\ t < cursor \/ t - SeekStart(t).cursor < t - cursor
      BY <3>1 DEF SeekBase
    <3>3. \A p \in UpTo(t) : p.cursor <= SeekStart(t).cursor
      BY <2>3, <3>2, LatestUpTo
    <3>4. cursor <= t => cursor <= SeekStart(t).cursor
      BY <2>3, <3>2
    <3> QED
      BY <2>2, <2>3, <3>3, <3>4
  <2>6. CASE SeekBase(t) = {} /\ t < cursor
    <3>1. UpTo(t) = {}
      <4> SUFFICES ASSUME UpTo(t) # {} PROVE FALSE
        OBVIOUS
      <4>1. Latest(UpTo(t)) \in UpTo(t)
        BY <2>3, LatestUpTo DEF UpTo
      <4> QED
        BY <2>6, <4>1 DEF SeekBase
    <3> QED
      BY <2>2, <2>3, <2>6, <3>1
  <2>7. CASE SeekBase(t) = {} /\ ~(t < cursor)
    <3>1. SeekStart(t).cursor = cursor
      BY <2>7 DEF SeekStart
    <3>2. ASSUME NEW p \in UpTo(t) PROVE p.cursor <= cursor
      <4>1. /\ Latest(UpTo(t)) \in UpTo(t)
            /\ p.cursor <= Latest(UpTo(t)).cursor
        BY <2>3, <3>2, LatestUpTo DEF UpTo
      <4>2. ~(t - Latest(UpTo(t)).cursor < t - cursor)
        BY <2>7, <4>1 DEF SeekBase
      <4> QED
        BY <2>3, <2>4, <4>1, <4>2
    <3> QED
      BY <2>2, <2>3, <3>1, <3>2
  <2> HIDE DEF Shortest
  <2> QED
    BY <2>5, <2>6, <2>7
<1> QED
    BY <1>1, InvariantHolds, PTL DEF Spec, ShortestReplay

(***************************************************************************)
(* Seeks stay short.  Wherever the evictions have taken a checkpoint, its   *)
(* two neighbours are close, because disjoint gaps between neighbours share *)
(* one timeline and the narrowest was chosen; and below the last boundary   *)
(* the index has stored, two neighbours stand apart for no other reason     *)
(* than an eviction or one interval.                                        *)
(***************************************************************************)

HalfBound == (MaxCheckpoints - 1) \div 2

LEMMA HalfBoundType == HalfBound \in Nat /\ 2 * HalfBound + 1 <= MaxCheckpoints
BY DEF HalfBound

\* Two numbers with something of C between them are at least g apart.
Spread(C, g) == \A a, b \in C : (\E x \in C : a < x /\ x < b) => b - a >= g

\* Some number of C lies g times k above its least number.
Reaches(C, g, k) == \A a \in C : (\A x \in C : a <= x) => \E b \in C : b - a >= g * k

LEMMA ReachesFurther ==
    ASSUME NEW C \in SUBSET Nat, IsFiniteSet(C), NEW g \in Nat, Spread(C, g),
           NEW k \in Nat, k > 0, Cardinality(C) >= 2 * k + 1,
           \A D \in SUBSET C : Cardinality(D) >= 2 * (k - 1) + 1 => Reaches(D, g, k - 1)
    PROVE  Reaches(C, g, k)
<1> SUFFICES ASSUME NEW a \in C, \A x \in C : a <= x
             PROVE  \E b \in C : b - a >= g * k
    BY DEF Reaches
<1> DEFINE C1 == C \ {a}
<1>1. IsFiniteSet(C1) /\ Cardinality(C1) = Cardinality(C) - 1 /\ C1 \in SUBSET Nat
    BY FS_RemoveElement
<1>2. Cardinality(C) \in Nat
    BY FS_CardinalityType
<1>3. C1 # {}
    BY <1>1, <1>2, FS_EmptySet
<1>4. PICK y \in C1 : \A x \in C1 : y <= x
    BY <1>1, <1>3, LeastNatural
<1> DEFINE D == C1 \ {y}
<1>5. IsFiniteSet(D) /\ Cardinality(D) = Cardinality(C1) - 1 /\ D \in SUBSET Nat /\ D \in SUBSET C
    BY <1>1, <1>4, FS_RemoveElement
<1>6. Cardinality(D) >= 2 * (k - 1) + 1
    BY <1>1, <1>2, <1>5
<1>7. D # {}
    BY <1>5, <1>6, FS_EmptySet
<1>8. PICK z \in D : \A x \in D : z <= x
    BY <1>5, <1>7, LeastNatural
<1>9. z \in Nat /\ y \in Nat /\ a < y /\ y < z /\ y \in C /\ z \in C
    BY <1>4, <1>5, <1>8
<1> HIDE DEF C1, D
<1>10. z - a >= g
    BY <1>9 DEF Spread
<1>11. PICK b \in D : b - z >= g * (k - 1)
    BY <1>5, <1>6, <1>8 DEF Reaches
<1>12. b \in C /\ b \in Nat
    BY <1>5, <1>11
<1>13. g * k = g * (k - 1) + g
    OBVIOUS
<1>14. g * (k - 1) \in Nat /\ g * k \in Nat
    OBVIOUS
<1>15. b - a >= g * k
    BY <1>9, <1>10, <1>11, <1>12, <1>13, <1>14
<1> QED
    BY <1>12, <1>15

\* Disjoint pairs of neighbouring gaps share the stretch that C covers.
LEMMA PairsShareTheStretch ==
    ASSUME NEW N \in Nat, NEW C \in SUBSET (0 .. N), IsFiniteSet(C),
           NEW g \in Nat, Spread(C, g),
           NEW k \in Nat, Cardinality(C) >= 2 * k + 1
    PROVE  g * k <= N
<1> DEFINE good == {i \in 0 .. k : \A D \in SUBSET C :
                        Cardinality(D) >= 2 * i + 1 => Reaches(D, g, i)}
<1>1. 0 \in good
  <2>1. \A D \in SUBSET C : Reaches(D, g, 0)
    BY DEF Reaches
  <2> QED
    BY <2>1
<1>2. ASSUME NEW i \in 0 .. k, i > 0, i - 1 \in good PROVE i \in good
  <2> SUFFICES ASSUME NEW D \in SUBSET C, Cardinality(D) >= 2 * i + 1
               PROVE  Reaches(D, g, i)
    BY <1>2
  <2>0. IsFiniteSet(D)
    BY FS_Subset
  <2>1. IsFiniteSet(D) /\ D \in SUBSET Nat /\ Spread(D, g)
    BY <2>0 DEF Spread
  <2>2. \A E \in SUBSET D : Cardinality(E) >= 2 * (i - 1) + 1 => Reaches(E, g, i - 1)
    BY <1>2
  <2> QED
    BY <1>2, <2>1, <2>2, ReachesFurther
<1> HIDE DEF good
<1>3. k \in good
  <2>1. 0 .. k \subseteq good
    BY <1>1, <1>2, UpToInduction
  <2> QED
    BY <2>1
<1>4. Reaches(C, g, k)
    BY <1>3 DEF good
<1>5. C # {} /\ C \in SUBSET Nat
    BY FS_EmptySet
<1>6. PICK a \in C : \A x \in C : a <= x
    BY <1>5, LeastNatural
<1>7. PICK b \in C : b - a >= g * k
    BY <1>4, <1>6 DEF Reaches
<1>8. a \in 0 .. N /\ b \in 0 .. N /\ g * k \in Nat
    OBVIOUS
<1> QED
    BY <1>7, <1>8

\* A distance no replay needs to fear.
Short(d) == d <= Interval \/ d * HalfBound <= ItemCount

LEMMA ShorterIsShort ==
    ASSUME NEW d \in Nat, NEW e \in Nat, e <= d, Short(d)
    PROVE  Short(e)
<1>1. HalfBound \in Nat
    BY HalfBoundType
<1>2. e * HalfBound <= d * HalfBound /\ e * HalfBound \in Nat /\ d * HalfBound \in Nat
    BY <1>1
<1> QED
    BY <1>2 DEF Short

Cursors(S) == {p.cursor : p \in S}

\* As many cursors as checkpoints.
LEMMA CursorsCounted ==
    ASSUME NEW S \in SUBSET Checkpoint, IsFiniteSet(S), Distinct(S)
    PROVE  /\ Cursors(S) \in SUBSET Boundaries /\ IsFiniteSet(Cursors(S))
           /\ Cardinality(Cursors(S)) = Cardinality(S)
<1> DEFINE good == {T \in SUBSET S : /\ IsFiniteSet(Cursors(T))
                                     /\ Cardinality(Cursors(T)) = Cardinality(T)}
<1>1. {} \in good
  <2>1. Cursors({}) = {}
    BY DEF Cursors
  <2> QED
    BY <2>1, FS_EmptySet
<1>2. ASSUME NEW T \in SUBSET S, NEW p \in S \ T, T \in good PROVE T \cup {p} \in good
  <2>1. Cursors(T \cup {p}) = Cursors(T) \cup {p.cursor}
    BY DEF Cursors
  <2>2. p.cursor \notin Cursors(T)
    BY DEF Cursors, Distinct
  <2>3. IsFiniteSet(T)
    BY FS_Subset
  <2>4. Cardinality(T \cup {p}) = Cardinality(T) + 1
    BY <2>3, FS_AddElement
  <2>5. IsFiniteSet(Cursors(T)) /\ Cardinality(Cursors(T)) = Cardinality(T)
    BY <1>2
  <2>6. /\ IsFiniteSet(Cursors(T) \cup {p.cursor})
        /\ Cardinality(Cursors(T) \cup {p.cursor}) = Cardinality(Cursors(T)) + 1
    BY <2>2, <2>5, FS_AddElement
  <2> QED
    BY <2>1, <2>4, <2>5, <2>6
<1> HIDE DEF good
<1>3. S \in good
    BY <1>1, <1>2, SubsetInduction
<1>4. Cursors(S) \in SUBSET Boundaries
    BY DEF Cursors, Checkpoint
<1> QED
    BY <1>3, <1>4 DEF good

\* Where an inner checkpoint stands between its neighbours.
Between(S, a, e, b) ==
    /\ a \in S /\ e \in S /\ b \in S
    /\ a.cursor < e.cursor /\ e.cursor < b.cursor
    /\ \A p \in S : p.cursor <= a.cursor \/ p.cursor >= b.cursor \/ p = e
    /\ Gap(S, e) = b.cursor - a.cursor

LEMMA InnerIsBetween ==
    ASSUME NEW S \in SUBSET Checkpoint, Distinct(S), NEW e \in S,
           NEW lower \in S, lower.cursor < e.cursor,
           NEW upper \in S, e.cursor < upper.cursor
    PROVE  \E a, b \in S : Between(S, a, e, b)
<1> DEFINE above == {q \in S : q.cursor > e.cursor}
           below == {q \in S : q.cursor < e.cursor}
           a == Latest(below)
           b == Earliest(above)
<1>1. \A q \in S : q.cursor \in Nat
    BY DEF Checkpoint
<1>2. above \in SUBSET Checkpoint /\ above # {} /\ below \in SUBSET Checkpoint /\ below # {}
    BY <1>1
<1>3. /\ b \in above /\ \A q \in above : b.cursor <= q.cursor
      /\ a \in below /\ \A q \in below : q.cursor <= a.cursor
    BY <1>2, EarliestIn, LatestIn
<1>4. Gap(S, e) = b.cursor - a.cursor
    BY DEF Gap
<1> HIDE DEF a, b
<1>5. \A p \in S : p.cursor <= a.cursor \/ p.cursor >= b.cursor \/ p = e
    BY <1>1, <1>3 DEF Distinct
<1>6. Between(S, a, e, b)
    BY <1>3, <1>4, <1>5 DEF Between
<1> QED
    BY <1>3, <1>6

\* An eviction takes an inner checkpoint, and leaves its neighbours close.
LEMMA EvictsNarrow ==
    ASSUME NEW S \in SUBSET Checkpoint, IsFiniteSet(S), Distinct(S),
           Cardinality(S) = MaxCheckpoints, MaxCheckpoints >= 3
    PROVE  \E a, b \in S : /\ Between(S, a, CheckpointToEvict(S), b)
                           /\ Short(b.cursor - a.cursor)
<1> DEFINE e == CheckpointToEvict(S)
           first == Earliest(S)
           last == Latest(S)
           inner == S \ {first, last}
<1>1. S # {} /\ \A q \in S : q.cursor \in 0 .. ItemCount
    BY FS_EmptySet DEF Checkpoint
<1>2. e \in inner /\ \A q \in inner : Gap(S, e) <= Gap(S, q)
    BY <1>1, EvictsInner
<1>3. first \in S /\ last \in S /\ \A q \in S : first.cursor <= q.cursor /\ q.cursor <= last.cursor
    BY <1>1, EarliestIn, LatestIn
<1> HIDE DEF first, last, e
<1>4. ASSUME NEW q \in inner PROVE \E a, b \in S : Between(S, a, q, b)
  <2>1. first.cursor < q.cursor /\ q.cursor < last.cursor
    BY <1>1, <1>3 DEF Distinct
  <2> QED
    BY <1>3, <2>1, InnerIsBetween
<1>5. PICK a \in S, b \in S : Between(S, a, e, b)
    BY <1>2, <1>4
<1> DEFINE g == Gap(S, e)
           C == Cursors(S)
<1>6. g = b.cursor - a.cursor /\ g \in Nat
    BY <1>1, <1>5 DEF Between
<1> HIDE DEF g
<1>7. Spread(C, g)
  <2> SUFFICES ASSUME NEW u \in C, NEW v \in C, NEW x \in C, u < x, x < v
               PROVE  v - u >= g
    BY DEF Spread
  <2>1. PICK p \in S, q \in S, r \in S : u = p.cursor /\ v = q.cursor /\ x = r.cursor
    BY DEF Cursors
  <2>2. r # first /\ r # last
    BY <1>1, <1>3, <2>1
  <2>3. r \in inner
    BY <2>2
  <2>4. PICK c \in S, d \in S : Between(S, c, r, d)
    BY <1>4, <2>3
  <2>5. p.cursor <= c.cursor /\ d.cursor <= q.cursor
    BY <1>1, <2>1, <2>4 DEF Between
  <2>6. g <= Gap(S, r) /\ Gap(S, r) = d.cursor - c.cursor
    BY <1>2, <2>3, <2>4 DEF Between, g
  <2> QED
    BY <1>1, <1>6, <2>1, <2>5, <2>6
<1>8. g * HalfBound <= ItemCount
  <2>1. /\ C \in SUBSET (0 .. ItemCount) /\ IsFiniteSet(C)
        /\ Cardinality(C) = MaxCheckpoints
    BY CursorsCounted
  <2>2. HalfBound \in Nat /\ Cardinality(C) >= 2 * HalfBound + 1
    BY <2>1, HalfBoundType
  <2> HIDE DEF C
  <2> QED
    BY <1>6, <1>7, <2>1, <2>2, PairsShareTheStretch
<1>9. Short(b.cursor - a.cursor)
    BY <1>6, <1>8 DEF Short
<1> QED
    BY <1>5, <1>9 DEF e

(***************************************************************************)
(* What a store leaves while bytes never bind.                              *)
(***************************************************************************)

\* The recursion of AfterEvictions at its first two places.
LEMMA FirstEvictions ==
    ASSUME checkpoints \subseteq Checkpoint, IsFiniteSet(checkpoints), Distinct(checkpoints),
           checkpointBytes = Held(checkpoints)
    PROVE  /\ AfterEvictions[0].kept = checkpoints
           /\ Cardinality(checkpoints) >= 1 =>
                  AfterEvictions[1].kept = checkpoints \ {CheckpointToEvict(checkpoints)}
<1>1. Cardinality(checkpoints) \in Nat
    BY FS_CardinalityType
<1>2. \A i \in 0 .. Cardinality(checkpoints) :
        AfterEvictions[i] = IF i = 0 THEN [kept |-> checkpoints, bytes |-> checkpointBytes]
                            ELSE Evict(AfterEvictions[i - 1])
    BY EvictionsRecur
<1>3. AfterEvictions[0] = [kept |-> checkpoints, bytes |-> checkpointBytes]
    BY <1>1, <1>2
<1>4. AfterEvictions[0].kept = checkpoints
    BY <1>3
<1>5. ASSUME Cardinality(checkpoints) >= 1
      PROVE  AfterEvictions[1].kept = checkpoints \ {CheckpointToEvict(checkpoints)}
  <2>1. AfterEvictions[1] = Evict(AfterEvictions[0])
    BY <1>1, <1>2, <1>5
  <2> QED
    BY <1>4, <2>1 DEF Evict
<1> QED
    BY <1>4, <1>5

\* Estimates the session may report add up to at most their share of the budget.
LEMMA HeldShare ==
    ASSUME NEW S, IsFiniteSet(S), \A p \in S : p.bytes \in Sizes,
           \A size \in Sizes : size * MaxCheckpoints <= MaxCheckpointBytes
    PROVE  Held(S) \in Nat /\ Held(S) * MaxCheckpoints <= Cardinality(S) * MaxCheckpointBytes
<1> DEFINE good == {T \in SUBSET S :
               Held(T) * MaxCheckpoints <= Cardinality(T) * MaxCheckpointBytes}
<1>1. \A p \in S : p.bytes \in Nat
    OBVIOUS
<1>2. {} \in good
  <2>1. Held({}) = 0 /\ Cardinality({}) = 0
    BY <1>1, HeldRules, FS_EmptySet
  <2> QED
    BY <2>1
<1>3. ASSUME NEW T \in SUBSET S, NEW p \in S \ T, T \in good PROVE T \cup {p} \in good
  <2>1. IsFiniteSet(T) /\ \A q \in T \cup {p} : q.bytes \in Nat
    BY <1>1, FS_Subset
  <2>2. Held(T \cup {p}) = p.bytes + Held(T) /\ Held(T) \in Nat
    BY <2>1, HeldAdd, HeldIsNatural
  <2>3. Cardinality(T \cup {p}) = Cardinality(T) + 1 /\ Cardinality(T) \in Nat
    BY <2>1, FS_AddElement, FS_CardinalityType
  <2> DEFINE h == Held(T)
             n == Cardinality(T)
             x == p.bytes
  <2>4. h * MaxCheckpoints <= n * MaxCheckpointBytes /\ x * MaxCheckpoints <= MaxCheckpointBytes
        /\ h \in Nat /\ n \in Nat /\ x \in Nat
    BY <1>1, <1>3, <2>2, <2>3
  <2> HIDE DEF h, n, x
  <2>5. (x + h) * MaxCheckpoints <= (n + 1) * MaxCheckpointBytes
    <3>1. (x + h) * MaxCheckpoints = x * MaxCheckpoints + h * MaxCheckpoints
      BY <2>4
    <3>2. (n + 1) * MaxCheckpointBytes = n * MaxCheckpointBytes + MaxCheckpointBytes
      BY <2>4
    <3>3. x * MaxCheckpoints \in Nat /\ h * MaxCheckpoints \in Nat /\ n * MaxCheckpointBytes \in Nat
      BY <2>4
    <3> QED
      BY <2>4, <3>1, <3>2, <3>3
  <2> QED
    BY <2>2, <2>3, <2>5 DEF h, n, x
<1> HIDE DEF good
<1>4. S \in good
    BY <1>2, <1>3, SubsetInduction
<1> QED
    BY <1>1, <1>4, HeldIsNatural DEF good

\* So the count alone decides whether there is room.
LEMMA RoomIsCounted ==
    ASSUME BytesNeverBind, NEW state, IsFiniteSet(state.kept), state.bytes = Held(state.kept),
           \A p \in state.kept : p.bytes \in Sizes, NEW size \in Sizes
    PROVE  HasRoom(state, size) <=> Cardinality(state.kept) < MaxCheckpoints
<1> DEFINE h == Held(state.kept)
           n == Cardinality(state.kept)
           K == MaxCheckpoints
           B == MaxCheckpointBytes
<1>1. h \in Nat /\ h * K <= n * B /\ n \in Nat
    BY HeldShare, FS_CardinalityType DEF BytesNeverBind
<1>2. size \in Nat /\ size * K <= B /\ K \in Nat /\ K > 0 /\ B \in Nat
    BY DEF BytesNeverBind
<1>3. HasRoom(state, size) <=> n < K /\ h + size <= B
    BY DEF HasRoom
<1> HIDE DEF h, n, K, B
<1>4. ASSUME n < K PROVE h + size <= B
  <2>1. n + 1 <= K
    BY <1>1, <1>2, <1>4
  <2>2. (n + 1) * B <= K * B
    BY <1>1, <1>2, <2>1
  <2>3. (h + size) * K = h * K + size * K /\ (n + 1) * B = n * B + B
    BY <1>1, <1>2
  <2>4. h * K \in Nat /\ size * K \in Nat /\ n * B \in Nat /\ K * B \in Nat
    BY <1>1, <1>2
  <2>5. (h + size) * K <= K * B
    BY <1>1, <1>2, <2>2, <2>3, <2>4
  <2>6. SUFFICES ASSUME h + size >= B + 1 PROVE FALSE
    BY <1>1, <1>2
  <2>7. (h + size) * K >= (B + 1) * K
    BY <1>1, <1>2, <2>6
  <2>8. (B + 1) * K = K * B + K
    BY <1>2
  <2> QED
    BY <1>1, <1>2, <2>3, <2>4, <2>5, <2>7, <2>8
<1> QED
    BY <1>3, <1>4 DEF n, K

\* One checkpoint more, or one more for an inner one.
LEMMA StoreOutcome ==
    ASSUME BytesNeverBind, CheckpointsGood, \A p \in checkpoints : p.bytes \in Sizes,
           NEW c, NEW h, StoreCheckpoint(c, h)
    PROVE  \/ checkpoints' = checkpoints /\ \E p \in checkpoints : p.cursor = c
           \/ \E new : \E rest \in SUBSET checkpoints :
                  /\ new.cursor = c /\ new.bytes \in Sizes
                  /\ checkpoints' = rest \cup {new}
                  /\ \A p \in checkpoints : p.cursor # c
                  /\ \/ rest = checkpoints
                     \/ /\ rest = checkpoints \ {CheckpointToEvict(checkpoints)}
                        /\ Cardinality(checkpoints) = MaxCheckpoints
<1>1. /\ checkpoints \subseteq Checkpoint /\ IsFiniteSet(checkpoints) /\ Distinct(checkpoints)
      /\ checkpointBytes = Held(checkpoints) /\ Cardinality(checkpoints) <= MaxCheckpoints
    BY DEF CheckpointsGood, CheckpointsExact, Distinct
<1> DEFINE N == Cardinality(checkpoints)
<1>2. N \in Nat
    BY <1>1, FS_CardinalityType
<1>3. PICK size \in Sizes :
        IF \/ \E p \in checkpoints : p.cursor = c
           \/ size > MaxCheckpointBytes
           \/ MaxCheckpoints = 0
        THEN UNCHANGED checkpointVars
        ELSE \E n \in 0 .. N :
                LET left == AfterEvictions[n]
                    new == [cursor |-> c, bytes |-> size, algorithm |-> h]
                IN /\ HasRoom(left, size) \/ n = N
                   /\ \A m \in 0 .. n - 1 : ~HasRoom(AfterEvictions[m], size)
                   /\ IF HasRoom(left, size)
                      THEN checkpoints' = left.kept \cup {new} /\ checkpointBytes' = left.bytes + size
                      ELSE checkpoints' = left.kept /\ checkpointBytes' = left.bytes
    BY DEF StoreCheckpoint
<1>4. ~(size > MaxCheckpointBytes) /\ MaxCheckpoints # 0
  <2>1. size * MaxCheckpoints <= MaxCheckpointBytes /\ size \in Nat /\ MaxCheckpoints >= 3
    BY DEF BytesNeverBind
  <2>2. size * MaxCheckpoints >= size
    BY <2>1
  <2>3. size * MaxCheckpoints \in Nat
    BY <2>1
  <2> QED
    BY <2>1, <2>2, <2>3
<1>5. CASE \E p \in checkpoints : p.cursor = c
    BY <1>3, <1>5 DEF checkpointVars
<1>6. CASE ~\E p \in checkpoints : p.cursor = c
  <2> DEFINE new == [cursor |-> c, bytes |-> size, algorithm |-> h]
             left(n) == AfterEvictions[n]
  <2>1. PICK n \in 0 .. N :
          /\ HasRoom(left(n), size) \/ n = N
          /\ \A m \in 0 .. n - 1 : ~HasRoom(left(m), size)
          /\ HasRoom(left(n), size) => checkpoints' = left(n).kept \cup {new}
    BY <1>3, <1>4, <1>6
  <2>2. \A m \in 0 .. N : HasRoom(left(m), size) <=> N - m < MaxCheckpoints
    <3> TAKE m \in 0 .. N
    <3>1. Leaves(left(m), checkpoints, m)
      BY <1>1, EvictionsLeave
    <3> DEFINE l == left(m)
    <3>2. l.kept \subseteq checkpoints /\ Cardinality(l.kept) = N - m /\ l.bytes = Held(l.kept)
      BY <3>1 DEF Leaves
    <3> HIDE DEF l, N
    <3>3. IsFiniteSet(l.kept) /\ \A p \in l.kept : p.bytes \in Sizes
      BY <1>1, <3>2, FS_Subset
    <3>4. HasRoom(l, size) <=> Cardinality(l.kept) < MaxCheckpoints
      BY <3>2, <3>3, RoomIsCounted
    <3> QED
      BY <3>2, <3>4 DEF l
  <2>3. left(0).kept = checkpoints
        /\ (N >= 1 => left(1).kept = checkpoints \ {CheckpointToEvict(checkpoints)})
    BY <1>1, FirstEvictions
  <2> HIDE DEF left, new
  <2>4. CASE N < MaxCheckpoints
    <3>1. n = 0
      BY <1>2, <2>1, <2>2, <2>4
    <3>2. checkpoints' = checkpoints \cup {new}
      BY <1>2, <2>1, <2>2, <2>3, <2>4, <3>1
    <3>3. new.cursor = c /\ new.bytes \in Sizes
      BY DEF new
    <3> QED
      BY <1>6, <3>2, <3>3
  <2>5. CASE N = MaxCheckpoints
    <3>1. N >= 3
      BY <2>5 DEF BytesNeverBind
    <3>2. n = 1
      BY <1>2, <2>1, <2>2, <2>5, <3>1
    <3>3. checkpoints' = (checkpoints \ {CheckpointToEvict(checkpoints)}) \cup {new}
      BY <1>2, <2>1, <2>2, <2>3, <2>5, <3>1, <3>2
    <3>4. new.cursor = c /\ new.bytes \in Sizes
      BY DEF new
    <3> QED
      BY <1>6, <2>5, <3>3, <3>4
  <2> QED
    BY <1>1, <1>2, <2>4, <2>5, SMTT(30)
<1> QED
    BY <1>5, <1>6

(***************************************************************************)
(* The coverage of the index, kept by every step.                           *)
(***************************************************************************)

\* Below F every checkpoint has another one close above it.
Covered(S, F) ==
    \A p \in S : p.cursor < F =>
        \E q \in S : q.cursor > p.cursor /\ Short(q.cursor - p.cursor)

LEMMA EvictionKeepsCover ==
    ASSUME NEW S \in SUBSET Checkpoint, NEW a \in S, NEW e \in S, NEW b \in S,
           Between(S, a, e, b), Short(b.cursor - a.cursor),
           NEW F \in Boundaries, Covered(S, F)
    PROVE  Covered(S \ {e}, F)
<1> SUFFICES ASSUME NEW p \in S \ {e}, p.cursor < F
             PROVE  \E q \in S \ {e} : q.cursor > p.cursor /\ Short(q.cursor - p.cursor)
    BY DEF Covered
<1>1. PICK q \in S : q.cursor > p.cursor /\ Short(q.cursor - p.cursor)
    BY DEF Covered
<1>2. \A x \in S : x.cursor \in Nat
    BY DEF Checkpoint
<1>3. a # e /\ b # e /\ a.cursor < b.cursor
    BY <1>2 DEF Between
<1>4. CASE q # e
    BY <1>1, <1>4
<1>5. CASE q = e /\ p.cursor = a.cursor
    BY <1>3, <1>5
<1>6. CASE q = e /\ p.cursor # a.cursor
  <2>1. p.cursor < a.cursor /\ a.cursor < e.cursor
    BY <1>1, <1>2, <1>6 DEF Between
  <2>2. /\ a.cursor - p.cursor \in Nat /\ e.cursor - p.cursor \in Nat
        /\ a.cursor - p.cursor <= e.cursor - p.cursor
    BY <1>2, <2>1
  <2>3. Short(a.cursor - p.cursor)
    BY <1>1, <1>6, <2>2, ShorterIsShort
  <2> QED
    BY <1>2, <1>3, <2>1, <2>3
<1> QED
    BY <1>4, <1>5, <1>6

LEMMA StoreKeepsCover ==
    ASSUME NEW R \in SUBSET Checkpoint, NEW new \in Checkpoint,
           \A p \in R : p.cursor # new.cursor, \E p \in R : p.cursor = 0,
           NEW F \in Boundaries, Covered(R, F)
    PROVE  Covered(R \cup {new}, F)
<1> SUFFICES ASSUME NEW p \in R \cup {new}, p.cursor < F
             PROVE  \E q \in R \cup {new} : q.cursor > p.cursor /\ Short(q.cursor - p.cursor)
    BY DEF Covered
<1>1. \A x \in R \cup {new} : x.cursor \in Nat
    BY DEF Checkpoint
<1>2. CASE p \in R
    BY <1>2 DEF Covered
<1>3. CASE p = new
  <2> DEFINE below == {x \in R : x.cursor < new.cursor}
             a == Latest(below)
  <2>1. below \in SUBSET Checkpoint /\ below # {}
    BY <1>1
  <2>2. a \in below /\ \A x \in below : x.cursor <= a.cursor
    BY <2>1, LatestIn
  <2>3. a \in R /\ a.cursor < new.cursor
    BY <2>2
  <2>4. a.cursor < F
    BY <1>1, <1>3, <2>3
  <2>5. PICK q \in R : q.cursor > a.cursor /\ Short(q.cursor - a.cursor)
    BY <2>3, <2>4 DEF Covered
  <2>6. q.cursor > new.cursor
    BY <1>1, <2>2, <2>5
  <2> HIDE DEF a, below
  <2>7. /\ q.cursor - new.cursor \in Nat /\ q.cursor - a.cursor \in Nat
        /\ q.cursor - new.cursor <= q.cursor - a.cursor
    BY <1>1, <2>3, <2>5, <2>6
  <2>8. Short(q.cursor - new.cursor)
    BY <2>5, <2>7, ShorterIsShort
  <2> QED
    BY <1>3, <2>6, <2>8
<1> QED
    BY <1>2, <1>3

\* A boundary the session files checkpoints under.
Filed(c) == c % Interval = 0 \/ c = ItemCount

CoverAdvances(F, G) ==
    \A S \in SUBSET Checkpoint :
        /\ Covered(S, F)
        /\ \A p \in S : Filed(p.cursor)
        /\ \E p \in S : p.cursor = G
        => Covered(S, G)

LEMMA Multiples ==
    ASSUME NEW d \in Nat \ {0}
    PROVE  /\ 0 % d = 0
           /\ \A a \in Nat : a % d = 0 => (a + d) % d = 0
           /\ \A a, b \in Nat : a % d = 0 /\ b % d = 0 /\ a <= b /\ b < a + d => a = b
<1>1. \A q, r \in Nat : d * q <= d * r /\ d * r < d * q + d => q = r
  <2> TAKE q, r \in Nat
  <2> HAVE d * q <= d * r /\ d * r < d * q + d
  <2>1. CASE r >= q + 1
    <3>1. d * r >= d * (q + 1)
      BY <2>1
    <3>2. d * (q + 1) = d * q + d
      OBVIOUS
    <3> QED
      BY <3>1, <3>2
  <2>2. CASE q >= r + 1
    <3>1. d * q >= d * (r + 1)
      BY <2>2
    <3>2. d * (r + 1) = d * r + d
      OBVIOUS
    <3> QED
      BY <3>1, <3>2
  <2> QED
    BY <2>1, <2>2
<1>2. \A a \in Nat : a % d = 0 => \E q \in Nat : a = d * q
  <2> TAKE a \in Nat
  <2> DEFINE q == a \div d
  <2>1. a = d * q + (a % d) /\ q \in Nat
    OBVIOUS
  <2> HIDE DEF q
  <2> HAVE a % d = 0
  <2>2. d * q \in Nat
    BY <2>1
  <2>3. a = d * q
    BY <2>1, <2>2
  <2> QED
    BY <2>1, <2>3
<1>3. \A q \in Nat : (d * q) % d = 0
  OBVIOUS
<1>4. 0 % d = 0
  OBVIOUS
<1>5. ASSUME NEW a \in Nat, a % d = 0 PROVE (a + d) % d = 0
  <2>1. PICK q \in Nat : a = d * q
    BY <1>2, <1>5
  <2>2. a + d = d * (q + 1) /\ q + 1 \in Nat
    BY <2>1
  <2> QED
    BY <1>3, <2>2
<1>6. ASSUME NEW a \in Nat, NEW b \in Nat, a % d = 0, b % d = 0, a <= b, b < a + d
      PROVE  a = b
  <2>1. PICK q \in Nat : a = d * q
    BY <1>2, <1>6
  <2>2. PICK r \in Nat : b = d * r
    BY <1>2, <1>6
  <2>3. q = r
    BY <1>1, <1>6, <2>1, <2>2
  <2> QED
    BY <2>1, <2>2, <2>3
<1> QED
  BY <1>4, <1>5, <1>6

\* A whole number of chunks short of an interval is a whole chunk short of it.
LEMMA ChunksFit ==
    ASSUME NEW x \in Nat, x % Chunk = 0, x < Interval
    PROVE  x + Chunk <= Interval
<1>1. CASE Interval < x + Chunk
  <2>0. Chunk \in Nat \ {0} /\ Interval \in Nat /\ Interval % Chunk = 0
    OBVIOUS
  <2>1. \A a, b \in Nat : a % Chunk = 0 /\ b % Chunk = 0 /\ a <= b /\ b < a + Chunk
            => a = b
    BY <2>0, Multiples
  <2>2. x <= Interval
    BY <2>0
  <2>3. x = Interval
    BY <1>1, <2>0, <2>1, <2>2
  <2> QED
    BY <2>0, <2>3
<1> QED
  BY <1>1

LEMMA CoverReachesNext ==
    ASSUME NEW F \in Boundaries, NEW G \in Boundaries, F % Interval = 0,
           F <= G, G <= F + Interval
    PROVE  CoverAdvances(F, G)
<1> SUFFICES ASSUME NEW S \in SUBSET Checkpoint, Covered(S, F),
                    \A p \in S : Filed(p.cursor), \E p \in S : p.cursor = G,
                    NEW p \in S, p.cursor < G
             PROVE  \E q \in S : q.cursor > p.cursor /\ Short(q.cursor - p.cursor)
    BY DEF Covered, CoverAdvances
<1>1. p.cursor \in Nat
    BY DEF Checkpoint
<1>2. CASE p.cursor < F
    BY <1>2 DEF Covered
<1>3. CASE ~(p.cursor < F)
  <2>1. p.cursor % Interval = 0
    BY <1>1 DEF Filed
  <2>2. p.cursor = F
    <3>1. F <= p.cursor /\ p.cursor < F + Interval
      BY <1>1, <1>3
    <3> QED
      BY <1>1, <2>1, <3>1, Multiples
  <2>3. PICK q \in S : q.cursor = G
    OBVIOUS
  <2>4. q.cursor > p.cursor /\ q.cursor - p.cursor <= Interval
    BY <1>1, <2>2, <2>3
  <2> QED
    BY <2>4 DEF Short
<1> QED
    BY <1>2, <1>3

\* The boundaries the index has laid checkpoints under reach up to F, and the
\* index itself is not an interval further.
IndexedUpTo(F) ==
    /\ F \in Boundaries /\ F <= indexCursor
    /\ Covered(checkpoints, F)
    /\ \/ F = ItemCount
       \/ /\ F % Interval = 0
          /\ indexCursor < F + Interval
          /\ indexing => (indexCursor - F) % Chunk = 0

SpacedInv ==
    /\ \A p \in checkpoints : p.bytes \in Sizes /\ Filed(p.cursor)
    /\ \E p \in checkpoints : p.cursor = 0
    /\ ~indexing /\ indexCursor = ItemCount => \E p \in checkpoints : p.cursor = ItemCount
    /\ \E F \in Boundaries : IndexedUpTo(F)

\* Any store keeps what is covered, and both ends.
LEMMA StoreKeepsSpacing ==
    ASSUME BytesNeverBind, CheckpointsGood, CheckpointsGood', SpacedInv,
           NEW c \in Boundaries, Filed(c), NEW h, StoreCheckpoint(c, h)
    PROVE  /\ \A p \in checkpoints' : p.bytes \in Sizes /\ Filed(p.cursor)
           /\ \E p \in checkpoints' : p.cursor = c
           /\ \A p \in checkpoints : p.cursor \in {0, ItemCount} =>
                  \E q \in checkpoints' : q.cursor = p.cursor
           /\ \A F \in Boundaries : Covered(checkpoints, F) => Covered(checkpoints', F)
<1>1. \A p \in checkpoints : p.bytes \in Sizes /\ Filed(p.cursor)
    BY DEF SpacedInv
<1>2. /\ checkpoints \in SUBSET Checkpoint /\ IsFiniteSet(checkpoints) /\ Distinct(checkpoints)
      /\ checkpoints' \in SUBSET Checkpoint
    BY DEF CheckpointsGood, CheckpointsExact, Distinct
<1>3. CASE checkpoints' = checkpoints /\ \E p \in checkpoints : p.cursor = c
    BY <1>1, <1>3
<1>4. ASSUME NEW new, NEW rest \in SUBSET checkpoints,
             new.cursor = c, new.bytes \in Sizes, checkpoints' = rest \cup {new},
             \A p \in checkpoints : p.cursor # c,
             \A p \in checkpoints : p.cursor \in {0, ItemCount} => p \in rest,
             \A F \in Boundaries : Covered(checkpoints, F) => Covered(rest, F)
      PROVE  /\ \A p \in checkpoints' : p.bytes \in Sizes /\ Filed(p.cursor)
             /\ \E p \in checkpoints' : p.cursor = c
             /\ \A p \in checkpoints : p.cursor \in {0, ItemCount} =>
                    \E q \in checkpoints' : q.cursor = p.cursor
             /\ \A F \in Boundaries : Covered(checkpoints, F) => Covered(checkpoints', F)
  <2>1. new \in Checkpoint /\ rest \in SUBSET Checkpoint /\ \A p \in rest : p.cursor # new.cursor
    BY <1>2, <1>4
  <2>2. \E p \in rest : p.cursor = 0
    BY <1>4 DEF SpacedInv
  <2>3. ASSUME NEW F \in Boundaries, Covered(checkpoints, F) PROVE Covered(checkpoints', F)
    <3>1. Covered(rest, F)
      BY <1>4, <2>3
    <3>2. Covered(rest \cup {new}, F)
      BY <2>1, <2>2, <3>1, StoreKeepsCover
    <3> QED
      BY <1>4, <3>2
  <2>4. \A p \in checkpoints' : p.bytes \in Sizes /\ Filed(p.cursor)
    BY <1>1, <1>4
  <2>5. \A p \in checkpoints : p.cursor \in {0, ItemCount} =>
            \E q \in checkpoints' : q.cursor = p.cursor
    BY <1>4
  <2> QED
    BY <1>4, <2>3, <2>4, <2>5
<1>5. CASE \E new : \E rest \in SUBSET checkpoints :
                  /\ new.cursor = c /\ new.bytes \in Sizes
                  /\ checkpoints' = rest \cup {new}
                  /\ \A p \in checkpoints : p.cursor # c
                  /\ \/ rest = checkpoints
                     \/ /\ rest = checkpoints \ {CheckpointToEvict(checkpoints)}
                        /\ Cardinality(checkpoints) = MaxCheckpoints
  <2>0. PICK new : \E rest \in SUBSET checkpoints :
                  /\ new.cursor = c /\ new.bytes \in Sizes
                  /\ checkpoints' = rest \cup {new}
                  /\ \A p \in checkpoints : p.cursor # c
                  /\ \/ rest = checkpoints
                     \/ /\ rest = checkpoints \ {CheckpointToEvict(checkpoints)}
                        /\ Cardinality(checkpoints) = MaxCheckpoints
    BY <1>5
  <2>1. PICK rest \in SUBSET checkpoints :
                  /\ new.cursor = c /\ new.bytes \in Sizes
                  /\ checkpoints' = rest \cup {new}
                  /\ \A p \in checkpoints : p.cursor # c
                  /\ \/ rest = checkpoints
                     \/ /\ rest = checkpoints \ {CheckpointToEvict(checkpoints)}
                        /\ Cardinality(checkpoints) = MaxCheckpoints
    BY <2>0
  <2>2. CASE rest = checkpoints
    BY <1>4, <2>1, <2>2
  <2>3. CASE /\ rest = checkpoints \ {CheckpointToEvict(checkpoints)}
             /\ Cardinality(checkpoints) = MaxCheckpoints
    <3> DEFINE e == CheckpointToEvict(checkpoints)
    <3>1. PICK a \in checkpoints, b \in checkpoints :
              Between(checkpoints, a, e, b) /\ Short(b.cursor - a.cursor)
      BY <1>2, <2>3, EvictsNarrow DEF BytesNeverBind
    <3> HIDE DEF e
    <3>2. e \in checkpoints /\ e.cursor # 0 /\ e.cursor # ItemCount
      BY <1>2, <3>1 DEF Between, Checkpoint
    <3>3. \A p \in checkpoints : p.cursor \in {0, ItemCount} => p \in rest
      BY <2>3, <3>2 DEF e
    <3>4. \A F \in Boundaries : Covered(checkpoints, F) => Covered(checkpoints \ {e}, F)
      BY <1>2, <3>1, <3>2, EvictionKeepsCover
    <3>5. \A F \in Boundaries : Covered(checkpoints, F) => Covered(rest, F)
      BY <2>3, <3>4 DEF e
    <3> QED
      BY <1>4, <2>1, <3>3, <3>5
  <2> QED
    BY <2>1, <2>2, <2>3
<1> QED
    BY <1>1, <1>3, <1>5, StoreOutcome

LEMMA InitSpaced == BytesNeverBind /\ Init => SpacedInv
<1> SUFFICES ASSUME BytesNeverBind, Init PROVE SpacedInv
    OBVIOUS
<1>1. PICK size \in Sizes :
        IF size <= MaxCheckpointBytes
        THEN /\ checkpoints = {[cursor |-> 0, bytes |-> size, algorithm |-> Prefix(0)]}
             /\ checkpointBytes = size
        ELSE checkpoints = {} /\ checkpointBytes = 0
    BY DEF Init
<1>2. size <= MaxCheckpointBytes
  <2>1. size * MaxCheckpoints <= MaxCheckpointBytes /\ size \in Nat /\ MaxCheckpoints >= 3
    BY DEF BytesNeverBind
  <2>2. size * MaxCheckpoints >= size /\ size * MaxCheckpoints \in Nat
    BY <2>1
  <2> QED
    BY <2>1, <2>2
<1> DEFINE first == [cursor |-> 0, bytes |-> size, algorithm |-> Prefix(0)]
<1>3. checkpoints = {first} /\ first.cursor = 0 /\ first.bytes = size
    BY <1>1, <1>2
<1> HIDE DEF first
<1>4. 0 % Interval = 0 /\ 0 % Chunk = 0
    BY Multiples
<1>5. indexing /\ indexCursor = 0
    BY DEF Init
<1>6. IndexedUpTo(0)
    BY <1>3, <1>4, <1>5 DEF IndexedUpTo, Covered
<1> QED
    BY <1>3, <1>4, <1>5, <1>6 DEF SpacedInv, Filed

\* The variables the invariant looks at.
spacing == <<checkpoints, indexing, indexCursor>>

LEMMA UnchangedSpaced == SpacedInv /\ UNCHANGED spacing => SpacedInv'
BY DEF SpacedInv, IndexedUpTo, Covered, spacing

LEMMA StoredElsewhere ==
    ASSUME BytesNeverBind, CheckpointsGood, CheckpointsGood', SpacedInv,
           NEW c \in Boundaries, NEW h, StoreActiveCheckpoint(c, h),
           UNCHANGED <<indexing, indexCursor>>
    PROVE  SpacedInv'
<1>1. CASE UNCHANGED checkpointVars
    BY <1>1, UnchangedSpaced DEF checkpointVars, spacing
<1>2. CASE Filed(c) /\ StoreCheckpoint(c, h)
  <2>1. /\ \A p \in checkpoints' : p.bytes \in Sizes /\ Filed(p.cursor)
        /\ \A p \in checkpoints : p.cursor \in {0, ItemCount} =>
               \E q \in checkpoints' : q.cursor = p.cursor
        /\ \A F \in Boundaries : Covered(checkpoints, F) => Covered(checkpoints', F)
    BY <1>2, StoreKeepsSpacing
  <2>2. PICK F \in Boundaries : IndexedUpTo(F)
    BY DEF SpacedInv
  <2>3. IndexedUpTo(F)'
    BY <2>1, <2>2 DEF IndexedUpTo, Covered
  <2> QED
    BY <2>1, <2>3 DEF SpacedInv, Filed
<1> QED
    BY <1>1, <1>2 DEF StoreActiveCheckpoint, Filed

LEMMA IndexKeepsSpacing ==
    ASSUME BytesNeverBind, IInv, IInv', SpacedInv, ResumeSeekIndex
    PROVE  SpacedInv'
<1> DEFINE x == indexCursor
           to == ChunkEnd(indexCursor, ItemCount)
<1>1. indexing /\ x \in Boundaries /\ CheckpointsGood /\ CheckpointsGood'
    BY DEF ResumeSeekIndex, IInv, IndexGood
<1>2. to \in Boundaries /\ x <= to /\ to <= x + Chunk /\ (to = x + Chunk \/ to = ItemCount)
    BY <1>1 DEF ChunkEnd
<1>3. PICK F \in Boundaries : IndexedUpTo(F)
    BY DEF SpacedInv
<1>4. F <= x /\ Covered(checkpoints, F)
    BY <1>3 DEF IndexedUpTo
<1>5. F # ItemCount => /\ F % Interval = 0 /\ x < F + Interval
                       /\ (x - F) % Chunk = 0 /\ x + Chunk <= F + Interval
  <2> SUFFICES ASSUME F # ItemCount
               PROVE  /\ F % Interval = 0 /\ x < F + Interval
                      /\ (x - F) % Chunk = 0 /\ x + Chunk <= F + Interval
    OBVIOUS
  <2>1. F % Interval = 0 /\ x < F + Interval /\ (x - F) % Chunk = 0
    BY <1>1, <1>3 DEF IndexedUpTo
  <2>2. x - F \in Nat /\ x - F < Interval
    BY <1>1, <1>4, <2>1
  <2>3. (x - F) + Chunk <= Interval
    BY <2>1, <2>2, ChunksFit
  <2> QED
    BY <1>1, <2>1, <2>3
<1>6. CASE ReplayFails(x, to)
  <2> DEFINE f == FirstFailure(x, to)
  <2>0. f \in Failing /\ f - 1 \in x .. to /\ f - 1 \in Boundaries /\ x < f /\ f <= to
    <3> HIDE DEF x, to
    <3> QED
      BY <1>1, <1>2, <1>6, FirstFailureIn
  <2>1. f - 1 \in x .. to /\ f - 1 \in Boundaries /\ x < f /\ f <= to /\ f \in Nat
    <3> HIDE DEF x, to, f
    <3> QED
      BY <2>0
  <2>2. /\ indexCursor' = f - 1 /\ indexing' = FALSE /\ UNCHANGED checkpointVars
    BY <1>6 DEF ResumeSeekIndex
  <2> HIDE DEF f
  <2>3. F # ItemCount
    BY <1>1, <1>2, <1>4, <2>1
  <2>4. indexCursor' < F + Interval /\ F <= indexCursor' /\ indexCursor' # ItemCount
    BY <1>1, <1>2, <1>4, <1>5, <2>1, <2>2, <2>3
  <2>5. IndexedUpTo(F)'
    BY <1>4, <1>5, <2>2, <2>3, <2>4 DEF IndexedUpTo, Covered, checkpointVars
  <2> QED
    BY <2>2, <2>4, <2>5 DEF SpacedInv, Filed, checkpointVars
<1>7. CASE ~ReplayFails(x, to)
  <2> DEFINE instance == Replayed(indexAlgorithm, x, to)
  <2>1. indexCursor' = to /\ indexing' = (to # ItemCount) /\ StoreActiveCheckpoint(to, instance)
    BY <1>7 DEF ResumeSeekIndex
  <2> HIDE DEF instance, to
  <2>2. CASE Filed(to)
    <3>1. StoreCheckpoint(to, instance)
      BY <2>1, <2>2 DEF StoreActiveCheckpoint, Filed
    <3>2. /\ \A p \in checkpoints' : p.bytes \in Sizes /\ Filed(p.cursor)
          /\ \E p \in checkpoints' : p.cursor = to
          /\ \A p \in checkpoints : p.cursor \in {0, ItemCount} =>
                 \E q \in checkpoints' : q.cursor = p.cursor
          /\ \A E \in Boundaries : Covered(checkpoints, E) => Covered(checkpoints', E)
      BY <1>1, <1>2, <2>2, <3>1, StoreKeepsSpacing
    <3>3. Covered(checkpoints', F) /\ checkpoints' \in SUBSET Checkpoint
      BY <1>1, <1>4, <3>2 DEF CheckpointsGood
    <3>4. Covered(checkpoints', to)
      <4>1. CASE F = ItemCount
        <5>1. to = F
          BY <1>1, <1>2, <1>4, <4>1
        <5> QED
          BY <3>3, <5>1
      <4>2. CASE F # ItemCount
        <5>1. F <= to /\ to <= F + Interval /\ F % Interval = 0
          BY <1>1, <1>2, <1>4, <1>5, <4>2
        <5>2. CoverAdvances(F, to)
          BY <1>2, <5>1, CoverReachesNext
        <5> QED
          BY <3>2, <3>3, <5>2 DEF CoverAdvances
      <4> QED
        BY <4>1, <4>2
    <3>5. to # ItemCount => to % Interval = 0 /\ to < to + Interval /\ (to - to) % Chunk = 0
      <4>1. 0 % Chunk = 0 /\ to - to = 0 /\ to < to + Interval
        BY <1>2, Multiples
      <4> QED
        BY <2>2, <4>1 DEF Filed
    <3> PICK G \in Boundaries : G = to
      BY <1>2
    <3>6. IndexedUpTo(G)'
      BY <1>2, <2>1, <3>4, <3>5 DEF IndexedUpTo, Covered
    <3>7. /\ \E p \in checkpoints' : p.cursor = 0
          /\ ~indexing' /\ indexCursor' = ItemCount => \E p \in checkpoints' : p.cursor = ItemCount
      BY <2>1, <3>2 DEF SpacedInv
    <3> QED
      BY <1>2, <3>2, <3>6, <3>7 DEF SpacedInv, Filed
  <2>3. CASE ~Filed(to)
    <3>1. UNCHANGED checkpointVars
      BY <2>1, <2>3 DEF StoreActiveCheckpoint, Filed
    <3>2. to = x + Chunk /\ to # ItemCount /\ F # ItemCount
      BY <1>1, <1>2, <1>4, <2>3 DEF Filed
    <3>3. to # F + Interval
      <4>1. (F + Interval) % Interval = 0
        BY <1>5, <3>2, Multiples
      <4> QED
        BY <2>3, <4>1 DEF Filed
    <3>4. to < F + Interval /\ F <= to
      BY <1>1, <1>2, <1>4, <1>5, <3>2, <3>3
    <3>5. (to - F) % Chunk = 0
      <4> DEFINE d == x - F
      <4>1. d \in Nat /\ d % Chunk = 0 /\ to - F = d + Chunk
        BY <1>1, <1>4, <1>5, <3>2
      <4> HIDE DEF d
      <4>2. (d + Chunk) % Chunk = 0
        BY <4>1, Multiples
      <4> QED
        BY <4>1, <4>2
    <3>6. IndexedUpTo(F)'
      BY <1>4, <1>5, <2>1, <3>1, <3>2, <3>4, <3>5 DEF IndexedUpTo, Covered, checkpointVars
    <3> QED
      BY <2>1, <3>1, <3>2, <3>6 DEF SpacedInv, Filed, checkpointVars
  <2> QED
    BY <2>2, <2>3
<1> QED
    BY <1>6, <1>7

LEMMA StepSpaced ==
    ASSUME BytesNeverBind, IInv, IInv', SpacedInv, [Next]_vars
    PROVE  SpacedInv'
<1>1. CheckpointsGood /\ CheckpointsGood' /\ cursor \in Boundaries /\ stagedSeek.cursor \in Boundaries
    BY DEF IInv, LiveGood, SeekGood
<1>2. CASE CommitStagedNext
  <2>1. cursor + 1 \in Boundaries
    BY <1>1, <1>2 DEF CommitStagedNext, IInv, LiveGood, LiveAtBoundary
  <2> QED
    BY <1>1, <1>2, <2>1, StoredElsewhere DEF CommitStagedNext, indexVars
<1>3. CASE WorkerCommitsSeek
    BY <1>1, <1>3, StoredElsewhere DEF WorkerCommitsSeek, CommitStagedSeek, indexVars
<1>4. CASE ResumeSeekIndex
    BY <1>4, IndexKeepsSpacing
<1>5. CASE \/ StageNext \/ StageNextFails \/ DiscardStagedNext
           \/ WorkerSeeks \/ ResumeSeek \/ DiscardStagedSeek \/ UNCHANGED vars
  <2>1. UNCHANGED spacing
    BY <1>5
    DEF StageNext, StageNextFails, DiscardStagedNext, WorkerSeeks, BeginSeek, ResumeSeek,
        DiscardStagedSeek, vars, spacing, checkpointVars, indexVars
  <2> QED
    BY <2>1, UnchangedSpaced
<1> QED
    BY <1>2, <1>3, <1>4, <1>5 DEF Next

LEMMA SpacedIsShort ==
    ASSUME BytesNeverBind, IInv, SpacedInv
    PROVE  SeeksStayShort
<1>1. CheckpointsGood /\ indexCursor \in Boundaries /\ checkpoints \in SUBSET Checkpoint
    BY DEF IInv, IndexGood, CheckpointsGood
<1>2. ASSUME NEW t \in 0 .. indexCursor
      PROVE  LET replay == t - Latest(UpTo(t)).cursor
             IN replay < Interval \/ (replay + 1) * HalfBound <= ItemCount
  <2> DEFINE a == Latest(UpTo(t))
             replay == t - a.cursor
  <2>1. t \in Boundaries /\ UpTo(t) # {}
    BY <1>1 DEF UpTo, SpacedInv
  <2>2. a \in checkpoints /\ a.cursor \in 0 .. t /\ \A p \in UpTo(t) : p.cursor <= a.cursor
    BY <1>1, <2>1, LatestUpTo
  <2> HIDE DEF a
  <2>3. replay \in Nat
    BY <2>1, <2>2
  <2>4. PICK F \in Boundaries : IndexedUpTo(F)
    BY DEF SpacedInv
  <2>5. CASE a.cursor < F
    <3>1. PICK q \in checkpoints : q.cursor > a.cursor /\ Short(q.cursor - a.cursor)
      BY <2>2, <2>4, <2>5 DEF IndexedUpTo, Covered
    <3>2. q.cursor \in Nat
      BY <1>1 DEF Checkpoint
    <3>3. q.cursor > t
      BY <1>1, <2>1, <2>2, <3>1, <3>2 DEF UpTo
    <3>4. replay + 1 <= q.cursor - a.cursor /\ q.cursor - a.cursor \in Nat /\ replay + 1 \in Nat
      BY <2>1, <2>2, <2>3, <3>2, <3>3
    <3>5. Short(replay + 1)
      BY <3>1, <3>4, ShorterIsShort
    <3> QED
      BY <2>3, <3>5 DEF Short, a
  <2>6. CASE ~(a.cursor < F)
    <3>1. replay < Interval
      <4>1. CASE F = ItemCount
        <5>1. t = a.cursor
          BY <1>1, <2>1, <2>2, <2>6, <4>1
        <5> QED
          BY <2>2, <5>1
      <4>2. CASE F # ItemCount
        <5>1. indexCursor < F + Interval
          BY <2>4, <4>2 DEF IndexedUpTo
        <5> QED
          BY <1>1, <2>1, <2>2, <2>6, <5>1
      <4> QED
        BY <4>1, <4>2
    <3> QED
      BY <3>1 DEF a
  <2> QED
    BY <2>5, <2>6
<1> QED
    BY <1>2 DEF SeeksStayShort, SpacedInv, HalfBound

\* While bytes never bind, whatever order steps, seeks and the index store their
\* checkpoints in, no seek into the indexed part replays more than an interval
\* or the timeline over half the checkpoints, and both ends stay stored.
THEOREM SeeksAlwaysShort == BytesNeverBind /\ Spec => []SeeksStayShort
<1> DEFINE ShortInv == BytesNeverBind /\ SpacedInv
<1>1. BytesNeverBind /\ Init => ShortInv
    BY InitSpaced
<1>2. IInv /\ IInv' /\ ShortInv /\ [Next]_vars => ShortInv'
  <2> SUFFICES ASSUME IInv, IInv', ShortInv, [Next]_vars
               PROVE  ShortInv'
    OBVIOUS
  <2>1. BytesNeverBind'
    BY DEF BytesNeverBind
  <2>2. SpacedInv'
    BY StepSpaced
  <2> QED
    BY <2>1, <2>2
<1>3. IInv /\ ShortInv => SeeksStayShort
    BY SpacedIsShort
<1> HIDE DEF ShortInv
<1> QED
    BY <1>1, <1>2, <1>3, InvariantHolds, PTL DEF Spec

(***************************************************************************)
(* Refinement: the session implements the two-phase timeline.               *)
(***************************************************************************)
LEMMA ContainedPrefix ==
    ASSUME NEW c \in Boundaries
    PROVE  Contained(Prefix(c)) = c
    BY PrefixType DEF Contained

AbstractBoundary ==
    Contained(IF stagedNext
              THEN Replayed(RollbackBase.algorithm, RollbackBase.cursor, cursor)
              ELSE algorithm)

AbstractCandidate ==
    CASE stagedNext -> Contained(algorithm)
      [] seekPhase = "offered" -> Contained(stagedSeek.algorithm)
      [] OTHER -> ItemCount + 1

\* What the mapping shows in a good state.
Mapped ==
    /\ cursor \in Boundaries
    /\ stagedSeek.cursor \in Boundaries
    /\ AbstractBoundary = cursor
    /\ stagedNext =>
        /\ AbstractCandidate = cursor + 1
        /\ cursor + 1 \in Boundaries
        /\ seekPhase = "none"
    /\ ~stagedNext /\ seekPhase = "offered" => AbstractCandidate = stagedSeek.cursor
    /\ ~stagedNext /\ seekPhase # "offered" => AbstractCandidate = ItemCount + 1

LEMMA GoodStatesAreMapped == IInv => Mapped
<1> SUFFICES ASSUME IInv PROVE Mapped
    OBVIOUS
<1> USE DEF IInv, LiveGood, LiveAtBoundary
<1>1. AbstractBoundary = cursor
    BY RestoreExact, ContainedPrefix DEF AbstractBoundary
<1>2. stagedNext => AbstractCandidate = cursor + 1 /\ cursor + 1 \in Boundaries
  <2> SUFFICES ASSUME stagedNext
               PROVE  AbstractCandidate = cursor + 1 /\ cursor + 1 \in Boundaries
    OBVIOUS
  <2>1. cursor + 1 \in Boundaries /\ algorithm = Prefix(cursor + 1)
    OBVIOUS
  <2>2. seekPhase = "none"
    OBVIOUS
  <2> QED
    BY <2>1, <2>2, ContainedPrefix DEF AbstractCandidate
<1>3. ~stagedNext /\ seekPhase = "offered" => AbstractCandidate = stagedSeek.cursor
    BY ContainedPrefix DEF AbstractCandidate, SeekGood
<1>4. ~stagedNext /\ seekPhase # "offered" => AbstractCandidate = ItemCount + 1
    BY DEF AbstractCandidate
<1>5. stagedNext => seekPhase = "none"
    OBVIOUS
<1> QED
    BY <1>1, <1>2, <1>3, <1>4, <1>5 DEF SeekGood, Mapped

LEMMA AbstractInit == Init => Abstract!Init
<1> SUFFICES ASSUME Init PROVE Abstract!Init
    OBVIOUS
<1>1. Mapped
    BY InitEstablishesInv, GoodStatesAreMapped
<1>2. cursor = 0 /\ ~stagedNext /\ seekPhase = "none"
    BY DEF Init
<1> QED
    BY <1>1, <1>2
    DEF Mapped, Abstract!Init, Abstract!NoCandidate, AbstractBoundary, AbstractCandidate

\* Every step of the session is a step of the timeline, or none.
LEMMA AbstractStep ==
    Mapped /\ Mapped' /\ [Next]_vars => [Abstract!Next]_(Abstract!vars)
<1> SUFFICES ASSUME Mapped, Mapped', [Next]_vars
             PROVE  \/ Abstract!Next
                    \/ AbstractBoundary' = AbstractBoundary /\ AbstractCandidate' = AbstractCandidate
    BY DEF Abstract!vars, AbstractBoundary, AbstractCandidate
<1> DEFINE Offer ==
               /\ AbstractCandidate = ItemCount + 1
               /\ AbstractCandidate' \in Boundaries
               /\ AbstractBoundary' = AbstractBoundary
           Withdraw ==
               /\ AbstractCandidate # ItemCount + 1
               /\ AbstractCandidate' = ItemCount + 1
               /\ AbstractBoundary' = AbstractBoundary
           Publish ==
               /\ AbstractCandidate # ItemCount + 1
               /\ AbstractBoundary' = AbstractCandidate
               /\ AbstractCandidate' = ItemCount + 1
           Stutter ==
               AbstractBoundary' = AbstractBoundary /\ AbstractCandidate' = AbstractCandidate
<1>a. Offer => Abstract!Next
    BY DEF Abstract!Next, Abstract!Offer, Abstract!NoCandidate, Abstract!Boundaries,
           AbstractBoundary, AbstractCandidate
<1>b. Withdraw => Abstract!Next
    BY DEF Abstract!Next, Abstract!Withdraw, Abstract!NoCandidate,
           AbstractBoundary, AbstractCandidate
<1>c. Publish => Abstract!Next
    BY DEF Abstract!Next, Abstract!Publish, Abstract!NoCandidate,
           AbstractBoundary, AbstractCandidate
<1> USE DEF Mapped
<1>1. CASE StageNext
  <2>1. Offer
    BY <1>1 DEF StageNext, CanStage, seekVars
  <2> QED
    BY <2>1, <1>a
<1>2. CASE StageNextFails
    BY <1>2 DEF StageNextFails, CanStage, seekVars
<1>3. CASE CommitStagedNext
  <2>1. Publish
    BY <1>3 DEF CommitStagedNext, seekVars
  <2> QED
    BY <2>1, <1>c
<1>4. CASE DiscardStagedNext
  <2>1. Withdraw
    BY <1>4 DEF DiscardStagedNext, seekVars
  <2> QED
    BY <2>1, <1>b
<1>5. CASE WorkerSeeks
  <2>1. Withdraw \/ Stutter
    BY <1>5 DEF WorkerSeeks, BeginSeek, liveVars
  <2> QED
    BY <2>1, <1>b
<1>6. CASE ResumeSeek
  <2>1. /\ seekPhase = "replaying" /\ seekPhase' \in {"replaying", "offered", "failed"}
        /\ UNCHANGED liveVars
    BY <1>6 DEF ResumeSeek
  <2>2. Offer \/ Stutter
    BY <2>1 DEF liveVars
  <2> QED
    BY <2>2, <1>a
<1>7. CASE WorkerCommitsSeek
  <2>1. Publish
    BY <1>7 DEF WorkerCommitsSeek, CommitStagedSeek
  <2> QED
    BY <2>1, <1>c
<1>8. CASE DiscardStagedSeek
  <2>1. Withdraw \/ Stutter
    BY <1>8 DEF DiscardStagedSeek, liveVars
  <2> QED
    BY <2>1, <1>b
<1>9. CASE ResumeSeekIndex
    BY <1>9 DEF ResumeSeekIndex, liveVars, seekVars
<1>10. CASE UNCHANGED vars
    BY <1>10 DEF vars, liveVars, seekVars
<1> QED
    BY <1>1, <1>2, <1>3, <1>4, <1>5, <1>6, <1>7, <1>8, <1>9, <1>10 DEF Next

\* Only an accepted candidate moves what the session would rebuild or show.
THEOREM SessionImplementsTimeline == Spec => ImplementsTimeline
<1>1. Spec => []Mapped
    BY InvariantHolds, GoodStatesAreMapped, PTL
<1> QED
    BY <1>1, AbstractInit, AbstractStep, PTL DEF Spec, ImplementsTimeline, Abstract!Spec
===============================================================================
