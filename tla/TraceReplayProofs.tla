--------------------------- MODULE TraceReplayProofs ---------------------------
(***************************************************************************)
(* Recording and replaying a trace, for any set of entities, any patches,  *)
(* any limits and any number of operations.                                *)
(*                                                                         *)
(* A refused transaction is undone by applying its inverse.  That restores *)
(* the indexes only because they were exact before: the inverse takes out  *)
(* what a scan of the new values would find, and puts back what a scan of  *)
(* the old ones finds.                                                     *)
(*                                                                         *)
(* Reachability from the root is not kept by the check of what a patch     *)
(* touches.  What is kept (NoneCutOff) is weaker: no set of primary nodes  *)
(* without the root is free of links from outside.  Every recorded state   *)
(* satisfies it (Good), every patch of a commit leads from one of them to  *)
(* the next (History), and the client stands at one of them, or halfway of *)
(* the patch that leads to the next one (HalfInv).                         *)
(***************************************************************************)
EXTENDS TraceReplay, Sums

(***************************************************************************)
(* A change of an identity of a patch between two values of the state.     *)
(***************************************************************************)
Fits(st, p) ==
    /\ p.root.before = st.root
    /\ p.metric.before = st.metric
    /\ DOMAIN p.nodes \subseteq Ids
    /\ DOMAIN p.entries \subseteq Entries
    /\ \A id \in DOMAIN p.nodes : p.nodes[id].before = st.nodes[id]
    /\ \A e \in DOMAIN p.entries : p.entries[e].before = st.entries[e]

Lands(p) ==
    /\ p.root.after \in Ids \cup {Absent}
    /\ p.metric.after \in Nat
    /\ \A id \in DOMAIN p.nodes : p.nodes[id].after \in Node \cup {Absent}
    /\ \A e \in DOMAIN p.entries : p.entries[e].after \in Payloads \cup {Absent}

(***************************************************************************)
(* A transaction leads from a typed state to a typed state.                *)
(***************************************************************************)
LEMMA ReplacedTyped ==
    ASSUME NEW st \in TraceStates, NEW p, Fits(st, p), Lands(p)
    PROVE  Replaced(st, p) \in TraceStates
<1> DEFINE C == DOMAIN p.nodes
           N == [id \in Ids |-> IF id \in C THEN p.nodes[id].after ELSE st.nodes[id]]
           E == [e \in Entries |-> IF e \in DOMAIN p.entries THEN p.entries[e].after
                                                             ELSE st.entries[e]]
<1>1. /\ st.nodes \in [Ids -> Node \cup {Absent}]
      /\ st.entries \in [Entries -> Payloads \cup {Absent}]
      /\ st.incoming \in SUBSET (Ids \X Ids)
      /\ st.owners \in SUBSET (Entries \X Ids)
  BY DEF TraceStates
<1>2. N \in [Ids -> Node \cup {Absent}]
  BY <1>1 DEF Lands
<1>3. E \in [Entries -> Payloads \cup {Absent}]
  BY <1>1 DEF Lands
<1>4. C \subseteq Ids
  BY DEF Fits
<1>5. /\ (st.incoming \ LinksOf(st.nodes, C)) \cup LinksOf(N, C) \in SUBSET (Ids \X Ids)
      /\ (st.owners \ HeldBy(st.nodes, C)) \cup HeldBy(N, C) \in SUBSET (Entries \X Ids)
  BY <1>1, <1>4 DEF LinksOf, HeldBy
<1>6. p.root.after \in Ids \cup {Absent} /\ p.metric.after \in Nat
  BY DEF Lands
<1> QED
  BY <1>2, <1>3, <1>5, <1>6 DEF Replaced, TraceStates

(***************************************************************************)
(* Touching only the changed entities keeps the indexes exact.             *)
(***************************************************************************)
THEOREM IndexesMaintained ==
    ASSUME NEW st, NEW p, Indexed(st), DOMAIN p.nodes \subseteq Ids
    PROVE  Indexed(Replaced(st, p))
<1> DEFINE C == DOMAIN p.nodes
           N == [id \in Ids |-> IF id \in C THEN p.nodes[id].after ELSE st.nodes[id]]
<1>1. \A id \in Ids \ C : N[id] = st.nodes[id]
  OBVIOUS
<1>2. /\ Replaced(st, p).nodes = N
      /\ Replaced(st, p).incoming = (st.incoming \ LinksOf(st.nodes, C)) \cup LinksOf(N, C)
      /\ Replaced(st, p).owners = (st.owners \ HeldBy(st.nodes, C)) \cup HeldBy(N, C)
  BY DEF Replaced
<1>3. st.incoming = LinksOf(st.nodes, Ids) /\ st.owners = HeldBy(st.nodes, Ids)
  BY DEF Indexed
<1> HIDE DEF N
<1>4. (LinksOf(st.nodes, Ids) \ LinksOf(st.nodes, C)) \cup LinksOf(N, C) = LinksOf(N, Ids)
  BY <1>1 DEF LinksOf
<1>5. (HeldBy(st.nodes, Ids) \ HeldBy(st.nodes, C)) \cup HeldBy(N, C) = HeldBy(N, Ids)
  BY <1>1 DEF HeldBy
<1> QED
  BY <1>2, <1>3, <1>4, <1>5 DEF Indexed

(***************************************************************************)
(* Undoing a transaction restores the state, its indexes included.         *)
(***************************************************************************)
THEOREM UndoRestores ==
    ASSUME NEW st \in TraceStates, NEW p, Fits(st, p), Indexed(st)
    PROVE  Replaced(Replaced(st, p), Reversed(p)) = st
<1> DEFINE C == DOMAIN p.nodes
           D == DOMAIN p.entries
           mid == Replaced(st, p)
           rev == Reversed(p)
           back == Replaced(mid, rev)
<1>1. /\ st.nodes \in [Ids -> Node \cup {Absent}]
      /\ st.entries \in [Entries -> Payloads \cup {Absent}]
      /\ st = [root |-> st.root, nodes |-> st.nodes, entries |-> st.entries,
               metric |-> st.metric, incoming |-> st.incoming, owners |-> st.owners]
  BY DEF TraceStates
<1>2. /\ DOMAIN rev.nodes = C /\ DOMAIN rev.entries = D
      /\ \A id \in C : rev.nodes[id].after = p.nodes[id].before
      /\ \A e \in D : rev.entries[e].after = p.entries[e].before
      /\ rev.root.after = p.root.before /\ rev.metric.after = p.metric.before
  BY DEF Reversed, Turned
<1>3. /\ mid.nodes = [id \in Ids |-> IF id \in C THEN p.nodes[id].after ELSE st.nodes[id]]
      /\ mid.entries = [e \in Entries |-> IF e \in D THEN p.entries[e].after ELSE st.entries[e]]
  BY SMTT(30) DEF Replaced
<1>4. /\ back.nodes = [id \in Ids |-> IF id \in C THEN rev.nodes[id].after ELSE mid.nodes[id]]
      /\ back.entries = [e \in Entries |-> IF e \in D THEN rev.entries[e].after ELSE mid.entries[e]]
      /\ back.root = rev.root.after
      /\ back.metric = rev.metric.after
      /\ back = [root |-> back.root, nodes |-> back.nodes, entries |-> back.entries,
                 metric |-> back.metric, incoming |-> back.incoming, owners |-> back.owners]
  BY <1>2 DEF Replaced
<1>5. Indexed(back)
  <2>1. C \subseteq Ids
    BY DEF Fits
  <2>2. Indexed(mid)
    BY <2>1, IndexesMaintained
  <2> HIDE DEF mid, rev
  <2>3. DOMAIN rev.nodes \subseteq Ids
    BY <2>1, <1>2
  <2> QED
    BY <2>2, <2>3, IndexesMaintained
<1> HIDE DEF mid, rev, back
<1>6. back.nodes = st.nodes
  BY <1>1, <1>2, <1>3, <1>4 DEF Fits
<1>7. back.entries = st.entries
  BY <1>1, <1>2, <1>3, <1>4 DEF Fits
<1>8. back.root = st.root /\ back.metric = st.metric
  BY <1>2, <1>4 DEF Fits
<1>9. back.incoming = st.incoming /\ back.owners = st.owners
  BY <1>5, <1>6 DEF Indexed
<1>10. back = st
  BY <1>1, <1>4, <1>6, <1>7, <1>8, <1>9
<1> QED
  BY <1>10 DEF back, mid, rev

-----------------------------------------------------------------------------
(***************************************************************************)
(* The patches of the recorder.                                            *)
(***************************************************************************)
LEMMA PatchFits ==
    ASSUME NEW st, NEW p \in Patches, NEW forward, Admissible(st, p, forward)
    PROVE  Fits(st, p) /\ Lands(p)
<1>1. /\ p.root \in Change(Ids \cup {Absent})
      /\ p.metric \in Change(Nat)
      /\ p.nodes \in UNION {[C -> Change(Node \cup {Absent})] : C \in SUBSET Ids}
      /\ p.entries \in UNION {[C -> Change(Payloads \cup {Absent})] : C \in SUBSET Entries}
  BY DEF Patches
<1>2. DOMAIN p.nodes \subseteq Ids
        /\ \A id \in DOMAIN p.nodes : p.nodes[id] \in Change(Node \cup {Absent})
  BY <1>1
<1>3. DOMAIN p.entries \subseteq Entries
        /\ \A e \in DOMAIN p.entries : p.entries[e] \in Change(Payloads \cup {Absent})
  BY <1>1
<1> QED
  BY <1>1, <1>2, <1>3 DEF Fits, Lands, Admissible, Change

LEMMA DiffIsPatch ==
    ASSUME NEW from \in TraceStates, NEW to \in TraceStates
    PROVE  Diff(from, to) \in Patches
<1>1. /\ from.root \in Ids \cup {Absent} /\ to.root \in Ids \cup {Absent}
      /\ from.metric \in Nat /\ to.metric \in Nat
      /\ from.nodes \in [Ids -> Node \cup {Absent}] /\ to.nodes \in [Ids -> Node \cup {Absent}]
      /\ from.entries \in [Entries -> Payloads \cup {Absent}]
      /\ to.entries \in [Entries -> Payloads \cup {Absent}]
  BY DEF TraceStates
<1> DEFINE C == {i \in Ids : from.nodes[i] # to.nodes[i]}
           D == {i \in Entries : from.entries[i] # to.entries[i]}
<1>2. [id \in C |-> [before |-> from.nodes[id], after |-> to.nodes[id]]]
        \in [C -> Change(Node \cup {Absent})]
  BY <1>1 DEF Change
<1>3. [e \in D |-> [before |-> from.entries[e], after |-> to.entries[e]]]
        \in [D -> Change(Payloads \cup {Absent})]
  BY <1>1 DEF Change
<1>4. C \in SUBSET Ids /\ D \in SUBSET Entries
  OBVIOUS
<1> HIDE DEF C, D
<1>5. [id \in C |-> [before |-> from.nodes[id], after |-> to.nodes[id]]]
        \in UNION {[X -> Change(Node \cup {Absent})] : X \in SUBSET Ids}
  BY <1>2, <1>4
<1>6. [e \in D |-> [before |-> from.entries[e], after |-> to.entries[e]]]
        \in UNION {[X -> Change(Payloads \cup {Absent})] : X \in SUBSET Entries}
  BY <1>3, <1>4
<1>7. /\ [before |-> from.root, after |-> to.root] \in Change(Ids \cup {Absent})
      /\ [before |-> from.metric, after |-> to.metric] \in Change(Nat)
  BY <1>1 DEF Change
<1> QED
  BY <1>5, <1>6, <1>7 DEF Diff, Patches, C, D

(***************************************************************************)
(* A transaction that succeeds leads to the state after it, one that is    *)
(* refused, stale or dangling, leads nowhere.                              *)
(***************************************************************************)
THEOREM ApplyAllOrNothing ==
    ASSUME NEW st \in TraceStates, Indexed(st), NEW p \in Patches, NEW forward \in BOOLEAN
    PROVE  LET result == Apply(st, p, forward)
           IN  /\ result.ok \in BOOLEAN
               /\ result.state = IF result.ok THEN Replaced(st, p) ELSE st
               /\ result.ok => /\ Replaced(st, p) \in TraceStates
                               /\ Indexed(Replaced(st, p))
                               /\ Admissible(st, p, forward)
                               /\ Accepts(Replaced(st, p), p)
<1>1. CASE ~Admissible(st, p, forward)
  BY <1>1 DEF Apply
<1>2. CASE Admissible(st, p, forward)
  <2>1. Fits(st, p) /\ Lands(p)
    BY <1>2, PatchFits
  <2>2. Replaced(st, p) \in TraceStates
    BY <2>1, ReplacedTyped
  <2>3. Indexed(Replaced(st, p))
    BY <2>1, IndexesMaintained DEF Fits
  <2>4. Replaced(Replaced(st, p), Reversed(p)) = st
    BY <2>1, UndoRestores
  <2>5. CASE Accepts(Replaced(st, p), p)
    BY <1>2, <2>2, <2>3, <2>5 DEF Apply
  <2>6. CASE ~Accepts(Replaced(st, p), p)
    BY <1>2, <2>4, <2>6 DEF Apply
  <2> QED
    BY <2>5, <2>6
<1> QED
  BY <1>1, <1>2

(***************************************************************************)
(* Looking at the affected entities is enough: when nothing dangled before *)
(* a transaction and its check passes, nothing dangles after it.           *)
(***************************************************************************)
THEOREM IncrementalCheckSuffices ==
    ASSUME NEW st \in TraceStates, Indexed(st), Resolves(st),
           NEW p \in Patches, NEW forward \in BOOLEAN, Admissible(st, p, forward),
           ChangedReferencesResolve(Replaced(st, p), p)
    PROVE  Resolves(Replaced(st, p))
<1> DEFINE C == DOMAIN p.nodes
           D == DOMAIN p.entries
           new == Replaced(st, p)
<1>1. Fits(st, p) /\ Lands(p)
  BY PatchFits
<1>2. Indexed(new) /\ new \in TraceStates
  BY <1>1, IndexesMaintained, ReplacedTyped DEF Fits
<1>3. /\ \A id \in Ids \ C : new.nodes[id] = st.nodes[id]
      /\ \A e \in Entries \ D : new.entries[e] = st.entries[e]
      /\ C \subseteq AffectedNodes(p) /\ D \subseteq AffectedEntries(p)
  BY DEF Replaced, AffectedNodes, AffectedEntries
<1>4. /\ st.nodes \in [Ids -> Node \cup {Absent}] /\ new.nodes \in [Ids -> Node \cup {Absent}]
      /\ C \subseteq Ids /\ D \subseteq Entries
  BY <1>1, <1>2 DEF TraceStates, Fits
<1>5. ChangedReferencesResolve(new, p)
  OBVIOUS
<1> HIDE DEF new, C, D
<1>6. new.root = Absent \/ new.nodes[new.root] # Absent
  BY <1>5 DEF ChangedReferencesResolve
<1>7. ASSUME NEW id \in Present(new.nodes)
      PROVE  /\ new.nodes[id].links \subseteq Present(new.nodes)
             /\ \A e \in new.nodes[id].entries : new.entries[e] # Absent
  <2>1. id \in Ids /\ new.nodes[id] # Absent /\ new.nodes[id] \in Node
    BY <1>4 DEF Present
  <2>2. CASE id \in C
    BY <1>3, <1>5, <2>1, <2>2 DEF ChangedReferencesResolve
  <2>3. CASE id \notin C
    <3>1. new.nodes[id] = st.nodes[id] /\ id \in Present(st.nodes)
      BY <1>3, <1>4, <2>1, <2>3 DEF Present
    <3>2. ASSUME NEW t \in new.nodes[id].links PROVE t \in Present(new.nodes)
      <4>1. t \in Ids /\ st.nodes[t] # Absent
        BY <1>4, <3>1, <3>2 DEF Resolves, Present
      <4>2. <<t, id>> \in new.incoming
        BY <1>2, <2>1, <3>2, <4>1 DEF Indexed, LinksOf
      <4>3. t \in C => new.nodes[t] # Absent
        BY <1>3, <1>5, <2>1, <4>2 DEF ChangedReferencesResolve
      <4> QED
        BY <1>3, <1>4, <4>1, <4>3 DEF Present
    <3>3. ASSUME NEW e \in new.nodes[id].entries PROVE new.entries[e] # Absent
      <4>1. e \in Entries
        BY <2>1, <3>3 DEF Node
      <4>2. st.entries[e] # Absent
        BY <3>1, <3>3 DEF Resolves
      <4>3. <<e, id>> \in new.owners
        BY <1>2, <2>1, <3>3, <4>1 DEF Indexed, HeldBy
      <4>4. e \in D => new.entries[e] # Absent
        BY <1>3, <1>5, <2>1, <4>3 DEF ChangedReferencesResolve
      <4> QED
        BY <1>3, <4>1, <4>2, <4>4
    <3> QED
      BY <3>2, <3>3
  <2> QED
    BY <2>2, <2>3
<1>8. Resolves(new)
  BY <1>6, <1>7 DEF Resolves
<1> QED
  BY <1>8 DEF new

-----------------------------------------------------------------------------
(***************************************************************************)
(* Walks from the root.  The i-th set of a walk is what is at most i links *)
(* away.                                                                   *)
(***************************************************************************)
Next1(incoming, S) == S \cup {t \in Ids : \E s \in S : <<t, s>> \in incoming}
Start(root) == {root} \ {Absent}
IsWalk(root, incoming, n, g) ==
    g = [i \in 0 .. n |-> IF i = 0 THEN Start(root) ELSE Next1(incoming, g[i - 1])]

LEMMA WalkAt ==
    ASSUME NEW root, NEW incoming, NEW n \in Nat, NEW g, IsWalk(root, incoming, n, g)
    PROVE  /\ g[0] = Start(root)
           /\ \A i \in 0 .. n : i > 0 => g[i] = Next1(incoming, g[i - 1])
<1>1. \A i \in 0 .. n : g[i] = IF i = 0 THEN Start(root) ELSE Next1(incoming, g[i - 1])
  BY DEF IsWalk
<1>2. 0 \in 0 .. n
  OBVIOUS
<1> QED
  BY <1>1, <1>2

LEMMA WalkExists ==
    ASSUME NEW root, NEW incoming, NEW n \in Nat
    PROVE  \E g : IsWalk(root, incoming, n, g)
<1> DEFINE good == {m \in Nat : \E g : IsWalk(root, incoming, m, g)}
<1>1. 0 \in good
  <2>1. IsWalk(root, incoming, 0, [i \in 0 .. 0 |-> Start(root)])
    BY DEF IsWalk
  <2> QED
    BY <2>1
<1>2. ASSUME NEW m \in 0 .. n, m > 0, m - 1 \in good PROVE m \in good
  <2>1. PICK g : IsWalk(root, incoming, m - 1, g)
    BY <1>2
  <2>5. m - 1 \in Nat
    BY <1>2
  <2>6. g[0] = Start(root) /\ \A i \in 0 .. (m - 1) : i > 0 => g[i] = Next1(incoming, g[i - 1])
    BY <2>1, <2>5, WalkAt
  <2> DEFINE h == [i \in 0 .. m |-> IF i = m THEN Next1(incoming, g[m - 1]) ELSE g[i]]
  <2>2. \A i \in 0 .. m : h[i] = IF i = 0 THEN Start(root) ELSE Next1(incoming, h[i - 1])
    <3> TAKE i \in 0 .. m
    <3>1. CASE i = m
      BY <3>1, <1>2
    <3>2. CASE i # m
      <4>1. i \in 0 .. (m - 1) /\ h[i] = g[i] /\ (i > 0 => h[i - 1] = g[i - 1])
        BY <3>2
      <4>2. g[i] = IF i = 0 THEN Start(root) ELSE Next1(incoming, g[i - 1])
        BY <2>6, <4>1, <1>2
      <4> QED
        BY <4>1, <4>2
    <3> QED
      BY <3>1, <3>2
  <2>3. h = [i \in 0 .. m |-> h[i]]
    OBVIOUS
  <2> HIDE DEF h
  <2>4. IsWalk(root, incoming, m, h)
    BY <2>2, <2>3 DEF IsWalk
  <2> QED
    BY <2>4
<1> HIDE DEF good
<1>3. 0 .. n \subseteq good
  BY <1>1, <1>2, UpToInduction
<1> QED
  BY <1>3 DEF good

LEMMA ReachableIsWalk ==
    ASSUME NEW root, NEW incoming, Cardinality(Ids) \in Nat
    PROVE  \E g : /\ IsWalk(root, incoming, Cardinality(Ids), g)
                  /\ ReachableBy(root, incoming) = g[Cardinality(Ids)]
<1> DEFINE n == Cardinality(Ids)
           g == CHOOSE w : IsWalk(root, incoming, n, w)
<1>1. IsWalk(root, incoming, n, g)
  BY WalkExists
<1>2. ReachableBy(root, incoming) = g[n]
  BY DEF ReachableBy, IsWalk, Next1, Start
<1> QED
  BY <1>1, <1>2

LEMMA IdsFinite == IsFiniteSet(Ids) /\ Cardinality(Ids) \in Nat
BY IdentitiesAssumption, FS_CardinalityType DEF Ids

\* Nothing outside a set that is closed under links is reached.
LEMMA ReachableLeast ==
    ASSUME NEW root, NEW incoming, NEW S, root = Absent \/ root \in S,
           \A s \in S, t \in Ids : <<t, s>> \in incoming => t \in S
    PROVE  ReachableBy(root, incoming) \subseteq S
<1> DEFINE n == Cardinality(Ids)
<1>0. n \in Nat
  BY IdsFinite
<1>1. PICK g : IsWalk(root, incoming, n, g) /\ ReachableBy(root, incoming) = g[n]
  BY <1>0, ReachableIsWalk
<1> DEFINE good == {i \in 0 .. n : g[i] \subseteq S}
<1> HIDE DEF n
<1>7. g[0] = Start(root) /\ \A i \in 0 .. n : i > 0 => g[i] = Next1(incoming, g[i - 1])
  <2>1. IsWalk(root, incoming, n, g)
    BY <1>1 DEF n
  <2> QED
    BY <1>0, <2>1, WalkAt
<1>2. 0 \in good
  BY <1>0, <1>7 DEF Start
<1>3. ASSUME NEW i \in 0 .. n, i > 0, i - 1 \in good PROVE i \in good
  <2>1. g[i] = Next1(incoming, g[i - 1]) /\ g[i - 1] \subseteq S
    BY <1>0, <1>7, <1>3
  <2> QED
    BY <2>1 DEF Next1
<1> HIDE DEF good
<1>4. 0 .. n \subseteq good
  BY <1>0, <1>2, <1>3, UpToInduction
<1>5. n \in good
  BY <1>0, <1>4
<1> QED
  BY <1>1, <1>5 DEF good, n

\* The root is reached, and so is whatever a reached entity links to: with as
\* many rounds as entities, a walk that still grew would hold more of them than
\* there are.
LEMMA ReachableClosed ==
    ASSUME NEW root \in Ids \cup {Absent}, NEW incoming
    PROVE  /\ root # Absent => root \in ReachableBy(root, incoming)
           /\ \A s \in ReachableBy(root, incoming), t \in Ids :
                 <<t, s>> \in incoming => t \in ReachableBy(root, incoming)
<1> DEFINE n == Cardinality(Ids)
<1>0. n \in Nat /\ IsFiniteSet(Ids)
  BY IdsFinite
<1>1. PICK g : IsWalk(root, incoming, n, g) /\ ReachableBy(root, incoming) = g[n]
  BY <1>0, ReachableIsWalk
<1> HIDE DEF n
<1>2. /\ g[0] = Start(root)
      /\ \A i \in 0 .. n : i > 0 => g[i] = Next1(incoming, g[i - 1])
  <2>1. IsWalk(root, incoming, n, g)
    BY <1>1 DEF n
  <2> QED
    BY <1>0, <2>1, WalkAt
<1> DEFINE Complete(S) == Next1(incoming, S) = S
           good == {i \in 0 .. n : /\ g[i] \subseteq Ids
                                   /\ root # Absent => root \in g[i]
                                   /\ Complete(g[i]) \/ Cardinality(g[i]) >= i + 1}
<1>3. 0 \in good
  <2>1. CASE root = Absent
    <3>1. g[0] = {}
      BY <1>2, <2>1 DEF Start
    <3>2. Next1(incoming, {}) = {}
      BY DEF Next1
    <3> QED
      BY <1>0, <3>1, <3>2, <2>1
  <2>2. CASE root # Absent
    <3>1. g[0] = {root} /\ Cardinality({root}) = 1
      BY <1>2, <2>2, FS_Singleton DEF Start
    <3> QED
      BY <1>0, <3>1, <2>2
  <2> QED
    BY <2>1, <2>2
<1>4. ASSUME NEW i \in 0 .. n, i > 0, i - 1 \in good PROVE i \in good
  <2> DEFINE S == g[i - 1]
             T == g[i]
  <2>1. /\ T = Next1(incoming, S) /\ S \subseteq Ids /\ (root # Absent => root \in S)
        /\ Complete(S) \/ Cardinality(S) >= i
    BY <1>0, <1>2, <1>4
  <2>2. S \subseteq T /\ T \subseteq Ids
    BY <2>1 DEF Next1
  <2> HIDE DEF S, T
  <2>3. CASE Complete(S)
    BY <2>1, <2>2, <2>3 DEF T
  <2>4. CASE ~Complete(S) /\ Cardinality(S) >= i
    <3>1. IsFiniteSet(T) /\ IsFiniteSet(S)
      BY <1>0, <2>2, FS_Subset
    <3>2. Cardinality(S) <= Cardinality(T) /\ Cardinality(S) # Cardinality(T)
      BY <2>1, <2>2, <2>4, <3>1, FS_Subset
    <3>3. Cardinality(S) \in Nat /\ Cardinality(T) \in Nat
      BY <3>1, FS_CardinalityType
    <3>4. Cardinality(T) >= i + 1
      BY <2>4, <3>2, <3>3
    <3> QED
      BY <2>1, <2>2, <3>4 DEF T
  <2> QED
    BY <2>1, <2>3, <2>4
<1> HIDE DEF good
<1>5. 0 .. n \subseteq good
  BY <1>0, <1>3, <1>4, UpToInduction
<1>6. n \in good
  BY <1>0, <1>5
<1>7. /\ g[n] \subseteq Ids /\ (root # Absent => root \in g[n])
      /\ Complete(g[n]) \/ Cardinality(g[n]) >= n + 1
  BY <1>6 DEF good
<1>8. ~(Cardinality(g[n]) >= n + 1)
  <2>1. Cardinality(g[n]) <= n /\ IsFiniteSet(g[n])
    BY <1>0, <1>7, FS_Subset DEF n
  <2>2. Cardinality(g[n]) \in Nat
    BY <2>1, FS_CardinalityType
  <2> QED
    BY <1>0, <2>1, <2>2
<1> QED
  BY <1>1, <1>7, <1>8 DEF Next1, n

-----------------------------------------------------------------------------
(***************************************************************************)
(* No primary nodes are cut off together: a set of them that excludes the  *)
(* root has a link from outside.  Unlike reachability this survives every  *)
(* accepted transaction, although the check looks at what the patch        *)
(* touches only.                                                           *)
(***************************************************************************)
CutOff(st, U) ==
    /\ U \in SUBSET (Present(st.nodes) \cap Primary)
    /\ st.root \notin U
    /\ \A s \in Present(st.nodes) \ U : st.nodes[s].links \cap U = {}
NoneCutOff(st) == \A U : CutOff(st, U) => U = {}

Good(st) == st \in TraceStates /\ Indexed(st) /\ Resolves(st) /\ NoneCutOff(st)

LEMMA StateParts ==
    ASSUME NEW st \in TraceStates
    PROVE  /\ st.root \in Ids \cup {Absent}
           /\ st.nodes \in [Ids -> Node \cup {Absent}]
           /\ st.entries \in [Entries -> Payloads \cup {Absent}]
           /\ st.metric \in Nat
           /\ Present(st.nodes) \subseteq Ids
           /\ \A id \in Ids : id \in Present(st.nodes) <=> st.nodes[id] # Absent
           /\ \A id \in Present(st.nodes) : st.nodes[id] \in Node
BY DEF TraceStates, Present

LEMMA CutOffUnreached ==
    ASSUME NEW st \in TraceStates, NEW U, CutOff(st, U)
    PROVE  ReachableBy(st.root, LinksOf(st.nodes, Ids)) \subseteq Ids \ U
<1> DEFINE I == LinksOf(st.nodes, Ids)
           S == Ids \ U
<1>1. st.root = Absent \/ st.root \in S
  BY StateParts DEF CutOff
<1>2. ASSUME NEW s \in S, NEW t \in Ids, <<t, s>> \in I PROVE t \in S
  <2>1. s \in Ids /\ st.nodes[s] # Absent /\ t \in st.nodes[s].links
    BY <1>2 DEF LinksOf
  <2>2. s \in Present(st.nodes) \ U
    BY <2>1, StateParts
  <2> QED
    BY <2>1, <2>2 DEF CutOff
<1> HIDE DEF I, S
<1>3. ReachableBy(st.root, I) \subseteq S
  BY <1>1, <1>2, ReachableLeast
<1> QED
  BY <1>3 DEF I, S

LEMMA FullyValidGood ==
    ASSUME NEW st \in TraceStates, Indexed(st), FullyValid(st)
    PROVE  Good(st)
<1>1. ASSUME NEW U, CutOff(st, U) PROVE U = {}
  <2>1. ReachableBy(st.root, LinksOf(st.nodes, Ids)) \subseteq Ids \ U
    BY <1>1, CutOffUnreached
  <2>2. U \subseteq Present(st.nodes) \cap Primary
    BY <1>1 DEF CutOff
  <2>3. U \subseteq ReachableBy(st.root, LinksOf(st.nodes, Ids))
    BY <2>2 DEF FullyValid, Hidden
  <2> QED
    BY <2>1, <2>3
<1> QED
  BY <1>1 DEF Good, NoneCutOff, FullyValid

LEMMA AffectedParts ==
    ASSUME NEW p
    PROVE  AffectedNodes(p) = DOMAIN p.nodes \cup LinkTargets(p)
                                \cup (IF NoOp(p.root) THEN {} ELSE ValuesOf(p.root))
BY DEF AffectedNodes

LEMMA AcceptedGood ==
    ASSUME NEW st, Good(st), NEW p \in Patches, NEW forward \in BOOLEAN,
           Admissible(st, p, forward), Accepts(Replaced(st, p), p)
    PROVE  Good(Replaced(st, p))
<1> DEFINE new == Replaced(st, p)
           C == DOMAIN p.nodes
<1>1. st \in TraceStates /\ Indexed(st) /\ Resolves(st) /\ NoneCutOff(st)
  BY DEF Good
<1>2. Fits(st, p) /\ Lands(p)
  BY PatchFits
<1>3. new \in TraceStates /\ Indexed(new)
  BY <1>1, <1>2, ReplacedTyped, IndexesMaintained DEF Fits
<1>4. Resolves(new)
  BY <1>1, IncrementalCheckSuffices DEF Accepts
<1>5. /\ C \subseteq Ids /\ C \subseteq AffectedNodes(p)
      /\ \A id \in C : p.nodes[id].before = st.nodes[id]
      /\ \A id \in Ids \ C : new.nodes[id] = st.nodes[id]
      /\ p.root.before = st.root /\ p.root.after = new.root
  BY <1>2 DEF Fits, AffectedNodes, Replaced
<1>6. AffectedReachable(new, p)
  BY DEF Accepts
<1>7. \A id \in C : st.nodes[id] # Absent => st.nodes[id].links \subseteq AffectedNodes(p)
  <2> SUFFICES ASSUME NEW id \in C, st.nodes[id] # Absent, NEW t \in st.nodes[id].links
               PROVE t \in AffectedNodes(p)
    OBVIOUS
  <2>1. st.nodes[id] \in ValuesOf(p.nodes[id])
    BY <1>5 DEF ValuesOf
  <2>2. st.nodes[id] \in UNION {ValuesOf(p.nodes[i]) : i \in DOMAIN p.nodes}
    BY <2>1
  <2>3. t \in LinkTargets(p)
    BY <2>2 DEF LinkTargets
  <2> QED
    BY <2>3, AffectedParts
<1>8. st.root = new.root \/ st.root = Absent \/ st.root \in AffectedNodes(p)
  <2>1. CASE NoOp(p.root)
    BY <1>5, <2>1 DEF NoOp
  <2>2. CASE ~NoOp(p.root)
    <3>1. st.root = Absent \/ st.root \in ValuesOf(p.root)
      BY <1>5 DEF ValuesOf
    <3>2. ValuesOf(p.root) \subseteq AffectedNodes(p)
      BY <2>2, AffectedParts
    <3> QED
      BY <3>1, <3>2
  <2> QED
    BY <2>1, <2>2
<1> HIDE DEF new, C
<1>9. ASSUME NEW U, CutOff(new, U) PROVE U = {}
  <2>1. ReachableBy(new.root, new.incoming) \subseteq Ids \ U
    BY <1>3, <1>9, CutOffUnreached DEF Indexed
  <2>2. U \subseteq Present(new.nodes) \cap Primary /\ new.root \notin U
    BY <1>9 DEF CutOff
  <2>3. AffectedNodes(p) \cap U = {}
    BY <1>6, <2>1, <2>2 DEF AffectedReachable
  <2>4. U \subseteq Ids /\ Absent \notin U
    BY <1>3, <2>2, StateParts, IdentitiesAssumption DEF Ids
  <2>5. U \subseteq Present(st.nodes) \cap Primary
    <3> SUFFICES ASSUME NEW u \in U PROVE u \in Present(st.nodes)
      BY <2>2
    <3>1. u \in Ids \ C
      BY <1>5, <2>3, <2>4
    <3> QED
      BY <1>1, <1>3, <1>5, <2>2, <3>1, StateParts
  <2>6. st.root \notin U
    BY <1>8, <2>2, <2>3, <2>4
  <2>7. ASSUME NEW s \in Present(st.nodes) \ U PROVE st.nodes[s].links \cap U = {}
    <3>1. s \in Ids /\ st.nodes[s] # Absent
      BY <1>1, StateParts
    <3>2. CASE s \in C
      BY <1>7, <2>3, <3>1, <3>2
    <3>3. CASE s \notin C
      <4>1. new.nodes[s] = st.nodes[s] /\ s \in Present(new.nodes)
        BY <1>3, <1>5, <3>1, <3>3, StateParts
      <4> QED
        BY <1>9, <4>1 DEF CutOff
    <3> QED
      BY <3>2, <3>3
  <2> QED
    BY <1>1, <2>5, <2>6, <2>7 DEF NoneCutOff, CutOff
<1> QED
  BY <1>3, <1>4, <1>9 DEF Good, NoneCutOff, new

\* What the check misses is kept in sight by an auxiliary entity.
LEMMA HiddenIsLinked ==
    ASSUME NEW st, Good(st), Hidden(st) # {}
    PROVE  \E a \in Auxiliary \cap Present(st.nodes) : st.nodes[a].links \cap Hidden(st) # {}
<1> DEFINE I == LinksOf(st.nodes, Ids)
           R == ReachableBy(st.root, I)
<1>1. st \in TraceStates /\ NoneCutOff(st)
  BY DEF Good
<1>2. st.root \in Ids \cup {Absent}
  BY <1>1, StateParts
<1> HIDE DEF I
<1>3. /\ st.root # Absent => st.root \in R
      /\ \A s \in R, t \in Ids : <<t, s>> \in I => t \in R
  BY <1>2, ReachableClosed
<1> HIDE DEF R
<1>4. Hidden(st) = (Present(st.nodes) \cap Primary) \ R
  BY DEF Hidden, R, I
<1>5. st.root \notin Hidden(st)
  BY <1>2, <1>3, <1>4, IdentitiesAssumption DEF Ids
<1>6. PICK s \in Present(st.nodes) \ Hidden(st) : st.nodes[s].links \cap Hidden(st) # {}
  BY <1>1, <1>4, <1>5 DEF NoneCutOff, CutOff
<1>7. PICK t \in st.nodes[s].links : t \in Hidden(st)
  BY <1>6
<1>8. s \in Ids /\ st.nodes[s] # Absent /\ t \in Ids
  BY <1>1, <1>4, <1>7, StateParts
<1>9. <<t, s>> \in I
  BY <1>8, <1>7 DEF I, LinksOf
<1>10. s \notin Primary
  BY <1>3, <1>4, <1>6, <1>7, <1>8, <1>9
<1> QED
  BY <1>6, <1>8, <1>10 DEF Ids

-----------------------------------------------------------------------------
(***************************************************************************)
(* One transaction, there and back.                                        *)
(***************************************************************************)
LEMMA ReversedIsPatch ==
    ASSUME NEW p \in Patches
    PROVE  Reversed(p) \in Patches
<1> DEFINE C == DOMAIN p.nodes
           D == DOMAIN p.entries
           N == [id \in C |-> Turned(p.nodes[id])]
           E == [e \in D |-> Turned(p.entries[e])]
<1>1. /\ p.root \in Change(Ids \cup {Absent})
      /\ p.metric \in Change(Nat)
      /\ p.nodes \in UNION {[X -> Change(Node \cup {Absent})] : X \in SUBSET Ids}
      /\ p.entries \in UNION {[X -> Change(Payloads \cup {Absent})] : X \in SUBSET Entries}
  BY DEF Patches
<1>2. C \in SUBSET Ids /\ \A id \in C : p.nodes[id] \in Change(Node \cup {Absent})
  BY <1>1
<1>3. D \in SUBSET Entries /\ \A e \in D : p.entries[e] \in Change(Payloads \cup {Absent})
  BY <1>1
<1>4. N \in [C -> Change(Node \cup {Absent})]
  BY <1>2 DEF Turned, Change
<1>5. E \in [D -> Change(Payloads \cup {Absent})]
  BY <1>3 DEF Turned, Change
<1>6. Turned(p.root) \in Change(Ids \cup {Absent}) /\ Turned(p.metric) \in Change(Nat)
  BY <1>1 DEF Turned, Change
<1>7. Reversed(p) = [root |-> Turned(p.root), nodes |-> N, entries |-> E,
                     metric |-> Turned(p.metric)]
  BY DEF Reversed
<1> HIDE DEF N, E, C, D
<1>8. N \in UNION {[X -> Change(Node \cup {Absent})] : X \in SUBSET Ids}
  BY <1>2, <1>4
<1>9. E \in UNION {[X -> Change(Payloads \cup {Absent})] : X \in SUBSET Entries}
  BY <1>3, <1>5
<1> QED
  BY <1>6, <1>8, <1>9 DEF Patches, Reversed, N, E, C, D

LEMMA BackIsAdmissible ==
    ASSUME NEW st \in TraceStates, Indexed(st), NEW p \in Patches, Admissible(st, p, TRUE)
    PROVE  /\ Admissible(Replaced(st, p), Reversed(p), FALSE)
           /\ Replaced(Replaced(st, p), Reversed(p)) = st
<1> DEFINE C == DOMAIN p.nodes
           D == DOMAIN p.entries
           new == Replaced(st, p)
           rev == Reversed(p)
<1>1. Fits(st, p) /\ Lands(p)
  BY PatchFits
<1>2. C \subseteq Ids /\ D \subseteq Entries
  BY <1>1 DEF Fits
<1>3. /\ DOMAIN rev.nodes = C /\ DOMAIN rev.entries = D
      /\ \A id \in C : /\ rev.nodes[id].before = p.nodes[id].after
                       /\ rev.nodes[id].after = p.nodes[id].before
      /\ \A e \in D : /\ rev.entries[e].before = p.entries[e].after
                      /\ rev.entries[e].after = p.entries[e].before
      /\ rev.root.before = p.root.after
      /\ rev.metric.before = p.metric.after
      /\ rev.metric.after = p.metric.before
  BY DEF Reversed, Turned
<1>4. /\ \A id \in C : new.nodes[id] = p.nodes[id].after
      /\ \A e \in D : new.entries[e] = p.entries[e].after
      /\ new.root = p.root.after /\ new.metric = p.metric.after
  BY <1>2 DEF Replaced
<1>5. /\ \A id \in C : ~NoOp(p.nodes[id])
      /\ \A e \in D : ~NoOp(p.entries[e])
      /\ p.metric.after >= p.metric.before
  BY DEF Admissible
<1>6. p.metric.after \in Nat /\ p.metric.before \in Nat
  BY <1>1 DEF Fits, Lands, TraceStates
<1>7. Replaced(new, rev) = st
  BY <1>1, UndoRestores
<1> HIDE DEF new, rev, C, D
<1>8. Admissible(new, rev, FALSE)
  BY <1>3, <1>4, <1>5, <1>6 DEF Admissible, NoOp
<1> QED
  BY <1>7, <1>8 DEF new, rev

LEMMA AffectedTyped ==
    ASSUME NEW p \in Patches
    PROVE  AffectedNodes(p) \subseteq Ids
<1>1. /\ p.root \in Change(Ids \cup {Absent})
      /\ p.nodes \in UNION {[X -> Change(Node \cup {Absent})] : X \in SUBSET Ids}
  BY DEF Patches
<1>2. DOMAIN p.nodes \subseteq Ids
        /\ \A id \in DOMAIN p.nodes : p.nodes[id] \in Change(Node \cup {Absent})
  BY <1>1
<1>3. ValuesOf(p.root) \subseteq Ids
  BY <1>1 DEF ValuesOf, Change
<1>4. ASSUME NEW id \in DOMAIN p.nodes, NEW v \in ValuesOf(p.nodes[id])
      PROVE  v.links \subseteq Ids
  BY <1>2 DEF ValuesOf, Change, Node
<1>5. ASSUME NEW t \in LinkTargets(p) PROVE t \in Ids
  BY <1>4, <1>5 DEF LinkTargets
<1> QED
  BY <1>2, <1>3, <1>5, AffectedParts

\* What is sound and hides nothing is accepted, whatever patch led there.
LEMMA SoundIsAccepted ==
    ASSUME NEW st, Good(st), Hidden(st) = {}, NEW p \in Patches
    PROVE  Accepts(st, p)
<1>1. st \in TraceStates /\ Indexed(st) /\ Resolves(st)
  BY DEF Good
<1>2. AffectedReachable(st, p)
  BY <1>1 DEF AffectedReachable, Hidden, Indexed
<1>3. st.root = Absent \/ st.nodes[st.root] # Absent
  BY <1>1 DEF Resolves
<1>4. ASSUME NEW id, st.nodes[id] = Absent, NEW s \in Ids, <<id, s>> \in st.incoming
      PROVE FALSE
  <2>1. st.nodes[s] # Absent /\ id \in st.nodes[s].links
    BY <1>1, <1>4 DEF Indexed, LinksOf
  <2>2. s \in Present(st.nodes)
    BY <1>1, <2>1, StateParts
  <2> QED
    BY <1>1, <1>4, <2>1, <2>2 DEF Resolves, Present
<1>5. ASSUME NEW e, st.entries[e] = Absent, NEW s \in Ids, <<e, s>> \in st.owners
      PROVE FALSE
  <2>1. st.nodes[s] # Absent /\ e \in st.nodes[s].entries
    BY <1>1, <1>5 DEF Indexed, HeldBy
  <2>2. s \in Present(st.nodes)
    BY <1>1, <2>1, StateParts
  <2> QED
    BY <1>1, <1>5, <2>1, <2>2 DEF Resolves
<1>6. ASSUME NEW id \in AffectedNodes(p), st.nodes[id] # Absent
      PROVE /\ st.nodes[id].links \subseteq Present(st.nodes)
            /\ \A e \in st.nodes[id].entries : st.entries[e] # Absent
  <2>1. AffectedNodes(p) \subseteq Ids
    BY AffectedTyped
  <2>2. id \in Present(st.nodes)
    BY <1>1, <1>6, <2>1, StateParts
  <2> QED
    BY <1>1, <2>2 DEF Resolves
<1>7. ChangedReferencesResolve(st, p)
  BY <1>3, <1>4, <1>5, <1>6 DEF ChangedReferencesResolve
<1> QED
  BY <1>2, <1>7 DEF Accepts

(***************************************************************************)
(* An event that changes nothing.                                          *)
(***************************************************************************)
LEMMA IdleEvent ==
    ASSUME NEW st, Good(st)
    PROVE  /\ Diff(st, st) \in Patches
           /\ Admissible(st, Diff(st, st), TRUE)
           /\ Replaced(st, Diff(st, st)) = st
           /\ Accepts(st, Diff(st, st))
<1> DEFINE d == Diff(st, st)
           new == Replaced(st, d)
<1>1. st \in TraceStates /\ Indexed(st) /\ Resolves(st)
  BY DEF Good
<1>2. d \in Patches
  BY <1>1, DiffIsPatch
<1>3. /\ DOMAIN d.nodes = {} /\ DOMAIN d.entries = {}
      /\ d.root = [before |-> st.root, after |-> st.root]
      /\ d.metric = [before |-> st.metric, after |-> st.metric]
  BY DEF Diff
<1> HIDE DEF d
<1>4. NoOp(d.root)
  BY <1>3 DEF NoOp
<1>5. Admissible(st, d, TRUE)
  BY <1>1, <1>3, StateParts DEF Admissible
<1>6. AffectedNodes(d) = {} /\ AffectedEntries(d) = {}
  <2>1. LinkTargets(d) = {}
    BY <1>3 DEF LinkTargets
  <2>2. UNION {v.entries : v \in UNION {ValuesOf(d.nodes[id]) : id \in DOMAIN d.nodes}} = {}
    BY <1>3
  <2>3. AffectedNodes(d) = {}
    BY <1>3, <1>4, <2>1 DEF AffectedNodes
  <2> QED
    BY <1>3, <2>2, <2>3 DEF AffectedEntries
<1>7. Accepts(st, d)
  BY <1>1, <1>6 DEF Accepts, ChangedReferencesResolve, AffectedReachable, Resolves
<1>8. st = [root |-> st.root, nodes |-> st.nodes, entries |-> st.entries,
            metric |-> st.metric, incoming |-> st.incoming, owners |-> st.owners]
  BY <1>1 DEF TraceStates
<1>9. /\ new.nodes = st.nodes /\ new.entries = st.entries
      /\ new.root = st.root /\ new.metric = st.metric
      /\ new = [root |-> new.root, nodes |-> new.nodes, entries |-> new.entries,
                metric |-> new.metric, incoming |-> new.incoming, owners |-> new.owners]
  BY <1>1, <1>3, StateParts DEF Replaced
<1>10. Indexed(new)
  BY <1>1, <1>3, IndexesMaintained
<1> HIDE DEF new
<1>11. new.incoming = st.incoming /\ new.owners = st.owners
  BY <1>1, <1>9, <1>10 DEF Indexed
<1>12. new = st
  BY <1>8, <1>9, <1>11
<1> QED
  BY <1>2, <1>5, <1>7, <1>12 DEF new, d

(***************************************************************************)
(* The slices of a large transaction.                                      *)
(***************************************************************************)
LEMMA SlicesAddUp ==
    ASSUME NEW st \in TraceStates, NEW p \in Patches, NEW mid, mid = Replaced(st, NodesOnly(st, p))
    PROVE  Replaced(mid, EntriesOnly(mid, p)) = Replaced(st, p)
<1> DEFINE C == DOMAIN p.nodes
           D == DOMAIN p.entries
           first == NodesOnly(st, p)
           rest == EntriesOnly(mid, p)
           new == Replaced(st, p)
           end == Replaced(mid, rest)
<1>0. p = [root |-> p.root, nodes |-> p.nodes, entries |-> p.entries, metric |-> p.metric]
  BY DEF Patches
<1>1. /\ first.nodes = p.nodes /\ first.root = p.root
      /\ DOMAIN first.entries = {} /\ first.metric.after = st.metric
  BY <1>0 DEF NodesOnly
<1>2. /\ DOMAIN rest.nodes = {} /\ rest.entries = p.entries
      /\ rest.root.after = mid.root /\ rest.metric = p.metric
  BY <1>0 DEF EntriesOnly
<1> HIDE DEF first, rest
<1>3. /\ mid.root = p.root.after
      /\ mid.nodes = [id \in Ids |-> IF id \in C THEN p.nodes[id].after ELSE st.nodes[id]]
      /\ mid.entries = [e \in Entries |-> IF e \in {} THEN first.entries[e].after ELSE st.entries[e]]
      /\ mid.incoming = (st.incoming \ LinksOf(st.nodes, C)) \cup LinksOf(mid.nodes, C)
      /\ mid.owners = (st.owners \ HeldBy(st.nodes, C)) \cup HeldBy(mid.nodes, C)
  <2>1. mid = Replaced(st, first)
    BY DEF first
  <2> QED
    BY <1>1, <2>1 DEF Replaced
<1>4. mid.entries = st.entries
  BY <1>3, StateParts
<1>5. /\ new.root = p.root.after /\ new.metric = p.metric.after
      /\ new.nodes = [id \in Ids |-> IF id \in C THEN p.nodes[id].after ELSE st.nodes[id]]
      /\ new.entries = [e \in Entries |-> IF e \in D THEN p.entries[e].after ELSE st.entries[e]]
      /\ new.incoming = (st.incoming \ LinksOf(st.nodes, C)) \cup LinksOf(new.nodes, C)
      /\ new.owners = (st.owners \ HeldBy(st.nodes, C)) \cup HeldBy(new.nodes, C)
      /\ new = [root |-> new.root, nodes |-> new.nodes, entries |-> new.entries,
                metric |-> new.metric, incoming |-> new.incoming, owners |-> new.owners]
  BY DEF Replaced
<1>6. /\ end.root = mid.root /\ end.metric = p.metric.after
      /\ end.nodes = [id \in Ids |-> IF id \in {} THEN rest.nodes[id].after ELSE mid.nodes[id]]
      /\ end.entries = [e \in Entries |-> IF e \in D THEN p.entries[e].after ELSE mid.entries[e]]
      /\ end.incoming = (mid.incoming \ LinksOf(mid.nodes, {})) \cup LinksOf(end.nodes, {})
      /\ end.owners = (mid.owners \ HeldBy(mid.nodes, {})) \cup HeldBy(end.nodes, {})
      /\ end = [root |-> end.root, nodes |-> end.nodes, entries |-> end.entries,
                metric |-> end.metric, incoming |-> end.incoming, owners |-> end.owners]
  BY <1>2 DEF Replaced
<1> HIDE DEF new, end, C, D
<1>7. end.nodes = mid.nodes
  BY <1>3, <1>6
<1>8. LinksOf(mid.nodes, {}) = {} /\ HeldBy(mid.nodes, {}) = {}
  BY DEF LinksOf, HeldBy
<1>9. end.nodes = new.nodes /\ mid.nodes = new.nodes
  BY <1>3, <1>5, <1>7
<1>10. end.incoming = new.incoming /\ end.owners = new.owners
  BY <1>3, <1>5, <1>6, <1>7, <1>8, <1>9
<1>11. end.root = new.root /\ end.metric = new.metric /\ end.entries = new.entries
  BY <1>3, <1>4, <1>5, <1>6
<1> QED
  BY <1>5, <1>6, <1>9, <1>10, <1>11 DEF new, end, rest

-----------------------------------------------------------------------------
(***************************************************************************)
(* The states and the patches of one operation.                            *)
(***************************************************************************)
Linked(h, l, i) ==
    /\ Admissible(h[i], l[i], TRUE)
    /\ h[i + 1] = Replaced(h[i], l[i])
    /\ Accepts(h[i + 1], l[i])

History(h, l) ==
    /\ h \in Seq(TraceStates)
    /\ l \in Seq(Patches)
    /\ Len(h) = Len(l) + 1
    /\ \A i \in 1 .. Len(h) : Good(h[i])
    /\ \A i \in 1 .. Len(l) : Linked(h, l, i)

\* The client replayed the operation backwards as well before it took it over.
Reversible(h, l) == History(h, l) /\ \A i \in 1 .. Len(l) : Accepts(h[i], Reversed(l[i]))

LEMMA HistoryStarts ==
    ASSUME NEW st, Good(st)
    PROVE  History(<<st>>, <<>>)
BY DEF History, Good

LEMMA HistoryGrows ==
    ASSUME NEW h, NEW l, History(h, l), NEW st, st = h[Len(h)],
           NEW p \in Patches, Admissible(st, p, TRUE), Accepts(Replaced(st, p), p)
    PROVE  /\ History(Append(h, Replaced(st, p)), Append(l, p))
           /\ Append(h, Replaced(st, p))[1] = h[1]
           /\ Replaced(st, p) = Last(Append(h, Replaced(st, p)))
<1> DEFINE n == Len(l)
           new == Replaced(st, p)
           H == Append(h, new)
           L == Append(l, p)
<1>1. /\ h \in Seq(TraceStates) /\ l \in Seq(Patches) /\ n \in Nat /\ Len(h) = n + 1
      /\ \A i \in 1 .. Len(h) : Good(h[i])
      /\ \A i \in 1 .. n : Linked(h, l, i)
  BY DEF History
<1>2. Good(st)
  BY <1>1
<1>3. Good(new)
  BY <1>2, AcceptedGood
<1>4. new \in TraceStates
  BY <1>3 DEF Good
<1> HIDE DEF new
<1>5. /\ H \in Seq(TraceStates) /\ L \in Seq(Patches) /\ Len(H) = n + 2 /\ Len(L) = n + 1
      /\ \A i \in 1 .. (n + 1) : H[i] = h[i]
      /\ H[n + 2] = new
      /\ \A i \in 1 .. n : L[i] = l[i]
      /\ L[n + 1] = p
  BY <1>1, <1>4
<1> HIDE DEF n, H, L
<1>6. \A i \in 1 .. Len(H) : Good(H[i])
  BY <1>1, <1>3, <1>5
<1>7. ASSUME NEW i \in 1 .. (n + 1) PROVE Linked(H, L, i)
  <2>1. CASE i = n + 1
    <3>1. H[i] = st /\ H[i + 1] = new /\ L[i] = p
      BY <1>1, <1>5, <2>1
    <3> QED
      BY <3>1 DEF Linked, new
  <2>2. CASE i # n + 1
    <3>1. i \in 1 .. n /\ H[i] = h[i] /\ H[i + 1] = h[i + 1] /\ L[i] = l[i]
      BY <1>1, <1>5, <2>2
    <3>2. Linked(h, l, i)
      BY <1>1, <3>1
    <3> QED
      BY <3>1, <3>2 DEF Linked
  <2> QED
    BY <2>1, <2>2
<1>8. History(H, L)
  BY <1>1, <1>5, <1>6, <1>7 DEF History
<1>9. H[1] = h[1] /\ new = Last(H)
  BY <1>1, <1>5 DEF Last
<1> QED
  BY <1>8, <1>9 DEF H, L, new

(***************************************************************************)
(* One event forwards or backwards.                                        *)
(***************************************************************************)
LEMMA OneEvent ==
    ASSUME NEW h, NEW l, Reversible(h, l), NEW a \in 0 .. Len(l), NEW c \in 0 .. Len(l), a # c,
           NEW p, p = (IF a < c THEN l[a + 1] ELSE Reversed(l[a])),
           NEW b, b = (IF a < c THEN a + 1 ELSE a - 1)
    PROVE  /\ b \in 0 .. Len(l)
           /\ p \in Patches
           /\ h[a + 1] \in TraceStates
           /\ Replaced(h[a + 1], p) = h[b + 1]
           /\ ClientApply(h[a + 1], p, a < c) = [ok |-> TRUE, state |-> h[b + 1]]
<1> DEFINE n == Len(l)
<1>1. /\ h \in Seq(TraceStates) /\ l \in Seq(Patches) /\ n \in Nat /\ Len(h) = n + 1
      /\ \A i \in 1 .. Len(h) : Good(h[i])
      /\ \A i \in 1 .. n : Linked(h, l, i) /\ Accepts(h[i], Reversed(l[i]))
  BY DEF History, Reversible
<1>2. b \in 0 .. n /\ a + 1 \in 1 .. (n + 1)
  BY <1>1
<1>3. h[a + 1] \in TraceStates
  BY <1>1, <1>2
<1>4. CASE a < c
  <2>1. a + 1 \in 1 .. n /\ p = l[a + 1] /\ b = a + 1
    BY <1>1, <1>4
  <2>2. Linked(h, l, a + 1) /\ p \in Patches
    BY <1>1, <2>1
  <2>3. /\ Admissible(h[a + 1], p, TRUE) /\ h[b + 1] = Replaced(h[a + 1], p)
        /\ Accepts(h[b + 1], p)
    BY <2>1, <2>2 DEF Linked
  <2> QED
    BY <1>2, <1>3, <1>4, <2>2, <2>3 DEF ClientApply
<1>5. CASE ~(a < c)
  <2>1. a \in 1 .. n /\ p = Reversed(l[a]) /\ b + 1 = a
    BY <1>1, <1>5
  <2>2. Linked(h, l, a) /\ Accepts(h[a], p) /\ l[a] \in Patches /\ Good(h[a])
    BY <1>1, <2>1
  <2>3. p \in Patches
    BY <2>1, <2>2, ReversedIsPatch
  <2>4. /\ Admissible(Replaced(h[a], l[a]), p, FALSE)
        /\ Replaced(Replaced(h[a], l[a]), p) = h[a]
    BY <2>1, <2>2, BackIsAdmissible DEF Good, Linked
  <2>5. Admissible(h[a + 1], p, FALSE) /\ Replaced(h[a + 1], p) = h[a]
    BY <2>2, <2>4 DEF Linked
  <2>6. ClientApply(h[a + 1], p, FALSE) = [ok |-> TRUE, state |-> h[a]]
    BY <2>2, <2>5 DEF ClientApply
  <2>7. (a < c) = FALSE /\ h[b + 1] = h[a]
    BY <1>5, <2>1
  <2> QED
    BY <1>2, <1>3, <2>3, <2>5, <2>6, <2>7
<1> QED
  BY <1>4, <1>5

(***************************************************************************)
(* What the client computes when it opens a commit.                        *)
(***************************************************************************)
LEMMA WalkIsHistory ==
    ASSUME History(hist, log), NEW base, base = hist[1]
    PROVE  \A i \in 0 .. Len(log) : Walk(base)[i] = hist[i + 1]
<1> DEFINE n == Len(log)
           Step(f, i) == IF i = 0 THEN base ELSE Replaced(f[i - 1], log[i])
           g == [i \in 0 .. n |-> hist[i + 1]]
           w == Walk(base)
<1>1. n \in Nat /\ Len(hist) = n + 1 /\ \A i \in 1 .. n : hist[i + 1] = Replaced(hist[i], log[i])
  <2>1. log \in Seq(Patches) /\ Len(hist) = n + 1 /\ \A i \in 1 .. n : Linked(hist, log, i)
    BY DEF History
  <2>2. n \in Nat
    BY <2>1
  <2>3. \A i \in 1 .. n : hist[i + 1] = Replaced(hist[i], log[i])
    BY <2>1 DEF Linked
  <2> QED
    BY <2>1, <2>2, <2>3
<1>2. g = [i \in 0 .. n |-> Step(g, i)]
  <2>1. \A i \in 0 .. n : g[i] = Step(g, i)
    BY <1>1
  <2> QED
    BY <2>1
<1>3. w = CHOOSE f : f = [i \in 0 .. n |-> Step(f, i)]
  BY DEF Walk
<1> HIDE DEF g, w, n
<1>4. w = [i \in 0 .. n |-> Step(w, i)]
  BY <1>2, <1>3
<1>5. \A i \in 0 .. n : w[i] = Step(w, i)
  BY <1>4
<1> DEFINE good == {i \in 0 .. n : w[i] = hist[i + 1]}
<1>6. 0 \in good
  BY <1>1, <1>5
<1>7. ASSUME NEW i \in 0 .. n, i > 0, i - 1 \in good PROVE i \in good
  <2>1. w[i] = Replaced(w[i - 1], log[i])
    BY <1>5, <1>7
  <2>2. w[i - 1] = hist[i]
    BY <1>1, <1>7
  <2>3. hist[i + 1] = Replaced(hist[i], log[i])
    BY <1>1, <1>7 DEF n
  <2> QED
    BY <2>1, <2>2, <2>3
<1> HIDE DEF good
<1>8. 0 .. n \subseteq good
  BY <1>1, <1>6, <1>7, UpToInduction
<1> QED
  BY <1>8 DEF good, n, w

LEMMA ReplayChecksBothWays ==
    ASSUME History(hist, log), NEW base, base = hist[1]
    PROVE  /\ Replayable(base) => Reversible(hist, log)
           /\ ~Replayable(base) => \E i \in 1 .. Len(hist) : Hidden(hist[i]) # {}
<1>1. /\ hist \in Seq(TraceStates) /\ log \in Seq(Patches) /\ Len(hist) = Len(log) + 1
      /\ \A i \in 1 .. Len(hist) : Good(hist[i])
      /\ \A i \in 1 .. Len(log) : Linked(hist, log, i)
  BY DEF History
<1>2. ASSUME NEW i \in 1 .. Len(log)
      PROVE  /\ Walk(base)[i - 1] = hist[i] /\ Walk(base)[i] = hist[i + 1]
             /\ ClientApply(hist[i], log[i], TRUE).ok
             /\ ClientApply(hist[i + 1], Reversed(log[i]), FALSE).ok
                  <=> Accepts(hist[i], Reversed(log[i]))
  <2>1. i \in 0 .. Len(log) /\ i - 1 \in 0 .. Len(log) /\ (i - 1) + 1 = i
          /\ i \in 1 .. Len(hist)
    BY <1>1
  <2>2. Walk(base)[i - 1] = hist[i] /\ Walk(base)[i] = hist[i + 1]
    BY <2>1, WalkIsHistory
  <2>3. Linked(hist, log, i) /\ Good(hist[i]) /\ log[i] \in Patches
    BY <1>1, <2>1
  <2>4. /\ Admissible(Replaced(hist[i], log[i]), Reversed(log[i]), FALSE)
        /\ Replaced(Replaced(hist[i], log[i]), Reversed(log[i])) = hist[i]
    BY <2>3, BackIsAdmissible DEF Good, Linked
  <2>5. /\ Admissible(hist[i + 1], Reversed(log[i]), FALSE)
        /\ Replaced(hist[i + 1], Reversed(log[i])) = hist[i]
    BY <2>3, <2>4 DEF Linked
  <2>6. ClientApply(hist[i], log[i], TRUE).ok
    BY <2>3 DEF Linked, ClientApply
  <2>7. ClientApply(hist[i + 1], Reversed(log[i]), FALSE).ok
          <=> Accepts(hist[i], Reversed(log[i]))
    <3>1. CASE Accepts(hist[i], Reversed(log[i]))
      BY <2>5, <3>1 DEF ClientApply
    <3>2. CASE ~Accepts(hist[i], Reversed(log[i]))
      BY <2>5, <3>2 DEF ClientApply
    <3> QED
      BY <3>1, <3>2
  <2> QED
    BY <2>2, <2>6, <2>7
<1>3. Replayable(base) <=> \A i \in 1 .. Len(log) : Accepts(hist[i], Reversed(log[i]))
  BY <1>2 DEF Replayable
<1>4. ASSUME ~Replayable(base) PROVE \E i \in 1 .. Len(hist) : Hidden(hist[i]) # {}
  <2>1. PICK i \in 1 .. Len(log) : ~Accepts(hist[i], Reversed(log[i]))
    BY <1>3, <1>4
  <2>2. i \in 1 .. Len(hist) /\ Good(hist[i]) /\ log[i] \in Patches
    BY <1>1
  <2>3. Reversed(log[i]) \in Patches
    BY <2>2, ReversedIsPatch
  <2>4. Hidden(hist[i]) # {}
    BY <2>1, <2>2, <2>3, SoundIsAccepted
  <2> QED
    BY <2>2, <2>4
<1> QED
  BY <1>3, <1>4 DEF Reversible

-----------------------------------------------------------------------------
(***************************************************************************)
(* The engine and the client, and what ties one to the other.              *)
(***************************************************************************)
EngineInv == History(hist, log) /\ shadow = hist[Len(hist)]

PositionInv ==
    /\ at \in 0 .. Len(clog) /\ cursor \in 0 .. Len(clog) /\ shown.at \in 0 .. Len(clog)
    /\ shown.state = chist[shown.at + 1]
    /\ pending \in BOOLEAN /\ fault \in BOOLEAN
    /\ pending => queue = <<cursor>> /\ live = TRUE /\ phase = "browsing" /\ ~fault
    /\ ~pending => queue = <<>> /\ at = cursor /\ shown.at = cursor

\* A half applied patch is the one that leads towards the cursor.
Toward == IF at < cursor THEN clog[at + 1] ELSE Reversed(clog[at])
HalfInv ==
    /\ half = Whole => cli = chist[at + 1]
    /\ half # Whole => /\ pending /\ at # cursor /\ half = Toward
                       /\ cli = Replaced(chist[at + 1], NodesOnly(chist[at + 1], half))

ClientInv == Reversible(chist, clog) /\ PositionInv /\ HalfInv

JointInv ==
    /\ phase \in {"recording", "delivered", "browsing", "failed"}
    /\ phase # "browsing" => /\ hist[1] = chist[Len(chist)] /\ cursor = Len(clog)
                             /\ ~fault /\ ~pending
    /\ phase = "browsing" /\ ~fault => chist = hist /\ clog = log
    /\ fault => \E i \in 1 .. Len(hist) : Hidden(hist[i]) # {}

FollowInv == EngineInv /\ ClientInv /\ JointInv

FollowVars == <<phase, shadow, log, hist, controller, page>>

LEMMA FollowUnchanged == FollowInv /\ UNCHANGED FollowVars => FollowInv'
<1> SUFFICES ASSUME FollowInv, UNCHANGED FollowVars PROVE FollowInv'
  OBVIOUS
<1>1. /\ phase' = phase /\ shadow' = shadow /\ log' = log /\ hist' = hist
      /\ cli' = cli /\ clog' = clog /\ at' = at /\ half' = half /\ queue' = queue
      /\ chist' = chist /\ live' = live /\ pending' = pending /\ cursor' = cursor
      /\ shown' = shown /\ fault' = fault
  BY DEF FollowVars, controller, page
<1>2. EngineInv'
  BY <1>1 DEF FollowInv, EngineInv, History, Linked
<1>3. ClientInv'
  BY <1>1 DEF FollowInv, ClientInv, Reversible, History, Linked, PositionInv, HalfInv, Toward, Whole
<1>4. JointInv'
  BY <1>1 DEF FollowInv, JointInv
<1> QED
  BY <1>2, <1>3, <1>4 DEF FollowInv

LEMMA FollowInit == Init => FollowInv
<1> SUFFICES ASSUME Init PROVE FollowInv
  OBVIOUS
<1>1. shadow \in Bases /\ Good(shadow)
  BY BasesAssumption, FullyValidGood DEF Init
<1>2. History(<<shadow>>, <<>>)
  BY <1>1, HistoryStarts
<1>3. Reversible(<<shadow>>, <<>>)
  BY <1>2 DEF Reversible
<1>4. EngineInv
  BY <1>2 DEF Init, EngineInv
<1>6. shown.at = 0 /\ shown.state = shadow /\ chist[1] = shadow /\ Len(clog) = 0
        /\ hist[1] = shadow /\ Len(chist) = 1 /\ chist[0 + 1] = shadow
        /\ at = 0 /\ cursor = 0 /\ queue = <<>> /\ pending = FALSE /\ fault = FALSE
  BY DEF Init
<1>5. PositionInv /\ HalfInv /\ JointInv
  <2>1. PositionInv
    <3>1. 0 \in 0 .. Len(clog)
      BY <1>6
    <3> QED
      BY <1>6, <3>1 DEF PositionInv
  <2>2. HalfInv
    BY <1>6 DEF Init, HalfInv
  <2>3. JointInv
    BY <1>6 DEF Init, JointInv
  <2> QED
    BY <2>1, <2>2, <2>3
<1> QED
  BY <1>3, <1>4, <1>5 DEF FollowInv, ClientInv, Init

-----------------------------------------------------------------------------
(***************************************************************************)
(* The steps of the recorder.                                              *)
(***************************************************************************)
LEMMA RecordedStep ==
    ASSUME FollowInv, phase = "recording", NEW new, NEW p,
           History(Append(hist, new), Append(log, p)), Append(hist, new)[1] = hist[1],
           new = Last(Append(hist, new)),
           shadow' = new, log' = Append(log, p), hist' = Append(hist, new),
           UNCHANGED <<phase, controller, page>>
    PROVE  FollowInv'
<1>1. EngineInv'
  BY DEF EngineInv, Last
<1>2. ClientInv'
  BY DEF FollowInv, ClientInv, Reversible, History, Linked, PositionInv, HalfInv, Toward, Whole,
         controller, page
<1>3. hist'[1] = hist[1]
  OBVIOUS
<1>4. JointInv'
  BY <1>3 DEF FollowInv, JointInv, controller, page
<1> QED
  BY <1>1, <1>2, <1>4 DEF FollowInv

LEMMA FollowTransition ==
    ASSUME FollowInv, NEW p \in Patches, RecordTransition(p)
    PROVE  FollowInv'
<1> DEFINE result == Apply(shadow, p, TRUE)
<1>1. History(hist, log) /\ shadow = hist[Len(hist)] /\ shadow \in TraceStates /\ Indexed(shadow)
  BY DEF FollowInv, EngineInv, History, Good
<1>2. /\ result.ok \in BOOLEAN
      /\ result.state = IF result.ok THEN Replaced(shadow, p) ELSE shadow
      /\ result.ok => Admissible(shadow, p, TRUE) /\ Accepts(Replaced(shadow, p), p)
  BY <1>1, ApplyAllOrNothing
<1>3. /\ shadow' = result.state
      /\ IF result.ok THEN log' = Append(log, p) /\ hist' = Append(hist, Replaced(shadow, p))
                      ELSE log' = log /\ hist' = hist
      /\ phase = "recording"
      /\ UNCHANGED <<phase, controller, page>>
  BY DEF RecordTransition, MayRecord
<1> HIDE DEF result
<1>4. CASE result.ok
  <2> DEFINE new == Replaced(shadow, p)
  <2>1. /\ History(Append(hist, new), Append(log, p))
        /\ Append(hist, new)[1] = hist[1] /\ new = Last(Append(hist, new))
    BY <1>1, <1>2, <1>4, HistoryGrows
  <2>2. shadow' = new /\ log' = Append(log, p) /\ hist' = Append(hist, new)
    BY <1>2, <1>3, <1>4
  <2> HIDE DEF new
  <2> QED
    BY <1>3, <2>1, <2>2, RecordedStep
<1>5. CASE ~result.ok
  <2>1. UNCHANGED FollowVars
    BY <1>2, <1>3, <1>5 DEF FollowVars
  <2> QED
    BY <2>1, FollowUnchanged
<1> QED
  BY <1>2, <1>4, <1>5

LEMMA FollowEvent == FollowInv /\ RecordEvent => FollowInv'
<1> SUFFICES ASSUME FollowInv, RecordEvent PROVE FollowInv'
  OBVIOUS
<1> DEFINE d == Diff(shadow, shadow)
<1>1. History(hist, log) /\ shadow = hist[Len(hist)] /\ Good(shadow)
  BY DEF FollowInv, EngineInv, History
<1>2. /\ d \in Patches /\ Admissible(shadow, d, TRUE)
      /\ Replaced(shadow, d) = shadow /\ Accepts(shadow, d)
  BY <1>1, IdleEvent
<1>3. /\ shadow' = shadow /\ log' = Append(log, d) /\ hist' = Append(hist, shadow)
      /\ phase = "recording" /\ UNCHANGED <<phase, controller, page>>
  BY DEF RecordEvent, MayRecord
<1> HIDE DEF d
<1>4. /\ History(Append(hist, Replaced(shadow, d)), Append(log, d))
      /\ Append(hist, Replaced(shadow, d))[1] = hist[1]
      /\ Replaced(shadow, d) = Last(Append(hist, Replaced(shadow, d)))
  BY <1>1, <1>2, HistoryGrows
<1> QED
  BY <1>2, <1>3, <1>4, RecordedStep

LEMMA FollowFinish == FollowInv /\ Finish => FollowInv'
<1> SUFFICES ASSUME FollowInv, Finish PROVE FollowInv'
  OBVIOUS
<1>1. EngineInv'
  BY DEF FollowInv, EngineInv, History, Linked, Finish
<1>2. ClientInv'
  BY DEF FollowInv, ClientInv, Reversible, History, Linked, PositionInv, HalfInv, Toward, Whole,
         controller, page, Finish, JointInv
<1>3. phase = "recording" /\ phase' \in {"delivered", "failed"}
  BY DEF Finish
<1>4. UNCHANGED <<hist, log, chist, clog, cursor, fault, pending>>
  BY DEF Finish, controller, page
<1>5. JointInv'
  BY <1>3, <1>4 DEF FollowInv, JointInv
<1> QED
  BY <1>1, <1>2, <1>5 DEF FollowInv

LEMMA FollowNextOperation == FollowInv /\ NextOperation => FollowInv'
<1> SUFFICES ASSUME FollowInv, NextOperation PROVE FollowInv'
  OBVIOUS
<1>1. /\ phase = "browsing" /\ ~fault /\ ~pending /\ cursor = Len(clog)
      /\ phase' = "recording" /\ log' = <<>> /\ hist' = <<shadow>> /\ shadow' = shadow
      /\ UNCHANGED <<controller, page>>
  BY DEF NextOperation, MayMove
<1>2. Good(shadow) /\ shadow = hist[Len(hist)] /\ chist = hist
  BY <1>1 DEF FollowInv, EngineInv, History, JointInv
<1>3. History(hist', log')
  BY <1>1, <1>2, HistoryStarts
<1>4. EngineInv'
  BY <1>1, <1>3 DEF EngineInv
<1>5. ClientInv'
  BY <1>1 DEF FollowInv, ClientInv, Reversible, History, Linked, PositionInv, HalfInv, Toward,
              Whole, controller, page
<1>6. UNCHANGED <<chist, clog, cursor, fault, pending>>
  BY <1>1 DEF controller, page
<1>7. JointInv'
  BY <1>1, <1>2, <1>6 DEF JointInv
<1> QED
  BY <1>4, <1>5, <1>7 DEF FollowInv

-----------------------------------------------------------------------------
(***************************************************************************)
(* The steps of the client.                                                *)
(***************************************************************************)
LEMMA FollowOpen ==
    ASSUME FollowInv, NEW first \in 1 .. Len(log), NEW large \in BOOLEAN, Open(first, large)
    PROVE  FollowInv'
<1> DEFINE base == CreateBase(large)
<1>1. /\ phase = "delivered" /\ ~fault /\ phase' = "browsing"
      /\ UNCHANGED <<shadow, log, hist, total, live, pending>>
  BY DEF Open, controller
<1>2. /\ hist[1] = chist[Len(chist)] /\ cursor = Len(clog) /\ ~pending
  BY <1>1 DEF FollowInv, JointInv
<1>3. /\ queue = <<>> /\ at = cursor /\ shown.at = cursor /\ half = Whole
      /\ cli = chist[at + 1] /\ shown.state = chist[shown.at + 1]
      /\ Len(chist) = Len(clog) + 1 /\ pending = FALSE
  BY <1>2 DEF FollowInv, ClientInv, PositionInv, HalfInv, Reversible, History
<1>4. base = hist[1]
  BY <1>2, <1>3 DEF CreateBase
<1>5. History(hist, log) /\ shadow = hist[Len(hist)]
  BY DEF FollowInv, EngineInv
<1> HIDE DEF base
<1>6. /\ Replayable(base) => Reversible(hist, log)
      /\ ~Replayable(base) => \E i \in 1 .. Len(hist) : Hidden(hist[i]) # {}
  BY <1>4, <1>5, ReplayChecksBothWays
<1>7. EngineInv'
  BY <1>1, <1>5 DEF EngineInv, History, Linked
<1>8. CASE Replayable(base)
  <2>1. /\ cli' = Walk(base)[first] /\ clog' = log /\ chist' = hist /\ at' = first
        /\ half' = Whole /\ queue' = <<>> /\ cursor' = first
        /\ shown' = [at |-> first, state |-> Walk(base)[first]]
        /\ UNCHANGED fault
    BY <1>8 DEF Open, base
  <2>2. first \in 0 .. Len(log) /\ Walk(base)[first] = hist[first + 1]
    BY <1>4, <1>5, WalkIsHistory
  <2>3. Reversible(chist', clog')
    BY <1>6, <1>8, <2>1
  <2>7. /\ shown'.at = first /\ shown'.state = hist[first + 1]
        /\ pending' = FALSE /\ fault' = FALSE
    BY <1>1, <1>3, <2>1, <2>2 DEF FollowInv, ClientInv, PositionInv
  <2>4. PositionInv'
    BY <2>1, <2>2, <2>7 DEF PositionInv
  <2>5. HalfInv'
    BY <2>1, <2>2 DEF HalfInv, Whole
  <2>6. JointInv'
    BY <1>1, <2>1 DEF JointInv
  <2> QED
    BY <1>7, <2>3, <2>4, <2>5, <2>6 DEF FollowInv, ClientInv
<1>9. CASE ~Replayable(base)
  <2>1. fault' = TRUE /\ UNCHANGED <<controller, live, pending, cursor, shown>>
    BY <1>9 DEF Open, base
  <2>2. ClientInv'
    BY <1>1, <1>3, <2>1 DEF FollowInv, ClientInv, Reversible, History, Linked, PositionInv,
                            HalfInv, Toward, Whole, controller
  <2>3. JointInv'
    BY <1>1, <1>6, <1>9, <2>1 DEF JointInv
  <2> QED
    BY <1>7, <2>2, <2>3 DEF FollowInv
<1> QED
  BY <1>8, <1>9

-----------------------------------------------------------------------------
LEMMA FollowMoveTo ==
    ASSUME FollowInv, NEW target \in 1 .. Len(clog), MoveTo(target)
    PROVE  FollowInv'
<1>1. /\ phase = "browsing" /\ ~fault /\ ~pending /\ target # cursor
      /\ cursor' = target
      /\ UNCHANGED <<engine, cli, clog, at, half, chist, fault>>
  BY DEF MoveTo, MayMove
<1>2. queue = <<>> /\ at = cursor /\ half = Whole /\ shown.at \in 0 .. Len(clog)
        /\ at \in 0 .. Len(clog) /\ fault \in BOOLEAN /\ shown.state = chist[shown.at + 1]
        /\ cli = chist[at + 1] /\ Reversible(chist, clog)
  BY <1>1 DEF FollowInv, ClientInv, PositionInv, HalfInv
<1>3. pending' = TRUE /\ live' = TRUE /\ queue' = <<target>> /\ shown' = shown
  BY <1>1, <1>2 DEF MoveTo
<1>4. /\ phase' = phase /\ shadow' = shadow /\ log' = log /\ hist' = hist
      /\ cli' = cli /\ clog' = clog /\ at' = at /\ half' = half
      /\ chist' = chist /\ fault' = fault
  BY <1>1 DEF engine
<1>5. EngineInv'
  BY <1>4 DEF FollowInv, EngineInv, History, Linked
<1>6. Reversible(chist', clog')
  BY <1>2, <1>4
<1>7. PositionInv'
  BY <1>1, <1>2, <1>3, <1>4 DEF PositionInv
<1>8. HalfInv'
  BY <1>2, <1>4 DEF HalfInv, Whole
<1>9. JointInv'
  BY <1>1, <1>4 DEF FollowInv, JointInv
<1> QED
  BY <1>5, <1>6, <1>7, <1>8, <1>9 DEF FollowInv, ClientInv

\* Wherever the loop of a move stands, the next event is one that the client
\* accepts and that leads one event closer.
LEMMA NextEvent ==
    ASSUME FollowInv, Moving
    PROVE  /\ pending = TRUE /\ queue = <<cursor>> /\ at # cursor
           /\ NextPatch = Toward /\ NextPatch \in Patches /\ NextPatch # Whole
           /\ Advanced \in 0 .. Len(clog)
           /\ chist[at + 1] \in TraceStates
           /\ Replaced(chist[at + 1], NextPatch) = chist[Advanced + 1]
           /\ ClientApply(chist[at + 1], NextPatch, Forwards) =
                [ok |-> TRUE, state |-> chist[Advanced + 1]]
<1>1. /\ Reversible(chist, clog) /\ at \in 0 .. Len(clog) /\ cursor \in 0 .. Len(clog)
      /\ queue # <<>> /\ at # Head(queue) /\ pending \in BOOLEAN
      /\ pending => queue = <<cursor>>
      /\ ~pending => queue = <<>>
  BY DEF FollowInv, ClientInv, PositionInv, Moving
<1>2. pending = TRUE /\ queue = <<cursor>> /\ Head(queue) = cursor /\ at # cursor
  BY <1>1
<1>3. /\ NextPatch = IF at < cursor THEN clog[at + 1] ELSE Reversed(clog[at])
      /\ Advanced = IF at < cursor THEN at + 1 ELSE at - 1
      /\ Forwards = (at < cursor)
  BY <1>2 DEF NextPatch, Advanced, Forwards
<1> DEFINE p == NextPatch
           b == Advanced
           f == Forwards
<1> HIDE DEF p, b, f
<1>4. /\ p = IF at < cursor THEN clog[at + 1] ELSE Reversed(clog[at])
      /\ b = IF at < cursor THEN at + 1 ELSE at - 1
      /\ f = (at < cursor)
  BY <1>3 DEF p, b, f
<1>5. /\ b \in 0 .. Len(clog) /\ p \in Patches /\ chist[at + 1] \in TraceStates
      /\ Replaced(chist[at + 1], p) = chist[b + 1]
      /\ ClientApply(chist[at + 1], p, at < cursor) = [ok |-> TRUE, state |-> chist[b + 1]]
  BY <1>1, <1>2, <1>4, OneEvent
<1>6. p = Toward /\ p # Whole
  BY <1>4, <1>5, PatchAssumption DEF Toward, Whole
<1> QED
  BY <1>2, <1>4, <1>5, <1>6 DEF p, b, f

\* What a turn of the loop leaves alone.
Aside == <<engine, clog, queue, chist, live, pending, cursor, shown, fault>>

LEMMA FollowTurn ==
    ASSUME FollowInv, Moving, UNCHANGED Aside, at' \in 0 .. Len(clog), HalfInv'
    PROVE  FollowInv'
<1>1. /\ phase' = phase /\ shadow' = shadow /\ log' = log /\ hist' = hist
      /\ clog' = clog /\ queue' = queue
      /\ chist' = chist /\ live' = live /\ pending' = pending /\ cursor' = cursor
      /\ shown' = shown /\ fault' = fault
  BY DEF Aside, engine
<1>2. pending = TRUE
  BY NextEvent
<1>3. EngineInv'
  BY <1>1 DEF FollowInv, EngineInv, History, Linked
<1>4. Reversible(chist', clog') /\ PositionInv'
  BY <1>1, <1>2 DEF FollowInv, ClientInv, PositionInv
<1>5. JointInv'
  BY <1>1 DEF FollowInv, JointInv
<1> QED
  BY <1>3, <1>4, <1>5 DEF FollowInv, ClientInv

LEMMA FollowMoveOne == FollowInv /\ MoveOne => FollowInv'
<1> SUFFICES ASSUME FollowInv, MoveOne PROVE FollowInv'
  OBVIOUS
<1>1. Moving /\ half = Whole /\ UNCHANGED <<engine, clog, half, queue, chist, live, pending, cursor, shown>>
  BY DEF MoveOne
<1>2. cli = chist[at + 1]
  BY <1>1 DEF FollowInv, ClientInv, HalfInv
<1>3. /\ Advanced \in 0 .. Len(clog)
      /\ ClientApply(cli, NextPatch, Forwards) = [ok |-> TRUE, state |-> chist[Advanced + 1]]
  BY <1>1, <1>2, NextEvent
<1>4. cli' = chist[Advanced + 1] /\ at' = Advanced /\ fault' = fault
  BY <1>3 DEF MoveOne
<1>5. HalfInv'
  BY <1>1, <1>4 DEF HalfInv, Whole
<1>6. UNCHANGED Aside
  BY <1>1, <1>4 DEF Aside
<1> QED
  BY <1>1, <1>3, <1>4, <1>5, <1>6, FollowTurn

LEMMA FollowMoveHalf == FollowInv /\ MoveHalf => FollowInv'
<1> SUFFICES ASSUME FollowInv, MoveHalf PROVE FollowInv'
  OBVIOUS
<1>1. /\ Moving /\ half = Whole /\ half' = NextPatch
      /\ cli' = Replaced(cli, NodesOnly(cli, NextPatch))
      /\ UNCHANGED <<engine, clog, at, queue, chist, page>>
  BY DEF MoveHalf
<1>2. cli = chist[at + 1] /\ at \in 0 .. Len(clog)
  BY <1>1 DEF FollowInv, ClientInv, HalfInv, PositionInv
<1>3. pending = TRUE /\ at # cursor /\ NextPatch = Toward /\ NextPatch # Whole
  BY <1>1, NextEvent
<1>4. UNCHANGED <<at, cursor, clog, chist, pending>>
  BY <1>1 DEF page
<1>5. Toward' = Toward
  BY <1>4 DEF Toward
<1>6. HalfInv'
  BY <1>1, <1>2, <1>3, <1>4, <1>5 DEF HalfInv, Whole
<1>7. UNCHANGED Aside /\ at' \in 0 .. Len(clog)
  BY <1>1, <1>2 DEF Aside, page
<1> QED
  BY <1>1, <1>6, <1>7, FollowTurn

LEMMA FollowMoveRest == FollowInv /\ MoveRest => FollowInv'
<1> SUFFICES ASSUME FollowInv, MoveRest PROVE FollowInv'
  OBVIOUS
<1>1. /\ Moving /\ half # Whole /\ half' = Whole /\ at' = Advanced
      /\ cli' = Replaced(cli, EntriesOnly(cli, half))
      /\ UNCHANGED <<engine, clog, queue, chist, page>>
  BY DEF MoveRest
<1>2. half = Toward /\ cli = Replaced(chist[at + 1], NodesOnly(chist[at + 1], half))
  BY <1>1 DEF FollowInv, ClientInv, HalfInv
<1>3. /\ NextPatch = Toward /\ NextPatch \in Patches /\ Advanced \in 0 .. Len(clog)
      /\ chist[at + 1] \in TraceStates
      /\ Replaced(chist[at + 1], NextPatch) = chist[Advanced + 1]
  BY <1>1, NextEvent
<1>4. Replaced(cli, EntriesOnly(cli, half)) = Replaced(chist[at + 1], half)
  BY <1>2, <1>3, SlicesAddUp
<1>5. cli' = chist[at' + 1]
  BY <1>1, <1>2, <1>3, <1>4
<1>6. HalfInv'
  BY <1>1, <1>5 DEF HalfInv, Whole
<1>7. UNCHANGED Aside
  BY <1>1 DEF Aside, page
<1> QED
  BY <1>1, <1>3, <1>6, <1>7, FollowTurn

LEMMA FollowMoveDone == FollowInv /\ MoveDone => FollowInv'
<1> SUFFICES ASSUME FollowInv, MoveDone PROVE FollowInv'
  OBVIOUS
<1>1. /\ phase = "browsing" /\ ~fault /\ queue # <<>> /\ at = Head(queue)
      /\ queue' = Tail(queue)
      /\ UNCHANGED <<engine, cli, clog, at, half, chist, cursor, fault>>
  BY DEF MoveDone
<1>2. /\ Reversible(chist, clog) /\ at \in 0 .. Len(clog) /\ pending \in BOOLEAN
      /\ fault \in BOOLEAN
      /\ pending => queue = <<cursor>> /\ live = TRUE
      /\ ~pending => queue = <<>>
      /\ half = Whole => cli = chist[at + 1]
      /\ half # Whole => at # cursor
  BY DEF FollowInv, ClientInv, PositionInv, HalfInv
<1>3. queue = <<cursor>> /\ live = TRUE
  BY <1>1, <1>2
<1>4. at = cursor /\ queue' = <<>> /\ Len(queue) = 1
  BY <1>1, <1>3
<1>5. half = Whole /\ cli = chist[at + 1]
  BY <1>2, <1>4
<1>6. shown' = [at |-> at, state |-> cli] /\ pending' = FALSE
  BY <1>3, <1>4 DEF MoveDone
<1>7. shown'.at = at /\ shown'.state = cli
  BY <1>6
<1>8. /\ phase' = phase /\ shadow' = shadow /\ log' = log /\ hist' = hist
      /\ cli' = cli /\ clog' = clog /\ at' = at /\ half' = half
      /\ chist' = chist /\ cursor' = cursor /\ fault' = fault
  BY <1>1 DEF engine
<1>9. EngineInv'
  BY <1>8 DEF FollowInv, EngineInv, History, Linked
<1>10. Reversible(chist', clog')
  BY <1>2, <1>8
<1>11. PositionInv'
  BY <1>2, <1>4, <1>5, <1>6, <1>7, <1>8 DEF PositionInv
<1>12. HalfInv'
  BY <1>5, <1>8 DEF HalfInv, Whole
<1>13. JointInv'
  BY <1>1, <1>8 DEF FollowInv, JointInv
<1> QED
  BY <1>9, <1>10, <1>11, <1>12, <1>13 DEF FollowInv, ClientInv

-----------------------------------------------------------------------------
(***************************************************************************)
(* THE INVARIANT of the two sides together.                                *)
(***************************************************************************)
LEMMA Following == Spec => []FollowInv
<1>1. FollowInv /\ [Next]_vars => FollowInv'
  <2> SUFFICES ASSUME FollowInv, [Next]_vars PROVE FollowInv'
    OBVIOUS
  <2>1. ASSUME NEW to \in Targets(shadow), to \in TraceStates,
               RecordTransition(Diff(shadow, to))
        PROVE  FollowInv'
    <3>1. shadow \in TraceStates
      BY DEF FollowInv, EngineInv, History
    <3>2. Diff(shadow, to) \in Patches
      BY <2>1, <3>1, DiffIsPatch
    <3> QED
      BY <2>1, <3>2, FollowTransition
  <2>2. ASSUME NEW i \in 1 .. Len(log), RecordTransition(log[i])
        PROVE  FollowInv'
    <3>1. log[i] \in Patches
      BY DEF FollowInv, EngineInv, History
    <3> QED
      BY <2>2, <3>1, FollowTransition
  <2>3. CASE RecordEvent
    BY <2>3, FollowEvent
  <2>4. CASE Finish
    BY <2>4, FollowFinish
  <2>5. ASSUME NEW first \in 1 .. Len(log), NEW large \in BOOLEAN, Open(first, large)
        PROVE  FollowInv'
    BY <2>5, FollowOpen
  <2>6. ASSUME NEW target \in 1 .. Len(clog), MoveTo(target)
        PROVE  FollowInv'
    BY <2>6, FollowMoveTo
  <2>7. CASE MoveOne
    BY <2>7, FollowMoveOne
  <2>8. CASE MoveHalf
    BY <2>8, FollowMoveHalf
  <2>9. CASE MoveRest
    BY <2>9, FollowMoveRest
  <2>10. CASE MoveDone
    BY <2>10, FollowMoveDone
  <2>11. CASE NextOperation
    BY <2>11, FollowNextOperation
  <2>12. CASE UNCHANGED vars
    <3>1. UNCHANGED FollowVars
      BY <2>12 DEF vars, engine, FollowVars
    <3> QED
      BY <3>1, FollowUnchanged
  <2> QED
    BY <2>1, <2>2, <2>3, <2>4, <2>5, <2>6, <2>7, <2>8, <2>9, <2>10, <2>11, <2>12 DEF Next
<1> QED
  BY <1>1, FollowInit, PTL DEF Spec

(***************************************************************************)
(* THE RESULT.  However many transactions are recorded, refused, stale or  *)
(* dangling, the recorder stands where its last event left it, its indexes *)
(* are those of a full scan, and nothing in it dangles.                    *)
(***************************************************************************)
THEOREM RecorderNeverDrifts == Spec => [](RecorderAtLastEvent /\ Indexed(shadow) /\ Resolves(shadow))
<1>1. FollowInv => RecorderAtLastEvent /\ Indexed(shadow) /\ Resolves(shadow)
  <2> SUFFICES ASSUME FollowInv PROVE RecorderAtLastEvent /\ Indexed(shadow) /\ Resolves(shadow)
    OBVIOUS
  <2>1. Good(shadow) /\ shadow = hist[Len(hist)] /\ Len(hist) = Len(log) + 1
    BY DEF FollowInv, EngineInv, History
  <2> QED
    BY <2>1 DEF Good, RecorderAtLastEvent, Last
<1> QED
  BY <1>1, Following, PTL

(***************************************************************************)
(* THE RESULT.  The indexes on both sides are always those of a full scan, *)
(* although transactions, rollbacks and slices only ever touch what a      *)
(* patch changes.                                                          *)
(***************************************************************************)
THEOREM IndexesAlwaysExact == Spec => []IndexesExact
<1>1. FollowInv => IndexesExact
  <2> SUFFICES ASSUME FollowInv PROVE IndexesExact
    OBVIOUS
  <2>1. Good(shadow)
    BY DEF FollowInv, EngineInv, History
  <2>2. ASSUME half = Whole PROVE Good(cli)
    <3>1. cli = chist[at + 1] /\ at \in 0 .. Len(clog)
      BY <2>2 DEF FollowInv, ClientInv, PositionInv, HalfInv
    <3>2. /\ Len(chist) = Len(clog) + 1 /\ \A i \in 1 .. Len(chist) : Good(chist[i])
          /\ Len(clog) \in Nat
      BY DEF FollowInv, ClientInv, Reversible, History
    <3> QED
      BY <3>1, <3>2
  <2> QED
    BY <2>1, <2>2 DEF Good, IndexesExact
<1> QED
  BY <1>1, Following, PTL

(***************************************************************************)
(* THE RESULT.  The incremental check lets nothing dangle, and a primary   *)
(* node it fails to see cut off is one that an auxiliary entity, cut off   *)
(* as well, still links to.                                                *)
(***************************************************************************)
THEOREM NothingElseHides == Spec => []OnlyAuxiliariesHide
<1>1. FollowInv => OnlyAuxiliariesHide
  <2> SUFFICES ASSUME FollowInv PROVE OnlyAuxiliariesHide
    OBVIOUS
  <2>1. Good(shadow)
    BY DEF FollowInv, EngineInv, History
  <2>2. Resolves(shadow)
    BY <2>1 DEF Good
  <2>3. Hidden(shadow) # {} =>
          \E a \in Auxiliary \cap Present(shadow.nodes) :
             shadow.nodes[a].links \cap Hidden(shadow) # {}
    BY <2>1, HiddenIsLinked
  <2> QED
    BY <2>2, <2>3 DEF OnlyAuxiliariesHide
<1> QED
  BY <1>1, Following, PTL

(***************************************************************************)
(* THE RESULT.  The client can always follow: commits that hide no primary *)
(* node are accepted, every move leads to the state that the engine        *)
(* recorded for its event, in slices too, and the frame on display is that *)
(* of the event published with it.                                         *)
(***************************************************************************)
THEOREM ReplayAlwaysFaithful == Spec => []ReplayFaithful
<1>1. FollowInv => ReplayFaithful
  BY DEF FollowInv, ClientInv, PositionInv, HalfInv, JointInv, ReplayFaithful
<1> QED
  BY <1>1, Following, PTL
=============================================================================
