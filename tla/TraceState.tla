------------------------------ MODULE TraceState ------------------------------
(***************************************************************************)
(* The projected state of an ordered map while the trace of one operation  *)
(* is recorded or replayed (crates/ordered-map/src/trace_state.rs, and its *)
(* counterpart IndexedTraceState in apps/web/src/trace-replay.ts).         *)
(*                                                                         *)
(* A state is a rooted graph of primary nodes and auxiliary entities, the  *)
(* entries the nodes hold, one cumulative metric, and two indexes kept up  *)
(* to date with them: `incoming` (who links to an entity) and `owners`     *)
(* (who holds an entry).  A patch is the transaction of one event.  Its    *)
(* records carry distinct keys in a canonical order, so it is written as   *)
(* the function from the changed identities to their values before and     *)
(* after.  A node value is the set of entities it links to and the set of  *)
(* entries it holds: roles, keys, metadata and slots only take part in     *)
(* comparisons for equality.                                               *)
(*                                                                         *)
(* `entry_keys` is left out: an entry keeps its key for life, and the code *)
(* writes that index and never reads it.                                   *)
(***************************************************************************)
EXTENDS Naturals, FiniteSets

CONSTANTS Primary, Auxiliary,   \* identities of structural entities
          Entries,              \* identities of entries
          Payloads,             \* values an entry may hold
          Absent                \* no entity, no entry, no root

ASSUME IdentitiesAssumption ==
    /\ Primary \cap Auxiliary = {}
    /\ Absent \notin Primary \cup Auxiliary
    /\ Absent \notin Payloads
    /\ Absent \notin [links : SUBSET (Primary \cup Auxiliary), entries : SUBSET Entries]
    /\ IsFiniteSet(Primary \cup Auxiliary)

Ids == Primary \cup Auxiliary
Node == [links : SUBSET Ids, entries : SUBSET Entries]

TraceStates ==
    [root     : Ids \cup {Absent},
     nodes    : [Ids -> Node \cup {Absent}],
     entries  : [Entries -> Payloads \cup {Absent}],
     metric   : Nat,
     incoming : SUBSET (Ids \X Ids),
     owners   : SUBSET (Entries \X Ids)]

(***************************************************************************)
(* A patch: the root and the metric before and after (equal when the patch *)
(* has no such record), and a [before, after] record per changed identity. *)
(***************************************************************************)
Change(S) == [before : S, after : S]
Patches ==
    [root    : Change(Ids \cup {Absent}),
     nodes   : UNION {[C -> Change(Node \cup {Absent})] : C \in SUBSET Ids},
     entries : UNION {[C -> Change(Payloads \cup {Absent})] : C \in SUBSET Entries},
     metric  : Change(Nat)]

\* What stands for no value is not mistaken for a patch either.
ASSUME PatchAssumption == Absent \notin Patches

NoOp(c) == c.before = c.after
Turned(c) == [before |-> c.after, after |-> c.before]

Reversed(p) ==
    [root    |-> Turned(p.root),
     nodes   |-> [id \in DOMAIN p.nodes |-> Turned(p.nodes[id])],
     entries |-> [e \in DOMAIN p.entries |-> Turned(p.entries[e])],
     metric  |-> Turned(p.metric)]

Size(p) == Cardinality(DOMAIN p.nodes) + Cardinality(DOMAIN p.entries)
             + (IF NoOp(p.root) THEN 0 ELSE 1) + (IF NoOp(p.metric) THEN 0 ELSE 1)

(***************************************************************************)
(* The indexes recomputed from the nodes.                                  *)
(***************************************************************************)
Present(nodes) == {id \in DOMAIN nodes : nodes[id] # Absent}
LinksOf(nodes, C) == {l \in Ids \X C : nodes[l[2]] # Absent /\ l[1] \in nodes[l[2]].links}
HeldBy(nodes, C) == {h \in Entries \X C : nodes[h[2]] # Absent /\ h[1] \in nodes[h[2]].entries}

(***************************************************************************)
(* Every entity that a walk from the root along the links of an index      *)
(* visits.  The i-th set holds what is at most i links away.               *)
(***************************************************************************)
ReachableBy(root, incoming) ==
    LET within[i \in 0 .. Cardinality(Ids)] ==
          IF i = 0 THEN {root} \ {Absent}
          ELSE within[i - 1] \cup {t \in Ids : \E s \in within[i - 1] : <<t, s>> \in incoming}
    IN  within[Cardinality(Ids)]

(***************************************************************************)
(* validate_references: what a full snapshot must satisfy.                 *)
(***************************************************************************)
Resolves(st) ==
    /\ st.root = Absent \/ st.nodes[st.root] # Absent
    /\ \A id \in Present(st.nodes) :
          /\ st.nodes[id].links \subseteq Present(st.nodes)
          /\ \A e \in st.nodes[id].entries : st.entries[e] # Absent

Hidden(st) ==
    (Present(st.nodes) \cap Primary) \ ReachableBy(st.root, LinksOf(st.nodes, Ids))

FullyValid(st) == Resolves(st) /\ Hidden(st) = {}

FromSnapshots(root, nodes, entries, metric) ==
    [root |-> root, nodes |-> nodes, entries |-> entries, metric |-> metric,
     incoming |-> LinksOf(nodes, Ids), owners |-> HeldBy(nodes, Ids)]

(***************************************************************************)
(* validate_patch: no record is a no-op, the metric grows, and every value *)
(* the patch replaces is the one it declares.  The patch is given in the   *)
(* direction it is applied; `forward` tells which way its metric counts.   *)
(***************************************************************************)
Admissible(st, p, forward) ==
    /\ p.root.before = st.root
    /\ \A id \in DOMAIN p.nodes : ~NoOp(p.nodes[id]) /\ p.nodes[id].before = st.nodes[id]
    /\ \A e \in DOMAIN p.entries : ~NoOp(p.entries[e]) /\ p.entries[e].before = st.entries[e]
    /\ p.metric.before = st.metric
    /\ IF forward THEN p.metric.after >= p.metric.before ELSE p.metric.after <= p.metric.before

(***************************************************************************)
(* The loop of `apply`: replace_node and replace_entry per record, with    *)
(* the incremental update of the indexes.                                  *)
(***************************************************************************)
\* a mutant: the links of the old value stay in the index
ReplacedKeepingLinks(st, p) ==
    LET C     == DOMAIN p.nodes
        nodes == [id \in Ids |-> IF id \in C THEN p.nodes[id].after ELSE st.nodes[id]]
    IN  [root     |-> p.root.after,
         nodes    |-> nodes,
         entries  |-> [e \in Entries |-> IF e \in DOMAIN p.entries THEN p.entries[e].after
                                                                   ELSE st.entries[e]],
         metric   |-> p.metric.after,
         incoming |-> st.incoming \cup LinksOf(nodes, C),
         owners   |-> (st.owners \ HeldBy(st.nodes, C)) \cup HeldBy(nodes, C)]

Replaced(st, p) ==
    LET C     == DOMAIN p.nodes
        nodes == [id \in Ids |-> IF id \in C THEN p.nodes[id].after ELSE st.nodes[id]]
    IN  [root     |-> p.root.after,
         nodes    |-> nodes,
         entries  |-> [e \in Entries |-> IF e \in DOMAIN p.entries THEN p.entries[e].after
                                                                   ELSE st.entries[e]],
         metric   |-> p.metric.after,
         incoming |-> (st.incoming \ LinksOf(st.nodes, C)) \cup LinksOf(nodes, C),
         owners   |-> (st.owners \ HeldBy(st.nodes, C)) \cup HeldBy(nodes, C)]

(***************************************************************************)
(* validate_changed_references on the state after the patch: only what the *)
(* patch touches is looked at.                                             *)
(***************************************************************************)
ValuesOf(change) == {change.before, change.after} \ {Absent}

\* a mutant: what the old value linked to is not looked at
AffectedByNewLinks(p) ==
    DOMAIN p.nodes
      \cup UNION {p.nodes[id].after.links : id \in {i \in DOMAIN p.nodes : p.nodes[i].after # Absent}}
      \cup (IF NoOp(p.root) THEN {} ELSE ValuesOf(p.root))

\* What the old and the new values of the changed entities link to.
LinkTargets(p) == UNION {v.links : v \in UNION {ValuesOf(p.nodes[id]) : id \in DOMAIN p.nodes}}

AffectedNodes(p) ==
    DOMAIN p.nodes \cup LinkTargets(p)
      \cup (IF NoOp(p.root) THEN {} ELSE ValuesOf(p.root))

AffectedEntries(p) ==
    DOMAIN p.entries
      \cup UNION {v.entries : v \in UNION {ValuesOf(p.nodes[id]) : id \in DOMAIN p.nodes}}

ChangedReferencesResolve(st, p) ==
    /\ st.root = Absent \/ st.nodes[st.root] # Absent
    /\ \A id \in AffectedNodes(p) :
          IF st.nodes[id] = Absent
          THEN \A s \in Ids : <<id, s>> \notin st.incoming
          ELSE /\ st.nodes[id].links \subseteq Present(st.nodes)
               /\ \A e \in st.nodes[id].entries : st.entries[e] # Absent
    /\ \A e \in AffectedEntries(p) :
          st.entries[e] = Absent => \A s \in Ids : <<e, s>> \notin st.owners

(* validate_affected_reachability: only the primary nodes the patch touches *)
AffectedReachable(st, p) ==
    (AffectedNodes(p) \cap Present(st.nodes) \cap Primary)
        \subseteq ReachableBy(st.root, st.incoming)

Accepts(st, p) == ChangedReferencesResolve(st, p) /\ AffectedReachable(st, p)

(***************************************************************************)
(* apply: the state it leaves and whether it succeeded.  A patch that      *)
(* leaves a dangling state is undone by replaying it backwards.            *)
(***************************************************************************)
\* a mutant: a dangling patch is reported and left in place
ApplyWithoutUndo(st, p, forward) ==
    IF ~Admissible(st, p, forward) THEN [ok |-> FALSE, state |-> st]
    ELSE [ok |-> Accepts(Replaced(st, p), p), state |-> Replaced(st, p)]

Apply(st, p, forward) ==
    IF ~Admissible(st, p, forward) THEN [ok |-> FALSE, state |-> st]
    ELSE LET after == Replaced(st, p)
         IN  IF Accepts(after, p) THEN [ok |-> TRUE, state |-> after]
             ELSE [ok |-> FALSE, state |-> Replaced(after, Reversed(p))]

(***************************************************************************)
(* IndexedTraceState.apply: the client looks at the state the patch would  *)
(* lead to before it changes anything, and throws otherwise.               *)
(***************************************************************************)
ClientApply(st, p, forward) ==
    IF Admissible(st, p, forward) /\ Accepts(Replaced(st, p), p)
    THEN [ok |-> TRUE, state |-> Replaced(st, p)]
    ELSE [ok |-> FALSE, state |-> st]

(***************************************************************************)
(* diff_to_snapshots: the patch between two states.                        *)
(***************************************************************************)
Diff(from, to) ==
    [root    |-> [before |-> from.root, after |-> to.root],
     nodes   |-> [id \in {i \in Ids : from.nodes[i] # to.nodes[i]} |->
                     [before |-> from.nodes[id], after |-> to.nodes[id]]],
     entries |-> [e \in {i \in Entries : from.entries[i] # to.entries[i]} |->
                     [before |-> from.entries[e], after |-> to.entries[e]]],
     metric  |-> [before |-> from.metric, after |-> to.metric]]

(***************************************************************************)
(* The indexes say what a full scan of the nodes would say.                *)
(***************************************************************************)
Indexed(st) ==
    /\ st.incoming = LinksOf(st.nodes, Ids)
    /\ st.owners = HeldBy(st.nodes, Ids)
===============================================================================
