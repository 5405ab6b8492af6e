# Verification of alg-visualize

alg-visualize shows, step by step, how ordered-map structures and flow
algorithms work. A scenario is turned into a timeline of recorded items by a
Rust engine compiled to WASM; the engine runs in a Dedicated Worker and the
browser's main thread shows the frames it publishes. Two things are hard to
get right and hard to test there:

* three parties (the WASM session, the Worker's event loop and the React
  client) each hold a position on the timeline, change it in their own time,
  and must never show a scene the engine does not hold;
* what is shown are long runs of real data structures and solvers, whose
  caches, indexes, labels and checkpoints must stay true through every
  sequence of legal calls.

This directory models both in TLA+, checks the models with TLC on small
instances, and proves what matters most with TLAPS for all instances.

## Inventory

| Part | Source | State it keeps | Operations | Talks to |
| --- | --- | --- | --- | --- |
| Ordered-map session | `crates/visualizer-wasm/src/lib.rs` 411-1085 | live instance, committed cursor, staged step, staged seek, checkpoints with a byte total, background index | stage / commit / discard a step; begin / resume / commit / discard a seek; resume the index | called by the Worker, synchronously |
| Engine Worker | `apps/web/src/engine-worker.ts`, `staged-next-coordinator.ts` | active generation, session, session serial, staged publications, navigation operation, deferred request, armed timers | one handler per request kind, seek and index timers | two message ports to the client |
| Ordered-map client | `App.tsx`, `engine-session-response.ts`, `use-engine-worker.ts`, `use-renderer-recovery.ts` | generation, pending flag, frame, trace replay controller | user requests, renderer recovery, one handler per answer, acknowledgements | the Worker |
| Flow session and publication | `lib.rs` 1159-1310 and 4690-4805; `engine-worker.ts`; the three `*-coordinator.ts`; `flow-session-lease.ts`; `FlowWorkspace.tsx` | prepared timeline, cursor, staged event or seek; three coordinators with publication identities; request serials | as above, with packets encoded asynchronously | as above |
| Trace state and replay | `crates/ordered-map/src/trace_state.rs`, `apps/web/src/trace-replay.ts`, `playback.ts`, `App.tsx` | reversible patches, reference indexes, recorder; position within a step | record, apply forward and backward, move asynchronously | session, client |
| Ordered-map algorithms | `crates/ordered-map/src/*.rs` | thirteen structures over arenas | insert, remove, get, lower bound, traced | session |
| Generational arena | `crates/visualizer-core/src/arena.rs` | slots with generations, free list | insert, remove, write, checkpoint, restore, incremental codec | algorithms |
| Flow core | `crates/flow/src/{model,residual,certificate,feasibility}.rs` | network, residual arcs, certificates | augment, verify | flow solvers |
| Flow solvers and scenes | `crates/flow/src/algorithms/`, `scene.rs`, `trace.rs`, `catalog.rs` | one solver each | solve with trace | flow session |
| Generator worker | `flow-generator-worker.ts`, `use-flow-generator-worker.ts` | job number, one Worker per job | start, cancel by termination | flow client |
| Scenario input | `crates/visualizer-core/src/{scenario,dsl,jcs,provenance,generator,rng}.rs` | none (pure) | parse, canonicalise, generate | Worker |
| Packets | `packet_v6.rs`, `packet-v6.ts`, `packet.ts` | none (pure) | encode, split, assemble, validate | Worker, client |
| Rendering | `PixiCanvas.tsx`, panels | view state | draw | client |

What is hard in each, and what makes it correct:

* **Session.** A step mutates the live instance in place and is undone by
  replaying from a checkpoint; seeks clone; the index writes checkpoints into
  the same list. Correct: instance and cursor always belong together, a
  checkpoint restores the boundary it is filed under, rollback cannot fail,
  the store stays in its budget and its survivors stay spread.
* **Worker and client.** Requests carry a generation; anything older is
  ignored; publication is two-phase. Acknowledgements are matched by
  generation only (ordered map) or by publication id (flow). Decoding on the
  client and encoding on the Worker are asynchronous. Correct: the frame on
  screen is the boundary the Worker holds, at most one publication is
  outstanding, and every request is answered.
* **Flow publication.** As above with awaits inside the Worker: a continuation
  may find another generation, another session or another operation.
* **Trace.** Patches must be invertible; references are checked only around
  what changed; a movement of the client may be overtaken. Correct: the
  recorder stands where its last event left it, with indexes a full scan would
  give, and the client shows exactly the position it names.
* **Arena.** Generations run out, checkpoints are written and read in slices
  while the arena changes, and what is read back may be damaged. Correct: the
  free list is exact and a key never names another node.
* **Algorithms.** Long legal sequences; every rotation, split and cached
  minimum must keep its rules. Correct: the shape rules hold and every answer
  is the one a set of keys would give.
* **Solvers.** Labels, current arcs, scales and global jumps interleave.
  Correct: no flow is lost, labels stay lower bounds, no search misses an arc,
  the solver returns, and what it returns is a maximum flow. Minimum-cost
  solvers add prices, which searches that stop early or never reach a node
  must still leave consistent, scales at which arcs begin to count, and
  guesses that are repaired. Correct: what is left to send is what the flow
  lacks, the prices keep their inequality, the result is cheapest.

`PROJECT.json` lists the hazards at their source lines with the properties
that watch each of them.

## Modules

| Module | Models | Used by |
| --- | --- | --- |
| `Timeline` | abstract: a boundary and at most one candidate | `OrderedMapSession` implements it |
| `OrderedMapSession` | the WASM session of an ordered map | `EngineProtocol` and `TraceReplay` reduce it to its boundary |
| `EngineProtocol` | Worker, client and ports, ordered maps | |
| `FlowPublication` | Worker, client and ports, flow; asynchronous encodings | |
| `KeyedStore` | abstract: keys, what they name, what was ever handed out | `Arena` implements it |
| `Arena` | slots, free list, checkpoint, codec continuations | |
| `TraceState` | operators: trace states, patches, their indexes | `TraceReplay` |
| `TraceReplay` | the recorder in the engine and the replaying client | |
| `SearchTrees`, `MultiwayMaps`, `DigitalTries` | operators: the thirteen structures | `OrderedMaps` |
| `OrderedMaps` | one structure under any sequence of operations | |
| `ResidualNetwork` | operators: networks, residual arcs, cuts | all of the below |
| `MaxFlowKernel` | the state of a solver and its certificate | the solvers |
| `AugmentingPaths`, `PushRelabel` | seven and nine solvers, one action per event | `MaxFlow` |
| `MaxFlow` | any of the sixteen on any network | |
| `MinCostKernel` | the state of a minimum-cost solver, shared searches and its certificate | the solvers |
| `ShortestPathFlows`, `CycleCanceling`, `CostScaling` | five, three and five solvers | `MinCostFlow` |
| `MinCostFlow` | any of the thirteen on any problem | |
| `Sums` | lemmas: sums over finite sets, induction, folds, paths and what flow along them changes | the proofs about flows and about the checkpoint budget |
| `MC...` | instances for TLC | the configurations |
| `...Proofs` | theorems and their proofs | |

### `Timeline` and `OrderedMapSession`

`Timeline` is what a session promises: `Offer`, `Withdraw`, `Publish`. Its
boundaries are what an algorithm instance *contains*, not what a cursor claims.

`OrderedMapSession` is one session under the Worker's call order. An algorithm
instance is the sequence of timeline items applied to it (`Prefix(c)` is the
instance at boundary `c`; a failed operation appends `HalfDone`), so that an
item applied twice, skipped or half done is a different state.

| Model | Code |
| --- | --- |
| `algorithm`, `cursor`, `stagedNext` | `algorithm`, `cursor`, `staged_next` |
| `stagedSeek` | `staged_seek`, with `seekPhase` naming where the Worker's seek loop stands (`failed` is the moment between an error return and the Worker's discard) |
| `checkpoints`, `checkpointBytes` | `checkpoints` (a set, sorted by cursor in the code), `checkpoint_bytes` |
| `indexing`, `indexAlgorithm`, `indexCursor` | `index_algorithm`, `index_cursor` |
| `StageNext`, `StageNextFails` | `stage_next_json` with its success and its error paths, rollback included |
| `CommitStagedNext`, `DiscardStagedNext` | the operations of that name; a commit ends with `maybe_store_active_checkpoint` |
| `BeginSeek`, `ResumeSeek`, `CommitStagedSeek`, `DiscardStagedSeek` | the operations of that name; a chunk stops in front of a failing item |
| `ResumeSeekIndex` | one timer turn of the index |
| `StoreCheckpoint` | duplicate check, size check, evictions until the new one fits, insertion |

Which items fail (`Failing`), which steps cannot be published
(`Unrecordable`) and which frames are too large (`OversizedFrames`) are
constants: algorithms are deterministic, so the same item fails wherever it is
replayed. The size estimate of an instance is any member of `Sizes`. The
Worker's part is in two guards: a seek begins only when no step is staged, and
only a seek whose final frame was offered is committed; `EngineProtocol`
checks both (`OneCandidate`).

### `EngineProtocol`

Both ends and the two ports between them. A session is reduced to its
committed boundary and its candidate, and named by the generation that created
it. Every request kind of the ordered-map workspace is an action of the
client; its handler, with the prologue that withdraws older candidates, is one
action of the Worker. `"prepare"` stands for the requests that answer with a
new scenario (set-algorithm, generate, prepare-dsl, import), `"export"` for
the ones that leave the frame (export, format-dsl). The decode of a packet is
a state of its own (`decoding`), so that anything may happen between arrival
and publication; a step waits twice, with its base frame read in between.

Left out: the index loop (it touches only checkpoints and the coverage bar),
seek progress and playback status (display), detail moves inside a step
(`TraceReplay`), and internal failures of an algorithm other than
bounded-resource errors.

### `FlowPublication`

The same two parties for flow scenarios, where the Worker is no longer
sequential: a handler that encodes a publication is suspended, and the
requests that arrive meanwhile are served before it goes on. `encodings` holds
the suspended handlers with the session each has leased; `Resolve(e)` is the
continuation of one, in any order. Whatever a handler does between two awaits
is one operator from a `worker` record to the Workers that may result, so that
the handler that runs a parked navigation, whose own navigation may run the
next one, composes as the calls do in the code.

| Model | Code |
| --- | --- |
| `worker.stagedFlowCurrent`, `stagedFlowEvent`, `stagedFlowSeek` | the three coordinators: the publication that awaits its acknowledgement, with its session |
| `worker.seekOperation` | the operation number of the seek coordinator |
| `worker.navigation`, `deferred` | `activeFlowNavigationOperation`, `deferredFlowNavigation` |
| `worker.session` | `FlowSession`: cursor, `prepared`, `staged_next`, `staged_seek` |
| `LaunchNext`, `LaunchSeek` / `ResolveCreate`, `ResolveNext`, `ResolveSeek` | `runNext`, `runSeek` with `runFlowSeek`, and `create`, up to and after their awaits |
| `Admitted` | the prologue of the message handler |
| `Acknowledge`, `Wake` | `acknowledgeFlowCurrent`, and the parked request it lets run |
| `status`, `lifecycle`, `Busy`, `CanAdvance` | the state from which `FlowWorkspace` derives what is disabled |
| `Load` ... `CancelGeneration` | one action per control, `AutoplayStep` for the timer, `Generated` for the end of a generator job |
| `decoding`, `Decoded`, `Invalid` | `handleResponse` between its await and its verdict, with `handleAcknowledged` |

Publication ids and operation numbers are fresh numbers in the code and the
name of the request they serve in the model, generation and serial; a session
is named by the generation that created it. `Hidden` holds the boundaries the
playback granularity does not show.

`EditsWhileBusy` separates two users. The dialogs are disabled while a request
is under way, but the editor is not: an open dialog lets the keyboard step, and
typing frees the Algorithm and Generate buttons, whose dialogs ask the Worker
for their contents. The checked runs have it FALSE; see "Observations" for
what TRUE shows.

Left out: scenes that report a resource limit, what a solver computes and its
failures, the frame cache (its eviction loop, `lib.rs` 1255-1290, never runs,
because the prepared timeline already holds every frame), encoding failures,
playback speed, the contents of the dialogs and the delay between a change of
state and the controls it redraws.

### `KeyedStore` and `Arena`

`KeyedStore` is what a caller of the arena may rely on: a set of live keys
with what each names, every key ever handed out, and a saved copy to return
to. `Arena` is `crates/visualizer-core/src/arena.rs`:

| Model | Code |
| --- | --- |
| `slots`, `freeHead` | `slots` (1-based; 0 is the absent next), `free_head` |
| `InsertReuse`, `InsertGrow`, `Remove`, `Write` | `try_insert` with and without a free slot, `remove`, a write through `get_mut`; a slot at `MaxGeneration` is retired instead of freed |
| `BeginEncode`, `EncodeSlice` | `begin_encode_snapshot` and the encoding continuation, any budget per slice, while the arena changes |
| `Damage` | external: storage loses, gains or alters a record or the head |
| `BeginRestore`, `RestoreSlice` | `begin_restore_snapshot` and its continuation, the last slice with `validate_snapshot` |
| `FreeList` | what `validate_snapshot`'s walk accepts, stated about chains; `MCArena!WalkAccepts` is the walk itself and `WalkExact` compares them |

Ghosts: `live`, `issued` and `saved`, the variables of `KeyedStore`. The
`u32` of a generation is `MaxGeneration`, the `u32` of a slot index
`SlotLimit`. Records are slots, not bytes; allocation failure leaves the arena
as it is and is not modelled.

### `TraceState` and `TraceReplay`

`TraceState` is the state a trace describes (root, nodes with their links and
entries, entries, one counter for the metrics) with the two indexes the code
keeps, incoming links and owners of entries, and the transaction that applies a
patch, updates the indexes in place, checks references only around what
changed, and undoes itself. `TraceReplay` is the recorder (`RecordTransition`,
with stale and dangling patches among its inputs, `RecordEvent`, `Finish`) and the client that
opens a finished operation (`Open`), validates it before it changes anything, and
moves forward and backward in slices or at once (`MoveOne`, `MoveHalf`,
`MoveRest`, `MoveDone`) while the detail cursor changes (`MoveTo`). Node values are reduced to what references need; `entry_keys` is
written and never read, and is left out. A move and a load or seek do not
overlap: `requestPending` and `replayMovementPending` disable the controls
(`App.tsx` 834).

### `SearchTrees`, `MultiwayMaps`, `DigitalTries`, `OrderedMaps`

The thirteen structures as recursive values and the operations on them:
AVL, AA, left-leaning red-black, weight-balanced, treap, zip, splay and
scapegoat trees; B-tree and skip list; van Emde Boas tree, X-fast and Y-fast
trie. Every operator translates the function of its name (`Inserted`,
`Removed`, the rotations, `SplayInsert`, `VebRemove` ...); what the code draws
at random (priorities, ranks, levels, whether a key becomes a representative)
is any value of its range. `OrderedMaps` chooses one structure and runs any sequence of
insertions, removals and queries, the index `by_key` included, as the trait
does. Stored values, node identities and the `Corrupt` errors that no
operation reaches are left out. The Y-fast trie's insertion is not atomic when
its representative index is full (`yfast.rs` 625-711); the session then rolls
back, so that case belongs to `OrderedMapSession!StageNextFails`.

### `ResidualNetwork`, `MaxFlowKernel`, `AugmentingPaths`, `PushRelabel`, `MaxFlow`

`ResidualNetwork` translates `model.rs` and `residual.rs`: edges in their
order with lower bounds and capacities, an arc per direction, residual
capacity, the arcs out of a node in the code's order, augmentation along a
walk. `MaxFlowKernel` has what all solvers share: the network, the flow, the
solver's own record `k`, the phase it is in, and the certificate (`Certify`):
reachability from the source must miss the sink, and the cut it leaves must be
saturated.

| Solvers | Module | Code |
| --- | --- | --- |
| `edmonds-karp`, `ford-fulkerson`, `capacity-scaling`, `widest`, `dinic`, `sap`, `isap` | `AugmentingPaths` | `algorithms/{edmonds_karp,augmenting_path,dinic,shortest_augmenting_path}.rs` and what they call |
| `generic`, `current-arc`, `fifo`, `highest-label`, `relabel-to-front`, `global-relabel`, `gap-relabel`, `excess-scaling`, `partial-augment` | `PushRelabel` | `algorithms/push_relabel.rs` |

An action is one event of the trace: an augmentation, a push, a relabel, a
phase. Numbers are unbounded integers; the code's overflow checks would turn
larger ones into errors.

### `MinCostKernel`, `ShortestPathFlows`, `CycleCanceling`, `CostScaling`, `MinCostFlow`

A problem is a network with costs and a divergence required of every node.
`MinCostKernel` has the flow, `excess` (what each node has still to send),
`price`, the solver's record `k`, the searches they share and the certificate
(`CheckMinCostFlow`): a feasible flow, no negative residual cycle, and
potentials under which no live arc is too cheap.

| Solvers | Module | Code |
| --- | --- | --- |
| `bellman-ford-ssp`, `potential-dijkstra-ssp`, `blocking-primal-dual`, `capacity-scaling`, `excess-scaling` | `ShortestPathFlows` | `min_cost.rs` (`primal_dual.rs` renames its events), `blocking_primal_dual.rs`, `capacity_scaling.rs` |
| `cycle-canceling`, `mean-cycle-canceling`, `out-of-kilter` | `CycleCanceling` | `cycle_canceling.rs`, `minimum_mean_cycle_canceling.rs`, `out_of_kilter.rs` |
| `cost-scaling`, `augment-relabel`, `partial-augment-relabel`, `price-refinement`, `arc-fixing` | `CostScaling` | `cost_scaling.rs` |

A search only reads and is part of the step that uses what it found. Where
the feasibility construction (`feasibility.rs`) chooses the first flow, the
model starts from every feasible one; where a depth-first search takes the
first of several cycles of least mean, it takes any; the order in which fixed
edges are filled is the order of their arcs. `fixed` are the edges a
refinement leaves alone (`fixed_edges`); `Routable` says by cuts what
`restricted_excess_can_reach_deficit` computes by a maximum flow. The
validations the code makes at run time lead to `"failed"`, which
`CostSolversReturn` says is never reached; the work limits, which only count,
are left out. `PathLengthLimit` is the code's 4.

## Runs

| Run | Checks | Bounds |
| --- | --- | --- |
| `session` | the live instance at its boundary, exact candidates and checkpoints, total and budget of the store, total rollback, why the index stops; `ShortestReplay`; the refinement `ImplementsTimeline`; `ReplaysSettle` | 8 items, interval 2, chunk 2, at most 3 checkpoints and 6 bytes of sizes 1, 3 and 7: an instance may be too large to store, two may exhaust the bytes, three the count. Item 8 fails, step 5 cannot be published, the frame at 3 is too large |
| `session_index` | `SeeksStayShort`: the eviction rule's long-run effect, where bytes never bind (`BytesNeverBind`; with 32 checkpoints and 64 MiB, instances up to 2 MiB) | a checkpoint at each of 9 boundaries, room for 5, every order of index, steps and seeks |
| `protocol` | `Agreement`, `OneCandidate`, `SeekAlone` (`OneSeekLoop` and `ParkedBehindSeek`), `NoFault`, `PublishedFirst`, `RequestsSettle` | 2 items, seeks of up to 2 turns, 4 generations: a load, and a publication, its cancellation and the cancellation's successor all in flight at once |
| `protocol_step_after_seek` | violation of `StepsAnswered` | 1 item, 2 generations: a load, a seek, a step |
| `flow` | `Agreement`, `OneCandidate`, `ParkedIsAwaited`, `ControlsReturn` | 3 events of which the first is hidden, so that a step goes on forward and backward over it; 3 generations: a session, one that replaces it, and one that overtakes that; 3 navigations or pauses of the user and any number the workspace posts itself, so that one may be running, one parked and one arriving |
| `flow_refusal` | violation of `NoRefusal` | 2 events, 2 generations, 3 navigations |
| `arena` | `FreeListExact`, `KeysResolve`, `SlicesFaithful`, `WalkExact`; the refinement `ImplementsStore` | 3 slots, 2 generations (a slot is used, reused and retired), slices of 1 and 2 records, one value: which value a slot holds never decides anything, and the proof covers several |
| `trace` | `IndexesExact`, `RecorderAtLastEvent`, `OnlyAuxiliariesHide`, `ReplayFaithful` | two primary nodes, one auxiliary, one entry, all 3-4 shapes each may take; 2 events in an operation and 3 in all: a second operation starts where the first one ended |
| `maxflow` | `FlowOrPreflow`, `ValidLabels`, `CurrentArcsMissNothing`, `OnlyMaximum`, `SolversReturn` | sixteen solvers on some 360 networks of 4 or 5 nodes and 5 to 7 edges: diamonds with opposite inner edges and capacities 0 to 2, cycles, parallel and looping edges, dead ends, edges into the source and out of the sink, lower bounds |
| `maxflow_global_relabel` | violation of `GlobalRelabelReturns` | one chain of 5 edges |
| `mincost` | `SolverKeepsFlow` (`FlowAccounted`, `PricesHold`, `PassedArcsStayShut`), `OnlyCheapest`, `CostSolversReturn` | thirteen solvers on some 120 problems of 4 nodes and 6 edges: a diamond with opposite inner edges and costs 0 and 2; two suppliers and two customers, where a search from one supplier does not reach the other; rings of costs -1 and 1 behind the source with a loop and parallel edges, with and without lower bounds, some of them infeasible or with a negative cycle. Partial augmentations stop at 2 arcs instead of 4, so that these networks reach the limit |
| `maps` | `Shapely`, `AnswersExact` | per structure every reachable value over a set of keys: 12 keys for AVL, AA, red-black and B-trees, 8 for the scapegoat tree, 7 for weight-balanced and splay trees, 6 with ranks 1 to 3 for treap and zip trees, six with levels up to 3 for the skip list, a universe of four bits for the digital ones. B-trees of degree 2, scapegoat trees with alpha 3/5 |

Each bound is the smallest at which the mutants of the table in `PROJECT.json`
are found: the depth at which a second rotation, a retirement, a second
eviction or a third generation happens.

Deadlock checking is off for the protocol runs, because there the generations run
out and every user may stop, for `trace`, whose log is bounded, and for
`maxflow` and `mincost`, where a solver returns; session, arena and maps never stop.

**Fairness.** `OrderedMapSession!FairSpec` is weak fairness of the seek and
index timers: after every unfinished chunk the Worker re-arms a timer of zero
milliseconds. `EngineProtocol!FairSpec` adds that both event loops handle queued
messages and that an awaited decode resolves. `FlowPublication!FairSpec` adds the
awaited encodings, the autoplay timer, and that a generator job ends. Nothing is
assumed of the user. `MaxFlow!FairSpec` and `MinCostFlow!FairSpec` are weak
fairness of the solver as a whole: it is a loop.

## Findings

`protocol_step_after_seek`: after any ordered-map seek the next step is never
answered. `runSeek` is handed a navigation operation but its ordered-map
branch never finishes it; the next `next` of the same generation is parked in
`deferredFlowNavigation`, which nothing runs, and the client stays pending
until a request opens a new generation. The browser test at
`tests/browser/browser-quality.spec.ts` 1728-1743 expects the step to be served.
`RequestsSettle` shows that nothing else gets stuck, and `SeekAlone`
that a parked step has no other way in.

`flow_refusal`: a step is staged in its session before its encoding is awaited,
and only the continuation of its own handler can withdraw it. If the user
pauses, loads something that is refused, and steps again before the encoding is
done, the session that stayed in place refuses the step, which counts as an
engine failure. design.md:43 says a stale generation discards its candidate,
and design.md:241 that an invalid scenario leaves the session operable.

`maxflow_global_relabel`: a global relabelling gives every node that cannot
reach the sink the same height, also one that had risen above it. Excess
stranded two edges away from the source is then passed back and forth, and
the preset runs until its work limit. `SolversReturn` shows that of the other
fifteen only one fails and none loops.

### Observations without a run

* `SolversReturn` excepts the partial augment preset of push-relabel:
  `explore_partial_path` (`push_relabel.rs` 1888) walks into nodes without
  excess; one of them may be a dead end, whose relabelling finds no arc and
  fails as a broken invariant, so the preset rejects a valid network. The
  minimum-cost variant of the same search (`cost_scaling.rs` 2632) has a case
  for dead ends, and `CostSolversReturn` holds for it.
* With `EditsWhileBusy = TRUE`, `FlowPublication` violates `Agreement`: typing
  while the first scene awaits its acknowledgement frees the dialogs, whose
  request, in the current generation, withdraws the publication in the Worker
  while the client goes on to show it. The next step then meets a Worker
  without a session. design.md:235 promises that scene, algorithm and cursor
  agree on every path.
* Beyond a hidden boundary the next step is parked and run from the handler of
  the acknowledgement, under whose kind its errors are reported: a frame over
  its byte limit, an input error anywhere else (design.md:247), disables the
  engine there.
* `try_insert` uses every index up to `u32::MAX`; `validate_snapshot`
  (`arena.rs` 395) refuses an arena with all of them. `SlicesFaithful` makes
  that exception.
* The recorder looks only around what changed, so a primary node cut off behind
  an auxiliary one is not noticed; `OnlyAuxiliariesHide` states what remains
  true. No structure of the catalogue records such a patch.
* `augment` checks every arc of a walk against the same flow; a walk that used
  an arc twice would pass. All callers use simple paths.
* `check_invariants` of the X-fast trie does not look at absent `next` links,
  and that of the scapegoat tree not at its depth; `Shapely` does.

## Proofs

Every theorem holds for all values of the constants; nothing is assumed but the
named assumptions of the modules.

`OrderedMapSessionProofs`, from `SessionAssumption`: the type
invariant, all safety invariants of the `session` run, `ShortestReplay`,
`SeeksStayShort`, and that the session implements `Timeline`. The assumption `Interval % Chunk = 0` is the
code's 2048 and 128: the index stores a checkpoint only where a chunk ends.
The inductive invariant `IInv` says of the live instance
(`LiveGood`), the candidate (`SeekGood`), every checkpoint (`CheckpointsGood`) and the
index (`IndexGood`) that each is a prefix of the timeline without a
failing item, and that the running total is the sum of what the stored
checkpoints report. The evictions remove many checkpoints in one step, and
`EvictionsLeave` says by induction over the prefixes of their order what is
left: the total is still that sum, and within the budget. The properties are not
inductive by themselves: that the live instance stays at its boundary needs
exact checkpoints (a rollback replays from one) and needs that no failing item
lies at or below the cursor (or the rollback would abandon the instance); that
in turn needs the same of every checkpoint, of the candidate while it
replays, and of the index.

`SeeksAlwaysShort` bounds every replay, for all orders in which steps, seeks and the
index store checkpoints, under the hypothesis `BytesNeverBind`: a byte budget that
binds may leave the store no inner checkpoint at all, and then nothing can be
said. An eviction takes the inner checkpoint whose neighbours are closest
together (`EvictsNarrow`). Were some gap wide afterwards, every pair of neighbours of a
neighbour would span at least as much; every second pair is disjoint from the
next, and in a full store there are (`MaxCheckpoints` - 1) \div 2 of them, which share
the timeline (`PairsShareTheStretch`, `HeldShare`). That is the bound; it is weaker than
one would guess from an evenly spread store, because evictions never move what
stays. `SpacedInv` is the invariant: below some boundary at most an
interval behind the index every checkpoint has another within the bound above it
(`Covered`), and both ends stay. The index reads chunks, which do not
overshoot an interval since that is a whole number of them (`ChunksFit`).

`EngineProtocolProofs`: every safety property of the `protocol` run. The
Worker alone keeps `WorkerInv` (types, `SessionShape`, `RequestsOrdered`,
`AnswersServed`, `SeekNavigates` and the three properties about candidates,
loops and parking): a request that opens a generation is newer than all
that was served. `Agreement` relates both ends and needs what connects them:
`OneOutstanding` (of one generation at most one request, parked step, timer,
answer or packet exists, and a verdict is alone or ahead of the next
request), `PendingKnown` (what is outstanding, the client is waiting for),
`PacketsMatch` (a packet of the active generation shows the Worker's
candidate), `FramesExist`, `SessionFirst`, `NothingFails`.

`ArenaProofs`, from `ArenaAssumption`: types, `FreeListExact`, `KeysResolve`,
`SlicesFaithful`, `WalkExact`, and the refinement of `KeyedStore`. The free list is a
chain with an order of its own (`FreeOrder`); pushing and popping its head
extend and shorten that order, and a key's generation never exceeds its
slot's, which is what makes a handed-out key unique. `WalkIsExact` is about the
bounded walk of `validate_snapshot`: after k rounds it has seen exactly the first k
slots of some chain from the head (`Trail`), so as many rounds as there are vacant
slots, the last of them at zero, are a free list (`WalkSound`), and a free list
keeps the walk from meeting a slot twice or a slot in use (`WalkComplete`).

`TraceReplayProofs`, for any entities and limits: indexes updated in place are
those of a full scan, a refused transaction is undone exactly,
looking at the touched entities is enough, the recorder never drifts, and all
safety invariants of the `replay` run. A
refusal is undone by applying the inverse, which restores the indexes only
because they were exact before; so both are one invariant. `FollowInv` adds the
client. `EngineInv` is that: the log is a chain of patches between good states,
the last of which is the shadow. `ClientInv` says of the client's own history
that it can be walked both ways, where in it the cursor, the walk and the page
stand, and that half a patch leads towards the cursor. `JointInv` relates both:
the client's history is the engine's while it browses, begins where that ends
before, and a replay only fails where an auxiliary entity hides something
(`SoundIsAccepted`). `PatchAssumption` says that the value for "no patch" is none.

`FlowPublicationProofs`, for any numbers of events, generations and requests:
the three safety invariants of the `flow` run and the types. The
hypothesis `~EditsWhileBusy` is not a convenience: with TRUE, TLC refutes
`Agreement` (see "Observations"). `FlowInv`, which is inductive, has three parts.
`Joint` relates the port, the Worker and the publications the client decodes:

* `WorkerInv`: one navigation and one staged publication at most, the latter held by
  a coordinator or by a suspended handler of the same session;
* `OnceInv`: every job is in one place, as a request, a parked navigation, a
  suspended handler, an answer or a publication being decoded;
* `CreatesInv`, `ClearInv`: nothing behind a job the client still waits for would
  withdraw it;
* `AnswersOffered`, `DecodingOffered`, `AcceptsInv`: what the client still takes awaits
  its verdict in the Worker, and an acceptance in the port finds it;
* `ParkInv`: a parked navigation the client waits for has something to wake it.

`Controlled` says what the status and the timer know of the jobs under way, which
keeps a second request from being made. `Sees` says that the scene is what the
Worker settles on once the acceptances in its port have arrived; `Agreement`
alone does not say that of a scene an acceptance is still on the way for.
A handler's operators are proved about before any action is: `Launched`,
`Serves`, `Judged` and `Handles` say what each leaves alone, and a resumed
handler that wakes a parked navigation composes them as the model does.

`MaxFlowProofs`, from `NetworksAssumption`, `SolversAssumption` and `PathLimitAssumption`:
no flow is worth more than a cut (`NoFlowAboveACut`, weak duality, with lower bounds),
hence what any of the solvers returns through the certificate is maximum
(`CertifiedIsMaximum`). And of all sixteen solvers, on every network, the four safety
properties of the `maxflow` run: the flow is never lost (`SolversKeepTheFlow`), labels
bound distances (`SolversKeepTheLabels`), current arcs pass nothing that could still be
used (`SolversMissNothing`), and what is handed over to the certificate is already maximum
(`SolversEndAtMaximum`). `SolverInv` is inductive and has one part per family:

* `SearchInv`, searches that build a tree: every reached node has a live arc from another,
  and going back along them ends at the source (`Tree`), so the path found is one
  (`TreePath`); what no longer waits has no live arc, of the width asked for, to a node
  not reached (`NothingMissed`), so a search that ends without the sink has found a
  saturated cut. The widest search settles nodes in any order and may not assume one.
* `DinicInv`: levels rise by at most one along live arcs (`Levelled` while they are built,
  `Blocking` while a phase lasts), and the arcs passed lead only to nodes without a way
  on, which stay so for the phase.
* `LabelInv`, the two solvers with distance labels; `Climbing` is a path whose arcs fall
  by one, every one the current arc of its node (`WorkPath`, shared with Dinic and partial
  augment), so no node comes twice. A gap below n ends the solver and certifies the cut.
* `PreflowInv`, the nine presets: `SoundPreflow` holds whatever comes next, and `AtPoint`
  adds what holds at one point only: the scale that no excess passes, the path of partial
  augment. Heights only rise, so an arc passed leads down by one again only if its own
  node rose, which then searches anew; and what flows down by one makes at most the arc
  back live, which leads up. Lifting over a gap needs the exact counts, a global relabel
  that distances to the sink fall by at most one along live arcs and are never below the
  heights they replace (`DistanceBounds`). At the end there are fewer inner nodes than
  heights below n, so some height is empty and the cut there saturated (`HeightsCertify`).

`PathLimitAssumption` is needed: with a limit of zero the partial augment preset would
push along an empty path. `Sums` has the lemmas about sums over finite sets that these
proofs, those about costs and those about the checkpoint budget need, and what one arc's
flow changes in a network; they are proved by looking at a least counterexample under
strict inclusion, which the library knows to be well founded, and its induction over the
naturals by looking at the least number.

`MinCostProofs`, from `ProblemsAssumption` and `SolversAssumption`: whatever any of the thirteen
minimum-cost solvers did, a flow it returns through the certificate is feasible
and no feasible flow costs less (`CertifiedIsCheapest`). Potentials that leave no
residual arc with a negative reduced cost make every edge's share of a flow's
reduced cost least; and what potentials add to a flow's cost, summed by edges,
is the sum over the nodes of potential times divergence, which all flows that
deliver the same share (`PotentialsTelescope`). The invariant is short, since
only `Certify` ends with success, and leaves the flow alone.

The same module proves of the five cost scalers, for every problem, that they
keep their flow accounted for, near optimal at every scale and without an arc
passed over (`CostScalersKeepFlow`), and that they stop with a cheapest flow
before any certificate is looked at, or refuse exactly what no flow meets
(`CostScalersStopCheapest`). The inductive invariant is `ScalerKeeps`. Its core is
that in a refinement the falling arcs (residual, not fixed, of negative reduced cost)
descend in some rank of the nodes: a node raised to where it has no falling
arc ranks above all others from then on, and flow along a falling arc opens only the arc
back, which does not fall. So no path in work meets itself, a node
stepped back from may be raised without a falling arc into it, and a cursor has
passed no arc that falls. `ScalerEnds` adds what holds between refinements:
nothing is left to send, and arcs left alone by arc fixing are complementary, so
the error holds for them too. The last step is the code's reason to multiply costs
by one more than the number of nodes: of n + 1 residues one is the residue of no
price, and counting whole multiples from there turns prices with an error of
one into potentials with none (`ErrorOfOneIsNone`). The loops of the code, folds
in the model, are reasoned about as runs of one state per step
(`SaturatedRuns`, `RelaxedRuns`, `DoubledError`): `Sums` proves that the
fold of the community modules is such a run. `ProblemsAssumption` says, besides what
a network is, that nodes and edges are numbered from one, as the canonical
indices are.

And of the three solvers that start from a feasible flow and make it cheaper, for
every problem: what they send flow around is a closed way of distinct residual arcs,
and none is overfilled (`ImproversKeepFlow`, invariant `ImproverKeeps`); when
Bellman-Ford improves nothing in its last pass, or no edge is out of kilter, the
flow is a cheapest one (`ImproversStopCheapest`). The searches are the hard part. A
breadth-first search hangs every node it reaches from one reached before
(`ReachFinds`, `PathIsTracked`): the way back never meets itself. In Bellman-Ford
the arcs that improved nodes may close a cycle, and then that is what is wanted:
`TimedBy` says in which pass a node was improved last, one pass after the node it
was improved from at the earliest, and that the arcs of a node not improved
lately are relaxed. So a node improved in pass n has n improved nodes behind it, one of
them twice (`BackMeetsTwice`), and following the arcs back goes round from there
(`BackGoesRound`, `RoundIsCycle`); and a last pass without improvement leaves
distances that are potentials (`ZeroPassesProve`).

And of the four solvers that route one imbalance after another, for every problem:
they keep flow, excess and prices as they should (`RoutersKeepFlow`, invariant
`RoutingKeeps`), and they stop with a cheapest flow or refuse what has no
feasible flow or a negative cycle (`RoutersStopCheapest`). The
invariant says that some prices make every arc that counts cost at least
nothing (`PricesFor`). With Dijkstra's search they are the solver's own; with
Bellman and Ford's nobody computes them, they are there because the flow was
sent along cheapest paths. Both searches end with a tree in which no arc is a
shortcut (`CheapTree`):

* Dijkstra's, because the soonest open node is never nearer than the one settled
  before (`Spreads`); its distances have the number of arcs as a last digit,
  which never carries (`DigitAdds`), so they order by cost first;
* Bellman and Ford's, because prices exclude a cycle on which distances fall: an
  improvement in pass n would have led round one (`RoundsFall`, `PassesFind`).

The prices then made of the distances prove as much before the flow goes along
the path as after, also where the search stopped early or found no way at all:
distances are cut off at the nearest end (`SendsCheaply`). At the lower bounds, an improvement
in the last pass leads round a cycle that is cheaper than free
(`NegativeCycleUndercuts`), so what is refused as unbounded is. Capacity scaling
counts arcs by their room and saturates what begins to count; excess scaling does not,
and needs another argument: every edge stays as wide as all that is left to send (`Roomy`), so an
arc of any use can carry the scale, and the prices hold on every such arc
(`Steady`). Scales are powers of two, the last is one, and then every arc with room counts.

And of blocking primal-dual, for every problem: flow, prices and cursors are right
and it stops with a cheapest flow (`BlockingKeepsFlow`). Within a phase the path
in work climbs the levels of the breadth-first search, so it never meets itself and an
arc sent over only opens one that leads down (`Climb`, `Slope`); a node retreated from has
no way on, and none opens until the next phase, so its cursor may stay where it is
(`PassedDead`). Together with the theorems before, every one of the thirteen solvers
keeps its flow, prices and cursors after every step (`SolversKeepFlow`), from
`MinCostFlow`'s `SolversAssumption`: the solvers are those of the three families.

**Only model-checked**: that the cancelling of cycles of least mean cost
has a cheapest flow before the certificate looks (`OnlyCheapest`; what the
certificate accepts is proved cheapest for all of them); `Shapely` and
`AnswersExact` of `OrderedMaps`, whose operators are recursive over the trees; all
liveness (fairness and ENABLED are out of the prover's reach).

## Not modelled

Parsing, canonical JSON, provenance digests, generators and random numbers
(string and byte conversions); packet byte layouts; rendering and forms; late
answers of a terminated generator Worker.

Of the flow catalogue, the network simplex family and the polynomial
minimum-cost solvers, and those for assignment, matching, parametric and
almost-linear flow with the dynamic-graph structures they use, are not
modelled: most of the repository's Rust code. Many repeat the loops
modelled here over other data; the almost-linear and interior-point ones
compute with fixed-point numbers and randomly chosen trees whose smallest
interesting instances are far beyond TLC's. Scenes (`scene.rs`) project a
solver's state for display and have no behaviour of their own. One
observation from reading: `synchronous_push_relabel.rs` decides the
relabels of a round by the heights before it and ignores the residual arcs the
round itself creates, so a node may rise past the height its validation allows,
and a valid network is then rejected as `invalid-active-residual-label`. See
`components` in `PROJECT.json` for each part.
