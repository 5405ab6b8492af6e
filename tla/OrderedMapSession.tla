--------------------------- MODULE OrderedMapSession ---------------------------
(***************************************************************************)
(* The ordered-map session of the WASM engine                               *)
(* (crates/visualizer-wasm/src/lib.rs, OrderedMapSession): one timeline of  *)
(* recorded operations, the live algorithm, a step or a seek that is staged *)
(* until the main thread accepts its frame, and the checkpoints that seeks, *)
(* rollbacks and the background index replay from.                          *)
(*                                                                          *)
(* An algorithm instance is abstracted to the sequence of timeline items    *)
(* that were applied to it, so an item applied twice, skipped, or left half *)
(* done is a different state from the one its cursor claims.                *)
(***************************************************************************)
EXTENDS Integers, Sequences, FiniteSets, FiniteSetsExt

CONSTANTS
    ItemCount,          \* work.len()
    Interval,           \* CHECKPOINT_INTERVAL
    Chunk,              \* items a timer turn replays (128 in the Worker)
    MaxCheckpoints,     \* MAX_CHECKPOINTS
    MaxCheckpointBytes, \* MAX_CHECKPOINT_BYTES
    Sizes,              \* estimates an algorithm instance may report
    Failing,            \* items the algorithm refuses, or that outgrow the entity bound
    Unrecordable,       \* items whose recorded step cannot be published
    OversizedFrames     \* boundaries whose full frame exceeds the packet bound

Items == 1 .. ItemCount
Boundaries == 0 .. ItemCount

ASSUME SessionAssumption ==
    /\ ItemCount \in Nat
    /\ Interval \in Nat \ {0}
    /\ Chunk \in Nat \ {0}
    /\ Interval % Chunk = 0
    /\ MaxCheckpoints \in Nat \ {0}
    /\ MaxCheckpointBytes \in Nat
    /\ Sizes \subseteq Nat
    /\ Failing \subseteq Items
    /\ Unrecordable \subseteq Items
    /\ OversizedFrames \subseteq Boundaries

VARIABLES
    algorithm,          \* items applied to the live instance, in order
    cursor,             \* committed boundary
    stagedNext,         \* a step is applied to `algorithm` but not committed
    stagedSeek,         \* the seek candidate: its instance, cursor and target
    seekPhase,          \* where the Worker's seek loop stands
    checkpoints,        \* set of [cursor, bytes, algorithm]
    checkpointBytes,    \* running total of the checkpoints' estimates
    indexing,           \* index_algorithm.is_some()
    indexAlgorithm,     \* instance of the background index
    indexCursor         \* seek_coverage()

liveVars == <<algorithm, cursor, stagedNext>>
seekVars == <<stagedSeek, seekPhase>>
checkpointVars == <<checkpoints, checkpointBytes>>
indexVars == <<indexing, indexAlgorithm, indexCursor>>
vars == <<liveVars, seekVars, checkpointVars, indexVars>>

(***************************************************************************)
(* Algorithm instances                                                      *)
(***************************************************************************)
HalfDone == 0
Instances == Seq(Items \cup {HalfDone})

\* The instance that has replayed exactly the first `c` items.
Prefix(c) == [i \in 1 .. c |-> i]

\* `h` after the items from+1 .. to of the timeline were applied to it.
Replayed(h, from, to) ==
    [i \in 1 .. Len(h) + (to - from) |->
        IF i <= Len(h) THEN h[i] ELSE from + (i - Len(h))]

\* An operation that failed may have changed part of the structure.
Torn(h) == Append(h, HalfDone)

ReplayFails(from, to) == \E i \in Failing : from < i /\ i <= to
\* Mutant: the failure is charged to the first item of the chunk.
FirstOfChunk(from, to) == from + 1
FirstFailure(from, to) ==
    CHOOSE i \in Failing :
        /\ from < i /\ i <= to
        /\ \A j \in Failing : from < j /\ j <= to => i <= j

(***************************************************************************)
(* Checkpoints                                                              *)
(***************************************************************************)
Checkpoint == [cursor : Boundaries, bytes : Nat, algorithm : Instances]

Latest(S) == CHOOSE p \in S : \A q \in S : q.cursor <= p.cursor
Earliest(S) == CHOOSE p \in S : \A q \in S : p.cursor <= q.cursor

UpTo(t) == {p \in checkpoints : p.cursor <= t}

\* The distance between the two neighbours of an inner checkpoint of S.
Gap(S, p) ==
    Earliest({q \in S : q.cursor > p.cursor}).cursor
        - Latest({q \in S : q.cursor < p.cursor}).cursor

\* Mutant: the oldest inner checkpoint goes, wherever the gaps are.
OldestInner(S) ==
    IF Cardinality(S) <= 2 THEN Earliest(S) ELSE Earliest(S \ {Earliest(S)})

CheckpointToEvict(S) ==
    IF Cardinality(S) <= 2
    THEN Earliest(S)
    ELSE LET inner == S \ {Earliest(S), Latest(S)}
             narrowest == {p \in inner : \A q \in inner : Gap(S, p) <= Gap(S, q)}
         IN Earliest(narrowest)

\* Mutant: the byte budget is forgotten.
HasRoomByCount(state, size) == Cardinality(state.kept) < MaxCheckpoints

HasRoom(state, size) ==
    /\ Cardinality(state.kept) < MaxCheckpoints
    /\ state.bytes + size <= MaxCheckpointBytes

\* Mutant: the bytes of an evicted checkpoint stay counted.
EvictUncounted(state) ==
    [state EXCEPT !.kept = state.kept \ {CheckpointToEvict(state.kept)}]

\* One eviction; the total saturates at zero.
Evict(state) ==
    LET evicted == CheckpointToEvict(state.kept)
    IN [kept |-> state.kept \ {evicted},
        bytes |-> IF evicted.bytes > state.bytes THEN 0 ELSE state.bytes - evicted.bytes]

\* What is left of the checkpoints, and of their total, after n evictions.
AfterEvictions ==
    LET left[n \in 0 .. Cardinality(checkpoints)] ==
        IF n = 0
        THEN [kept |-> checkpoints, bytes |-> checkpointBytes]
        ELSE Evict(left[n - 1])
    IN left

\* Admission evicts one checkpoint at a time until the new one fits, and only
\* then is the instance cloned into the list.  Without any checkpoint left and
\* still no room, nothing is stored.
StoreCheckpoint(c, instance) ==
    \E size \in Sizes :
        IF \/ \E p \in checkpoints : p.cursor = c
           \/ size > MaxCheckpointBytes
           \/ MaxCheckpoints = 0
        THEN UNCHANGED checkpointVars
        ELSE \E n \in 0 .. Cardinality(checkpoints) :
                LET left == AfterEvictions[n]
                    new == [cursor |-> c, bytes |-> size, algorithm |-> instance]
                IN /\ HasRoom(left, size) \/ n = Cardinality(checkpoints)
                   /\ \A m \in 0 .. n - 1 : ~HasRoom(AfterEvictions[m], size)
                   /\ IF HasRoom(left, size)
                      THEN checkpoints' = left.kept \cup {new} /\ checkpointBytes' = left.bytes + size
                      ELSE checkpoints' = left.kept /\ checkpointBytes' = left.bytes

\* Mutant: the live instance is stored, whoever reached the boundary.
StoreLiveCheckpoint(c, instance) ==
    IF c % Interval = 0 \/ c = ItemCount
    THEN StoreCheckpoint(c, algorithm)
    ELSE UNCHANGED checkpointVars

\* maybe_store_active_checkpoint, with the cursor and instance just committed.
StoreActiveCheckpoint(c, instance) ==
    IF c % Interval = 0 \/ c = ItemCount
    THEN StoreCheckpoint(c, instance)
    ELSE UNCHANGED checkpointVars

(***************************************************************************)
(* Stepping: the live instance is advanced in place, and rolled back from   *)
(* the nearest checkpoint when the step is not published.                   *)
(***************************************************************************)
Scratch == [cursor |-> 0, bytes |-> 0, algorithm |-> Prefix(0)]
RollbackBase == IF UpTo(cursor) = {} THEN Scratch ELSE Latest(UpTo(cursor))

\* Mutant: nothing is rolled back.
RestoreNothing(abandoned) == algorithm' = abandoned

\* restore_current_boundary; a failing replay leaves `abandoned` in place.
RestoreBoundary(abandoned) ==
    LET base == RollbackBase
    IN algorithm' = IF ReplayFails(base.cursor, cursor)
                    THEN abandoned
                    ELSE Replayed(base.algorithm, base.cursor, cursor)

\* stage_next_json: an error return for a pending step or seek, and
\* `undefined` at the end, change nothing.
CanStage == ~stagedNext /\ seekPhase = "none" /\ cursor < ItemCount

\* Mutant: the refusal of the algorithm is ignored.
StageNextUnchecked ==
    /\ CanStage
    /\ cursor + 1 \notin Unrecordable
    /\ algorithm' = Replayed(algorithm, cursor, cursor + 1)
    /\ stagedNext' = TRUE
    /\ UNCHANGED <<cursor, seekVars, checkpointVars, indexVars>>

StageNext ==
    /\ CanStage
    /\ cursor + 1 \notin Failing \cup Unrecordable
    /\ algorithm' = Replayed(algorithm, cursor, cursor + 1)
    /\ stagedNext' = TRUE
    /\ UNCHANGED <<cursor, seekVars, checkpointVars, indexVars>>

StageNextFails ==
    /\ CanStage
    /\ cursor + 1 \in Failing \cup Unrecordable
    /\ RestoreBoundary(IF cursor + 1 \in Failing
                       THEN Torn(algorithm)
                       ELSE Replayed(algorithm, cursor, cursor + 1))
    /\ UNCHANGED <<cursor, stagedNext, seekVars, checkpointVars, indexVars>>

CommitStagedNext ==
    /\ stagedNext
    /\ stagedNext' = FALSE
    /\ cursor' = cursor + 1
    /\ StoreActiveCheckpoint(cursor + 1, algorithm)
    /\ UNCHANGED <<algorithm, seekVars, indexVars>>

DiscardStagedNext ==
    /\ stagedNext
    /\ stagedNext' = FALSE
    /\ RestoreBoundary(algorithm)
    /\ UNCHANGED <<cursor, seekVars, checkpointVars, indexVars>>

(***************************************************************************)
(* Seeking: a clone is replayed in chunks and replaces the live instance    *)
(* only when its frame is accepted.                                         *)
(***************************************************************************)
NoSeek == [algorithm |-> Prefix(0), cursor |-> 0, target |-> 0]

\* Mutant: checkpoints serve backward seeks only.
SeekBaseBackward(t) == {p \in UpTo(t) : p = Latest(UpTo(t)) /\ t < cursor}

\* The checkpoint a seek to t replays from, if it beats the live instance.
SeekBase(t) ==
    {p \in UpTo(t) :
        /\ p = Latest(UpTo(t))
        /\ t < cursor \/ t - p.cursor < t - cursor}

\* Mutant: the cursor of the checkpoint with the live instance.
SeekStartMixed(t) ==
    IF SeekBase(t) # {}
    THEN [(CHOOSE p \in SeekBase(t) : TRUE) EXCEPT !.algorithm = algorithm]
    ELSE IF t < cursor THEN Scratch
    ELSE [cursor |-> cursor, bytes |-> 0, algorithm |-> algorithm]

SeekStart(t) ==
    IF SeekBase(t) # {} THEN CHOOSE p \in SeekBase(t) : TRUE
    ELSE IF t < cursor THEN Scratch
    ELSE [cursor |-> cursor, bytes |-> 0, algorithm |-> algorithm]

BeginSeek(t) ==
    /\ stagedSeek' = [algorithm |-> SeekStart(t).algorithm,
                      cursor |-> SeekStart(t).cursor,
                      target |-> t]
    /\ seekPhase' = "replaying"
    /\ UNCHANGED <<liveVars, checkpointVars, indexVars>>

\* Mutant: a chunk that is not the last is empty.
ChunkEndStuck(from, limit) == IF from + Chunk < limit THEN from ELSE limit

ChunkEnd(from, limit) == IF from + Chunk < limit THEN from + Chunk ELSE limit

ResumeSeek ==
    /\ seekPhase = "replaying"
    /\ LET from == stagedSeek.cursor
           to == ChunkEnd(from, stagedSeek.target)
           stop == IF ReplayFails(from, to) THEN FirstFailure(from, to) - 1 ELSE to
           done == to = stagedSeek.target
           instance == Replayed(stagedSeek.algorithm, from, stop)
       IN /\ stagedSeek' =
                [stagedSeek EXCEPT
                    !.cursor = stop,
                    !.algorithm = IF ReplayFails(from, to) THEN Torn(instance)
                                  ELSE instance]
          /\ seekPhase' =
                IF ReplayFails(from, to) \/ (done /\ to \in OversizedFrames)
                THEN "failed"
                ELSE IF done THEN "offered" ELSE "replaying"
    /\ UNCHANGED <<liveVars, checkpointVars, indexVars>>

CommitStagedSeek ==
    /\ seekPhase # "none"
    /\ algorithm' = stagedSeek.algorithm
    /\ cursor' = stagedSeek.cursor
    /\ StoreActiveCheckpoint(stagedSeek.cursor, stagedSeek.algorithm)
    /\ stagedSeek' = NoSeek
    /\ seekPhase' = "none"
    /\ UNCHANGED <<stagedNext, indexVars>>

DiscardStagedSeek ==
    /\ seekPhase # "none"
    /\ stagedSeek' = NoSeek
    /\ seekPhase' = "none"
    /\ UNCHANGED <<liveVars, checkpointVars, indexVars>>

(***************************************************************************)
(* The background index: an independent instance that lays checkpoints      *)
(* down the whole timeline.  A failing item drops the instance.             *)
(***************************************************************************)
ResumeSeekIndex ==
    /\ indexing
    /\ LET to == ChunkEnd(indexCursor, ItemCount)
           instance == Replayed(indexAlgorithm, indexCursor, to)
       IN IF ReplayFails(indexCursor, to)
          THEN /\ indexCursor' = FirstFailure(indexCursor, to) - 1
               /\ indexing' = FALSE
               /\ indexAlgorithm' = Prefix(0)
               /\ UNCHANGED checkpointVars
          ELSE /\ indexCursor' = to
               /\ indexing' = (to # ItemCount)
               /\ indexAlgorithm' = IF to = ItemCount THEN Prefix(0) ELSE instance
               /\ StoreActiveCheckpoint(to, instance)
    /\ UNCHANGED <<liveVars, seekVars>>

(***************************************************************************)
(* The session under the Worker's call order.  Every request except the     *)
(* acknowledgement of a step discards the staged step before it is served,  *)
(* and only a seek whose final frame was offered can be accepted.           *)
(***************************************************************************)
Init ==
    /\ algorithm = Prefix(0)
    /\ cursor = 0
    /\ stagedNext = FALSE
    /\ stagedSeek = NoSeek
    /\ seekPhase = "none"
    /\ \E size \in Sizes :
        IF size <= MaxCheckpointBytes
        THEN /\ checkpoints = {[cursor |-> 0, bytes |-> size, algorithm |-> Prefix(0)]}
             /\ checkpointBytes = size
        ELSE checkpoints = {} /\ checkpointBytes = 0
    /\ indexing = TRUE
    /\ indexAlgorithm = Prefix(0)
    /\ indexCursor = 0

WorkerSeeks == ~stagedNext /\ \E t \in Boundaries : BeginSeek(t)
WorkerCommitsSeek == seekPhase = "offered" /\ CommitStagedSeek

Next ==
    \/ StageNext
    \/ StageNextFails
    \/ CommitStagedNext
    \/ DiscardStagedNext
    \/ WorkerSeeks
    \/ ResumeSeek
    \/ WorkerCommitsSeek
    \/ DiscardStagedSeek
    \/ ResumeSeekIndex

Spec == Init /\ [][Next]_vars

\* The Worker re-arms a zero timer after every unfinished chunk.
FairSpec == Spec /\ WF_vars(ResumeSeek) /\ WF_vars(ResumeSeekIndex)
(***************************************************************************)
(* Properties                                                               *)
(***************************************************************************)

\* Every variable has its type: cursors are boundaries, instances are sequences
\* of items, the candidate's target is a boundary (the session's fields).
TypeOK ==
    /\ algorithm \in Instances
    /\ cursor \in Boundaries
    /\ stagedNext \in BOOLEAN
    /\ stagedSeek \in [algorithm : Instances, cursor : Boundaries, target : Boundaries]
    /\ seekPhase \in {"none", "replaying", "offered", "failed"}
    /\ checkpoints \subseteq Checkpoint
    /\ checkpointBytes \in Nat
    /\ indexing \in BOOLEAN
    /\ indexAlgorithm \in Instances
    /\ indexCursor \in Boundaries

\* The live instance, which steps mutate in place, has replayed exactly the
\* committed items, or one more while a step awaits its verdict: no rollback,
\* failed step or accepted seek leaves instance and cursor apart.
LiveAtBoundary ==
    /\ algorithm = Prefix(IF stagedNext THEN cursor + 1 ELSE cursor)
    /\ stagedNext => cursor < ItemCount /\ seekPhase = "none"

\* A candidate that can be accepted holds exactly the items up to its target.
CandidateAtTarget ==
    seekPhase = "offered" =>
        /\ stagedSeek.cursor = stagedSeek.target
        /\ stagedSeek.algorithm = Prefix(stagedSeek.target)

\* A checkpoint restores the boundary it is filed under, whichever of a step, a
\* seek and the background index stored it, and no boundary is filed twice.
CheckpointsExact ==
    \A p \in checkpoints :
        /\ p.algorithm = Prefix(p.cursor)
        /\ \A q \in checkpoints : p.cursor = q.cursor => p = q

\* Evictions and admissions keep the running total equal to what the stored
\* checkpoints report, so the budget is judged by what is really held.
CheckpointTotal == checkpointBytes = MapThenSumSet(LAMBDA p : p.bytes, checkpoints)

\* Steps, seeks and the index together never hold more checkpoints, or more
\* bytes of them, than the bounds allow.
CheckpointBudget ==
    /\ checkpointBytes <= MaxCheckpointBytes
    /\ Cardinality(checkpoints) <= MaxCheckpoints

\* Rolling a step back never meets an item that fails: the error return of
\* restore_current_boundary, which would leave the session torn, is unreachable.
RollbackNeverFails == ~ReplayFails(RollbackBase.cursor, cursor)

\* The background index reports the end of the timeline, or stopped in front of
\* an item that fails; it never goes quiet anywhere else.
IndexStopsForCause ==
    ~indexing => indexCursor = ItemCount \/ indexCursor + 1 \in Failing

\* A seek replays no more items than from any checkpoint at or below its target
\* or, going forward, from the live instance.
ShortestReplay ==
    [][WorkerSeeks =>
          LET t == stagedSeek'.target
          IN /\ \A p \in UpTo(t) : p.cursor <= stagedSeek'.cursor
             /\ cursor <= t => cursor <= stagedSeek'.cursor
             /\ stagedSeek'.cursor <= t]_vars

\* Every estimate is small enough for the full number of checkpoints: evictions
\* answer the count bound only, and there are inner checkpoints to choose from.
BytesNeverBind ==
    /\ MaxCheckpoints >= 3
    /\ \A size \in Sizes : size * MaxCheckpoints <= MaxCheckpointBytes

\* Where bytes never bind, no order of steps, seeks and index stores lets the
\* evictions starve a part of the timeline the index has covered: a replay is
\* shorter than the interval of the stored boundaries, or than the timeline
\* over half the checkpoints.  Both ends of the timeline stay stored.
SeeksStayShort ==
    /\ \E p \in checkpoints : p.cursor = 0
    /\ ~indexing /\ indexCursor = ItemCount => \E p \in checkpoints : p.cursor = ItemCount
    /\ \A t \in 0 .. indexCursor :
        LET replay == t - Latest(UpTo(t)).cursor
        IN replay < Interval \/ (replay + 1) * ((MaxCheckpoints - 1) \div 2) <= ItemCount

\* What an instance contains, as the boundary it stands for.
NotABoundary == ItemCount + 2
Contained(h) == IF h = Prefix(Len(h)) THEN Len(h) ELSE NotABoundary

\* The session implements the two-phase timeline, judged by what its instances
\* contain: while a step is staged the boundary is what a rollback would rebuild.
Abstract == INSTANCE Timeline WITH
    boundary <- Contained(IF stagedNext
                          THEN Replayed(RollbackBase.algorithm, RollbackBase.cursor, cursor)
                          ELSE algorithm),
    candidate <- CASE stagedNext -> Contained(algorithm)
                   [] seekPhase = "offered" -> Contained(stagedSeek.algorithm)
                   [] OTHER -> ItemCount + 1

ImplementsTimeline == Abstract!Spec

\* Once no new seek replaces it, a running seek is offered or fails.
SeekSettles == <>[][~WorkerSeeks]_vars => <>[](seekPhase # "replaying")

\* The background index comes to an end whatever the session does meanwhile.
IndexSettles == <>[]~indexing

\* Chunked replay always comes to its end, a seek's and the index's.
ReplaysSettle == SeekSettles /\ IndexSettles
===============================================================================
