--------------------------------- MODULE Arena ---------------------------------
(***************************************************************************)
(* The generational arena of visualizer-core (arena.rs): a vector of slots *)
(* with a linked free list, the checkpoint of it, and the two codec        *)
(* continuations that write and read a checkpoint a few records at a time. *)
(* Every node of an ordered-map structure lives in such an arena and is    *)
(* named by its key.                                                       *)
(*                                                                         *)
(* Indices count from 1 and 0 stands for `None`.  SlotLimit stands for     *)
(* u32::MAX as a number of slots, MaxGeneration for u32::MAX as a          *)
(* generation.  `live`, `issued` and `saved` are auxiliary: the history    *)
(* the callers know, never read by an action's guard.                      *)
(***************************************************************************)
EXTENDS Integers, Sequences, FiniteSets

CONSTANTS Values, NoValue, SlotLimit, MaxGeneration, MaxBudget

ASSUME ArenaAssumption ==
    /\ NoValue \notin Values
    /\ Values # {}
    /\ SlotLimit \in Nat \ {0}
    /\ MaxGeneration \in Nat \ {0}
    /\ MaxBudget \in Nat \ {0}

VARIABLES
    slots, freeHead, len,   \* GenerationalArena
    image,                  \* the checkpoint being written, then its bytes
    restore,                \* the restore continuation
    live, issued, saved     \* auxiliary

arena == <<slots, freeHead, len>>
history == <<live, issued, saved>>
vars == <<slots, freeHead, len, image, restore, live, issued, saved>>

Keys == [index : 1..SlotLimit, generation : 0..MaxGeneration]

Slot == {s \in [tag : {"occupied", "vacant", "retired"}, generation : 0..MaxGeneration,
                 value : Values \cup {NoValue}, next : 0..SlotLimit] :
             s.tag = "occupied" <=> s.value # NoValue}

Occupied(g, v) == [tag |-> "occupied", generation |-> g, value |-> v, next |-> 0]
Vacant(g, n) == [tag |-> "vacant", generation |-> g, value |-> NoValue, next |-> n]
Retired(g) == [tag |-> "retired", generation |-> g, value |-> NoValue, next |-> 0]

Tagged(s, t) == {i \in DOMAIN s : s[i].tag = t}

KeyAt(s, i) == [index |-> i, generation |-> s[i].generation]

\* Mutant: the generation of the key is not compared.
GetByIndex(s, k) ==
    IF k.index \in Tagged(s, "occupied") THEN s[k.index].value ELSE NoValue

Get(s, k) ==
    IF /\ k.index \in Tagged(s, "occupied")
       /\ s[k.index].generation = k.generation
    THEN s[k.index].value ELSE NoValue

\* `order` lists the n vacant slots as the free list visits them from `head`.
FreeOrder(s, head, n, order) ==
    /\ head = IF n = 0 THEN 0 ELSE order[1]
    /\ \A j \in 1..n : s[order[j]].next = IF j = n THEN 0 ELSE order[j + 1]
    /\ \A i, j \in 1..n : order[i] = order[j] => i = j
    /\ \A i \in Tagged(s, "vacant") : \E j \in 1..n : order[j] = i

FreeList(s, head) ==
    LET free == Tagged(s, "vacant")
    IN \E order \in [1..Cardinality(free) -> free] :
           FreeOrder(s, head, Cardinality(free), order)

\* validate_snapshot: the walk over the free list is stated by what it accepts.
ValidSnapshot(s, head, count) ==
    /\ Len(s) < SlotLimit
    /\ count = Cardinality(Tagged(s, "occupied"))
    /\ FreeList(s, head)

NoImage == [source |-> <<>>, records |-> <<>>, count |-> 0, freeHead |-> 0,
            len |-> 0, complete |-> TRUE]

Idle == [active |-> FALSE, slots |-> <<>>]

Init ==
    /\ slots = <<>> /\ freeHead = 0 /\ len = 0
    /\ image = NoImage
    /\ restore = Idle
    /\ live = [k \in {} |-> NoValue]
    /\ issued = {}
    /\ saved = [live |-> live, issued |-> issued, intact |-> TRUE]

--------------------------------------------------------------------------------
Issue(k, v) ==
    /\ live' = [j \in DOMAIN live \cup {k} |-> IF j = k THEN v ELSE live[j]]
    /\ issued' = issued \cup {k}
    /\ UNCHANGED saved

\* try_insert on a non-empty free list: insert_into_vacant pops its head and
\* keeps the generation the removal gave the slot.
InsertReuse(v) ==
    /\ freeHead # 0
    /\ freeHead \in Tagged(slots, "vacant")
    /\ slots' = [slots EXCEPT ![freeHead] = Occupied(@.generation, v)]
    /\ freeHead' = slots[freeHead].next
    /\ len' = len + 1
    /\ Issue(KeyAt(slots, freeHead), v)
    /\ UNCHANGED <<image, restore>>

\* try_insert on an empty free list: a new slot, while an index is left.
InsertGrow(v) ==
    /\ freeHead = 0
    /\ Len(slots) < SlotLimit
    /\ slots' = Append(slots, Occupied(1, v))
    /\ len' = len + 1
    /\ Issue([index |-> Len(slots) + 1, generation |-> 1], v)
    /\ UNCHANGED <<freeHead, image, restore>>

\* get_mut: a value is replaced in place.
Write(k, v) ==
    /\ Get(slots, k) # NoValue
    /\ slots' = [slots EXCEPT ![k.index].value = v]
    /\ live' = [live EXCEPT ![k] = v]
    /\ UNCHANGED <<freeHead, len, image, restore, issued, saved>>

\* Mutant: the generation stays, so the removed key fits the next node.
ReplacementSameGeneration(k) == Vacant(k.generation, freeHead)

\* What a removal leaves in the slot: at the last generation it is retired.
Replacement(k) ==
    IF k.generation < MaxGeneration THEN Vacant(k.generation + 1, freeHead)
    ELSE Retired(k.generation)

\* Mutant: a retired slot becomes the head of the free list.
RemoveRelinks(k) ==
    /\ Get(slots, k) # NoValue
    /\ slots' = [slots EXCEPT ![k.index] = Replacement(k)]
    /\ freeHead' = k.index
    /\ len' = len - 1
    /\ live' = [j \in DOMAIN live \ {k} |-> live[j]]
    /\ UNCHANGED <<image, restore, issued, saved>>

\* remove: a stale key has no effect.
Remove(k) ==
    /\ Get(slots, k) # NoValue
    /\ slots' = [slots EXCEPT ![k.index] = Replacement(k)]
    /\ freeHead' = IF k.generation # MaxGeneration THEN k.index ELSE freeHead
    /\ len' = len - 1
    /\ live' = [j \in DOMAIN live \ {k} |-> live[j]]
    /\ UNCHANGED <<image, restore, issued, saved>>

--------------------------------------------------------------------------------
\* snapshot and begin_encode_snapshot: the header is written at once.
BeginEncode ==
    /\ image.complete
    /\ ~restore.active
    /\ image' = [source |-> slots, records |-> <<>>, count |-> Len(slots),
                 freeHead |-> freeHead, len |-> len, complete |-> FALSE]
    /\ saved' = [live |-> live, issued |-> issued, intact |-> TRUE]
    /\ UNCHANGED <<slots, freeHead, len, restore, live, issued>>

Lesser(a, b) == IF a < b THEN a ELSE b

\* Mutant: a slice reads the arena in use instead of the snapshot.
EncodeSliceLive(budget) ==
    LET from == Len(image.records)
        end == Lesser(from + budget, Len(image.source))
    IN /\ ~image.complete
       /\ image' = [image EXCEPT
              !.records = @ \o SubSeq(slots, from + 1, end),
              !.complete = (end = Len(image.source))]
       /\ UNCHANGED <<arena, restore, history>>

\* ArenaEncodeContinuation::resume with a budget of records.
EncodeSlice(budget) ==
    LET from == Len(image.records)
        end == Lesser(from + budget, Len(image.source))
    IN /\ ~image.complete
       /\ image' = [image EXCEPT
              !.records = @ \o SubSeq(image.source, from + 1, end),
              !.complete = (end = Len(image.source))]
       /\ UNCHANGED <<arena, restore, history>>

\* External: the stored bytes lose or gain a record, or a field changes.
Damage ==
    /\ image.complete /\ image # NoImage /\ saved.intact /\ ~restore.active
    /\ \/ /\ image.records # <<>>
          /\ image' = [image EXCEPT !.records = SubSeq(@, 1, Len(@) - 1)]
       \/ image' = [image EXCEPT !.records = Append(@, Retired(1))]
       \/ \E i \in DOMAIN image.records, n \in 0..SlotLimit :
              image' = [image EXCEPT !.records =
                  [image.records EXCEPT ![i] = Vacant(image.records[i].generation, n)]]
       \/ \E n \in 0..SlotLimit : image' = [image EXCEPT !.freeHead = n]
    /\ saved' = [saved EXCEPT !.intact = FALSE]
    /\ UNCHANGED <<arena, restore, live, issued>>

\* begin_restore_snapshot: only the header is parsed.
BeginRestore ==
    /\ image.complete
    /\ image # NoImage
    /\ ~restore.active
    /\ restore' = [active |-> TRUE, slots |-> <<>>]
    /\ UNCHANGED <<arena, image, history>>

\* The last slice: every record is decoded, trailing bytes and snapshots that
\* validate_snapshot rejects are refused, and the restored arena is adopted.
Accepted(s) ==
    /\ Len(image.records) = image.count
    /\ ValidSnapshot(s, image.freeHead, image.len)

Adopt(s) ==
    /\ slots' = s /\ freeHead' = image.freeHead /\ len' = image.len
    /\ IF saved.intact
       THEN live' = saved.live /\ issued' = saved.issued
       ELSE /\ live' = [k \in {KeyAt(s, i) : i \in Tagged(s, "occupied")} |-> Get(s, k)]
            /\ issued' = DOMAIN live'

\* ArenaRestoreContinuation::resume with a budget of records; the arena in use
\* may change between two slices.
RestoreSlice(budget) ==
    LET from == Len(restore.slots)
        end == Lesser(from + budget, image.count)
        decoded == restore.slots \o SubSeq(image.records, from + 1, end)
    IN /\ restore.active
       /\ \/ /\ end > Len(image.records)              \* TruncatedCodec
             /\ restore' = Idle
             /\ UNCHANGED <<arena, live, issued>>
          \/ /\ end <= Len(image.records) /\ end < image.count
             /\ restore' = [restore EXCEPT !.slots = decoded]
             /\ UNCHANGED <<arena, live, issued>>
          \/ /\ end <= Len(image.records) /\ end = image.count
             /\ restore' = Idle
             /\ IF Accepted(decoded) THEN Adopt(decoded)
                ELSE UNCHANGED <<arena, live, issued>>
       /\ UNCHANGED <<image, saved>>

Next ==
    \/ \E v \in Values : InsertReuse(v) \/ InsertGrow(v)
    \/ \E k \in Keys : Remove(k) \/ \E v \in Values : Write(k, v)
    \/ BeginEncode \/ Damage \/ BeginRestore
    \/ \E b \in 1..MaxBudget : EncodeSlice(b) \/ RestoreSlice(b)

Spec == Init /\ [][Next]_vars

--------------------------------------------------------------------------------
\* Type invariant.
TypeOK ==
    /\ slots \in Seq(Slot) /\ Len(slots) <= SlotLimit
    /\ freeHead \in 0..SlotLimit /\ len \in 0..SlotLimit
    /\ image \in [source : Seq(Slot), records : Seq(Slot), count : 0..SlotLimit,
                   freeHead : 0..SlotLimit, len : 0..SlotLimit, complete : BOOLEAN]
    /\ restore \in [active : BOOLEAN, slots : Seq(Slot)]
    /\ DOMAIN live \subseteq issued /\ issued \subseteq Keys
    /\ \A k \in DOMAIN live : live[k] \in Values

\* The free list holds every reusable slot once and nothing else, and `len`
\* counts the occupied ones: what removal, reuse and an accepted checkpoint
\* must keep together, or an insertion overwrites a node in use.
FreeListExact ==
    /\ FreeList(slots, freeHead)
    /\ len = Cardinality(Tagged(slots, "occupied"))

\* A key resolves to the value stored under it until it is removed, and to
\* nothing ever after, however often its slot is reused or retired.
KeysResolve ==
    \A k \in issued :
        Get(slots, k) = IF k \in DOMAIN live THEN live[k] ELSE NoValue

\* A checkpoint written and read back in slices of any budgets is accepted
\* whole: the records read so far are those of the snapshot.  The exception is
\* an arena that has used every index, which validate_snapshot refuses.
SlicesFaithful ==
    saved.intact =>
        /\ image.records = SubSeq(image.source, 1, Len(image.records))
        /\ restore.slots = SubSeq(image.source, 1, Len(restore.slots))
        /\ image.complete /\ image.count < SlotLimit =>
               Accepted(image.source)

Store == INSTANCE KeyedStore

\* The arena is a keyed store that never hands out a key twice and whose
\* checkpoints return to the keys and values they saved.
ImplementsStore == Store!Spec
================================================================================
