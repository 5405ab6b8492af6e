-------------------------------- MODULE MCArena --------------------------------
(* The arena on a few slots and generations, and the walk of                *)
(* validate_snapshot as the code performs it.                               *)
EXTENDS Arena

\* One round of the loop over the free list: the cursor moves to the next slot
\* unless it meets an index already visited, out of bounds or not vacant.
WalkRound(s, w) ==
    IF w.cursor = 0 \/ ~w.ok THEN w
    ELSE IF w.cursor \in w.visited \/ w.cursor \notin Tagged(s, "vacant")
    THEN [w EXCEPT !.ok = FALSE]
    ELSE [w EXCEPT !.visited = @ \cup {w.cursor}, !.cursor = s[w.cursor].next]

\* The cursor after the whole loop: one round per slot and one more to meet a
\* cycle.
Walked(s, head) ==
    LET w[n \in 0 .. Len(s) + 2] ==
            IF n = 0 THEN [cursor |-> head, visited |-> {}, ok |-> TRUE]
            ELSE WalkRound(s, w[n - 1])
    IN w[Len(s) + 2]

\* Mutant: reusable slots that the list misses are not noticed.
WalkAcceptsPart(s, head) == Walked(s, head).ok /\ Walked(s, head).cursor = 0

WalkAccepts(s, head) ==
    LET w == Walked(s, head)
    IN w.ok /\ w.cursor = 0 /\ Cardinality(w.visited) = Cardinality(Tagged(s, "vacant"))

\* The walk of validate_snapshot accepts exactly the free lists that visit
\* every vacant slot once, on the arena in use and on a damaged checkpoint.
WalkExact ==
    /\ WalkAccepts(slots, freeHead) = FreeList(slots, freeHead)
    /\ image.complete =>
           WalkAccepts(image.records, image.freeHead) = FreeList(image.records, image.freeHead)
================================================================================
