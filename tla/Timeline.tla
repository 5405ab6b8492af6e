------------------------------- MODULE Timeline -------------------------------
(***************************************************************************)
(* What an ordered-map session promises to the Worker that owns it: a      *)
(* committed boundary of the timeline, and at most one candidate that is    *)
(* waiting for the verdict of the main thread.  Only an accepted candidate  *)
(* moves the boundary; everything else the session does (replay in chunks,  *)
(* checkpoints, background index, rollback) is invisible here.              *)
(*                                                                          *)
(* The contract is the two-phase publication of the session interface:      *)
(* a boundary and its candidate, not a cursor with an algorithm beside it.  *)
(* Boundaries are therefore what an algorithm CONTAINS, as the number of    *)
(* timeline items it has replayed.                                          *)
(***************************************************************************)
EXTENDS Naturals

CONSTANT ItemCount    \* number of timeline items, a natural number

VARIABLES
    boundary,         \* the boundary an observer of the session may rely on
    candidate         \* the boundary offered for publication, or NoCandidate

vars == <<boundary, candidate>>

Boundaries == 0 .. ItemCount
NoCandidate == ItemCount + 1

Init == boundary = 0 /\ candidate = NoCandidate

\* A prepared frame is offered; nothing is published yet.
Offer ==
    /\ candidate = NoCandidate
    /\ candidate' \in Boundaries
    /\ UNCHANGED boundary

\* The main thread refused the frame, or another request came first.
Withdraw ==
    /\ candidate # NoCandidate
    /\ candidate' = NoCandidate
    /\ UNCHANGED boundary

\* The main thread shows the frame: it becomes the boundary.
Publish ==
    /\ candidate # NoCandidate
    /\ boundary' = candidate
    /\ candidate' = NoCandidate

Next == Offer \/ Withdraw \/ Publish

Spec == Init /\ [][Next]_vars
===============================================================================
