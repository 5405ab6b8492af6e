------------------------------ MODULE TraceReplay ------------------------------
(***************************************************************************)
(* One ordered-map operation after another, recorded on the engine side    *)
(* (OrderedMapTraceRecorder) and walked back and forth on the client side  *)
(* (TraceReplayController and the detail cursor of apps/web/src/App.tsx).  *)
(*                                                                         *)
(* The engine records the events of an operation as patches of a shadow    *)
(* state, verifies the shadow against independent snapshots and hands the  *)
(* patches to the client.  The client replays them once forwards and once  *)
(* backwards before it accepts them, then moves to the event the user asks *)
(* for, one event at a time.  A large patch is applied in slices between   *)
(* which the page goes on working, so a move takes several steps and is    *)
(* chained behind the move before it.                                      *)
(***************************************************************************)
EXTENDS TraceState, Sequences

CONSTANTS Targets(_),   \* the states the events recorded in a state may lead to
          Bases,        \* the states the first operation may start from
          MaxEvents,    \* MAX_TRACE_EVENTS
          MaxRecords,   \* MAX_PATCH_RECORDS
          MaxTotal      \* bound: events recorded in all operations together

ASSUME BasesAssumption ==
    \A st \in Bases : st \in TraceStates /\ Indexed(st) /\ FullyValid(st)

VARIABLES
    phase,    \* "recording", "delivered", "browsing" or "failed"
    shadow,   \* recorder: its TraceState
    log,      \* recorder: the patch of every event
    cli,      \* client: the state of the controller
    clog,     \* client: the patches of the commit it holds
    at,       \* client: events of the commit that are applied (rawEventIndex + 1)
    half,     \* client: the rest of a patch whose application has yielded
    queue,    \* client: the movement chain, targets of the moves not finished
    live,     \* client: the last move of the chain belongs to the current effect
    pending,  \* client: replayMovementPending
    cursor,   \* client: the event the detail cursor stands at
    shown,    \* client: the frame on display and the position published with it
    fault,    \* client: the commit or a move was refused
    total,    \* bound: events recorded so far
    hist,     \* auxiliary: the recorded states, the base first
    chist     \* auxiliary: hist of the commit the client holds

engine == <<phase, shadow, log, hist, total>>
controller == <<cli, clog, at, half, queue, chist>>
page == <<live, pending, cursor, shown, fault>>
vars == <<engine, controller, page>>

Last(s) == s[Len(s)]
Whole == Absent   \* the value of half when no patch is half applied

-----------------------------------------------------------------------------
Init ==
    /\ phase = "recording"
    /\ shadow \in Bases
    /\ log = <<>>
    /\ total = 0
    /\ hist = <<shadow>>
    /\ cli = shadow
    /\ clog = <<>>
    /\ at = 0
    /\ half = Whole
    /\ queue = <<>>
    /\ live = FALSE
    /\ pending = FALSE
    /\ cursor = 0
    /\ shown = [at |-> 0, state |-> shadow]
    /\ fault = FALSE
    /\ chist = <<shadow>>

(***************************************************************************)
(* record_transition, and record for an event that changes nothing.  The   *)
(* patch is built from the shadow state by the operation; a patch of an    *)
(* earlier event is one that has gone stale.                               *)
(***************************************************************************)
Used == LET used[i \in 0 .. Len(log)] ==
              IF i = 0 THEN 0 ELSE used[i - 1] + Size(log[i])
        IN  used[Len(log)]

MayRecord == phase = "recording" /\ Len(log) < MaxEvents /\ total < MaxTotal

RecordTransition(p) ==
    /\ MayRecord
    /\ Used + Size(p) <= MaxRecords
    /\ LET result == Apply(shadow, p, TRUE)
       IN  /\ shadow' = result.state
           /\ IF result.ok THEN /\ log' = Append(log, p)
                                /\ hist' = Append(hist, Replaced(shadow, p))
                                /\ total' = total + 1
                           ELSE UNCHANGED <<log, hist, total>>
    /\ UNCHANGED <<phase, controller, page>>

RecordEvent ==
    /\ MayRecord
    /\ log' = Append(log, Diff(shadow, shadow))
    /\ hist' = Append(hist, shadow)
    /\ total' = total + 1
    /\ UNCHANGED <<phase, shadow, controller, page>>

(***************************************************************************)
(* verify_final: the independent snapshots pass the full validation and    *)
(* equal the shadow state, or the operation fails.                         *)
(***************************************************************************)
Finish ==
    /\ phase = "recording"
    /\ log # <<>>
    /\ phase' = IF FullyValid(shadow) THEN "delivered" ELSE "failed"
    /\ UNCHANGED <<shadow, log, hist, total, controller, page>>

-----------------------------------------------------------------------------
(***************************************************************************)
(* TraceReplayController.create and its constructor: every patch forwards, *)
(* then every patch backwards.  The state comes from the controller of the *)
(* previous operation when that one stands at its last event with no move  *)
(* under way, and from the frame on display otherwise, or when the commit  *)
(* is so large that it is prepared apart.                                  *)
(***************************************************************************)
CreateBase(large) == IF ~large /\ queue = <<>> /\ at = Len(clog) THEN cli ELSE shown.state

Walk(base) ==
    LET state[i \in 0 .. Len(log)] ==
          IF i = 0 THEN base ELSE Replaced(state[i - 1], log[i])
    IN  state

Replayable(base) ==
    \A i \in 1 .. Len(log) :
        /\ ClientApply(Walk(base)[i - 1], log[i], TRUE).ok
        /\ ClientApply(Walk(base)[i], Reversed(log[i]), FALSE).ok

Open(first, large) ==
    LET base == CreateBase(large)
    IN  /\ phase = "delivered" /\ ~fault
        /\ phase' = "browsing"
        /\ IF Replayable(base)
           THEN /\ cli' = Walk(base)[first]
                /\ clog' = log
                /\ chist' = hist
                /\ at' = first
                /\ half' = Whole
                /\ queue' = <<>>
                /\ cursor' = first
                /\ shown' = [at |-> first, state |-> Walk(base)[first]]
                /\ UNCHANGED <<live, pending, fault>>
           ELSE /\ fault' = TRUE
                /\ UNCHANGED <<controller, live, pending, cursor, shown>>
        /\ UNCHANGED <<shadow, log, hist, total>>

(***************************************************************************)
(* stepForward, stepBackward and onGranularityChange: the detail cursor    *)
(* goes to another event; then the effect of App.tsx:361, which finds the  *)
(* controller there already or chains a move.                              *)
(***************************************************************************)
\* a mutant: a control that does not wait for the move under way
MayMoveAnytime == phase = "browsing" /\ ~fault

MayMove == phase = "browsing" /\ ~fault /\ ~pending

MoveTo(target) ==
    /\ MayMove
    /\ target # cursor
    /\ cursor' = target
    /\ IF at = target
       THEN /\ shown' = [shown EXCEPT !.at = target]
            /\ pending' = FALSE
            /\ live' = FALSE
            /\ UNCHANGED queue
       ELSE /\ pending' = TRUE
            /\ live' = TRUE
            /\ queue' = Append(queue, target)
            /\ UNCHANGED shown
    /\ UNCHANGED <<engine, cli, clog, at, half, chist, fault>>

(***************************************************************************)
(* One turn of the loop of moveToAsyncImmediately: the next patch forwards *)
(* or the last one backwards.  applyAsync validates the whole patch, then  *)
(* commits it in slices; `half` is what a yield leaves for later.          *)
(***************************************************************************)
Forwards == at < Head(queue)
NextPatch == IF Forwards THEN clog[at + 1] ELSE Reversed(clog[at])
Advanced == IF Forwards THEN at + 1 ELSE at - 1

NodesOnly(st, p) ==
    [p EXCEPT !.entries = [e \in {} |-> Absent],
              !.metric = [before |-> st.metric, after |-> st.metric]]

EntriesOnly(st, p) ==
    [p EXCEPT !.nodes = [id \in {} |-> Absent],
              !.root = [before |-> st.root, after |-> st.root]]

Moving == phase = "browsing" /\ ~fault /\ queue # <<>> /\ at # Head(queue)

MoveOne ==
    /\ Moving /\ half = Whole
    /\ LET result == ClientApply(cli, NextPatch, Forwards)
       IN  IF result.ok
           THEN /\ cli' = result.state
                /\ at' = Advanced
                /\ UNCHANGED fault
           ELSE fault' = TRUE /\ UNCHANGED <<cli, at>>
    /\ UNCHANGED <<engine, clog, half, queue, chist, live, pending, cursor, shown>>

MoveHalf ==
    /\ Moving /\ half = Whole
    /\ ClientApply(cli, NextPatch, Forwards).ok
    /\ half' = NextPatch
    /\ cli' = Replaced(cli, NodesOnly(cli, NextPatch))
    /\ UNCHANGED <<engine, clog, at, queue, chist, page>>

MoveRest ==
    /\ Moving /\ half # Whole
    /\ half' = Whole
    /\ cli' = Replaced(cli, EntriesOnly(cli, half))
    /\ at' = Advanced
    /\ UNCHANGED <<engine, clog, queue, chist, page>>

(***************************************************************************)
(* The move is over: its frame is displayed unless the effect that asked   *)
(* for it has been cleaned up.                                             *)
(***************************************************************************)
MoveDone ==
    /\ phase = "browsing" /\ ~fault /\ queue # <<>> /\ at = Head(queue)
    /\ queue' = Tail(queue)
    /\ IF live /\ Len(queue) = 1
       THEN /\ shown' = [at |-> at, state |-> cli]
            /\ pending' = FALSE
            /\ live' = FALSE
       ELSE UNCHANGED <<shown, pending, live>>
    /\ UNCHANGED <<engine, cli, clog, at, half, chist, cursor, fault>>

(***************************************************************************)
(* stepForward at the last event: the next operation is requested.  It     *)
(* starts from the state the engine has; the page does not move details    *)
(* until the commit arrives.                                               *)
(***************************************************************************)
NextOperation ==
    /\ MayMove
    /\ cursor = Len(clog)
    /\ phase' = "recording"
    /\ log' = <<>>
    /\ hist' = <<shadow>>
    /\ UNCHANGED <<shadow, total, controller, page>>

Next ==
    \/ \E to \in Targets(shadow) : to \in TraceStates /\ RecordTransition(Diff(shadow, to))
    \/ \E i \in 1 .. Len(log) : RecordTransition(log[i])
    \/ RecordEvent
    \/ Finish
    \/ \E first \in 1 .. Len(log), large \in BOOLEAN : Open(first, large)
    \/ \E target \in 1 .. Len(clog) : MoveTo(target)
    \/ MoveOne
    \/ MoveHalf
    \/ MoveRest
    \/ MoveDone
    \/ NextOperation

Spec == Init /\ [][Next]_vars

-----------------------------------------------------------------------------
(***************************************************************************)
(* Properties                                                              *)
(***************************************************************************)

\* The indexes that validation relies on are those a full scan would build:
\* after every transaction and after every one that was rolled back, on both
\* sides, even though they are only ever updated for what a patch touches.
IndexesExact ==
    /\ Indexed(shadow)
    /\ half = Whole => Indexed(cli)

\* The recorder stands exactly where its last accepted event left it: a
\* refused transition, stale or dangling, leaves no trace in the state.
RecorderAtLastEvent == shadow = Last(hist) /\ Len(hist) = Len(log) + 1

\* validate_changed_references looks only at what a patch touches.  What it
\* accepts never dangles, and a primary node it fails to see cut off from the
\* root is one that some auxiliary entity, cut off as well, still links to.
OnlyAuxiliariesHide ==
    /\ Resolves(shadow)
    /\ Hidden(shadow) # {} =>
         \E a \in Auxiliary \cap Present(shadow.nodes) :
            shadow.nodes[a].links \cap Hidden(shadow) # {}

\* The client can always follow: it accepts every delivered commit whose
\* recorded states hide no primary node, forwards and backwards, it stands at
\* the state the engine recorded for its event, and the frame on display is
\* the state of the event published with it.
ReplayFaithful ==
    /\ (\A i \in 1 .. Len(hist) : Hidden(hist[i]) = {}) => ~fault
    /\ half = Whole => cli = chist[at + 1]
    /\ shown.state = chist[shown.at + 1]
    /\ ~pending => shown.at = cursor /\ queue = <<>>
===============================================================================
