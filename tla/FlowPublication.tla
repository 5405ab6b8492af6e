---------------------------- MODULE FlowPublication ----------------------------
(***************************************************************************)
(* A flow workspace and its Worker: the requests the client posts           *)
(* (apps/web/src/FlowWorkspace.tsx, use-engine-worker.ts), the asynchronous *)
(* handlers of the Worker that serve them (engine-worker.ts), the three     *)
(* coordinators that hold what awaits a verdict                             *)
(* (publication-candidate-, flow-event-publication- and                     *)
(* flow-seek-publication-coordinator.ts), the lease that a suspended        *)
(* handler holds on its session (flow-session-lease.ts), and the operations *)
(* of FlowSession (crates/visualizer-wasm/src/lib.rs).                      *)
(*                                                                          *)
(* A handler that encodes a publication is suspended by an await, and other *)
(* requests are served meanwhile; the encodings under way resolve in any    *)
(* order.  Both ports are first in, first out.                              *)
(*                                                                          *)
(* A publication is named by the request it answers: the generation and,    *)
(* for a navigation, the request serial, which no two requests share; the   *)
(* operation numbers of the Worker are the name of the request as well.  A  *)
(* session is named by the generation that created it, which also stands    *)
(* for its sessionSerial.                                                   *)
(***************************************************************************)
EXTENDS Integers, Sequences

CONSTANTS
    EventCount,       \* events of every prepared timeline
    Hidden,           \* boundaries the playback granularity does not show
    MaxGeneration,    \* bound: requests that open a generation of their own
    MaxSerial,        \* bound: navigations and pauses of the user
    EditsWhileBusy    \* whether the user edits or reconfigures during a request

ASSUME FlowAssumption ==
    /\ EventCount \in Nat \ {0}
    /\ Hidden \subseteq 1 .. EventCount - 1
    /\ MaxGeneration \in Nat \ {0}
    /\ MaxSerial \in Nat
    /\ EditsWhileBusy \in BOOLEAN

VARIABLES
    \* the client
    generation,       \* generation.current
    serial,           \* seekRequestSerial.current
    status,           \* the FlowStatus that enables and disables the controls
    failed,           \* engineFailed.current: "no", or why the engine is disabled
    autoplay,         \* autoplay.current
    timer,            \* autoplayTimer.current !== undefined
    direction,        \* navigationDirection.current
    scene,            \* the view on screen, or NoView
    lifecycle,        \* the publication being decoded, for the controls
    decoding,         \* publications whose decode is being awaited
    dialog,           \* the modal dialog that is open
    described,        \* what the Worker has described to the dialogs
    unasked,          \* bound: descriptions that may still be asked for
    generating,       \* a generator job runs in its own Worker
    pendingFlowGeneration,  \* generation that publishes a generated scenario, or 0
    \* the port to the Worker, and the Worker with its port to the client
    requests,
    worker

playback == <<autoplay, timer, direction>>
dialogs == <<dialog, described, unasked>>
generator == <<generating, pendingFlowGeneration>>
vars == <<generation, serial, status, failed, playback, scene, lifecycle, decoding,
          dialogs, generator, requests, worker>>

(***************************************************************************)
(* Names, sessions and messages                                             *)
(***************************************************************************)
Generations == 0 .. MaxGeneration
Cursors == 0 .. EventCount
Ids == [gen : Generations, serial : Nat]
Id(g, s) == [gen |-> g, serial |-> s]
NoId == Id(0, 0)

\* A scene: its session, its event, and whether the timeline behind it is solved.
Views == [session : Generations, cursor : Cursors, prepared : BOOLEAN]
View(s, c, p) == [session |-> s, cursor |-> c, prepared |-> p]
NoView == View(0, 0, FALSE)
Extent(view) == IF view.prepared THEN EventCount ELSE 0

Nothing == -1   \* no event is staged
Sessions == [id : Generations, cursor : Cursors, prepared : BOOLEAN,
             next : Cursors \cup {Nothing}, seek : Cursors \cup {Nothing}]
NewSession(g) == [id |-> g, cursor |-> 0, prepared |-> FALSE,
                  next |-> Nothing, seek |-> Nothing]
NoSession == NewSession(0)

Navigation == {"next", "seek"}
Dialogs == {"catalog", "generator"}   \* each asks the Worker for a description, once
Requests == [kind : {"none", "create", "ack"} \cup Navigation \cup Dialogs \cup {"configure"},
             id : Ids, target : Cursors, accepted : BOOLEAN]
Plain(kind, id) == [kind |-> kind, id |-> id, target |-> 0, accepted |-> FALSE]
SeekRequest(id, t) == [Plain("seek", id) EXCEPT !.target = t]
Ack(id, verdict) == [Plain("ack", id) EXCEPT !.accepted = verdict]
NoRequest == Plain("none", NoId)

Publications == {"ready", "update"}
Answers == [kind : Publications \cup Dialogs \cup {"prepared", "ended", "error"}, id : Ids, view : Views,
            source : {"none", "create", "configure", "input", "limit", "refused"}]
Packet(kind, id, view) == [kind |-> kind, id |-> id, view |-> view, source |-> "none"]
Answer(kind, id) == Packet(kind, id, NoView)
\* An error: "create", "configure" and "input" can be corrected, the others disable
\* the engine.
Failure(id, source) == [Answer("error", id) EXCEPT !.source = source]
Fatal == {"limit", "refused"}

\* A handler suspended in its encoding, with the lease on its session.
Encodings == [kind : {"create"} \cup Navigation, id : Ids, view : Views]
Encoding(kind, id, view) == [kind |-> kind, id |-> id, view |-> view]
Owners == [id : Ids, session : Generations]
Nobody == [id |-> NoId, session |-> 0]

(***************************************************************************)
(* The session                                                              *)
(***************************************************************************)
Committed(s) ==
    IF s.next = Nothing THEN s
    ELSE [s EXCEPT !.cursor = s.next, !.prepared = TRUE, !.next = Nothing]
Sought(s) == IF s.seek = Nothing THEN s ELSE [s EXCEPT !.cursor = s.seek, !.seek = Nothing]
WithoutNext(s) == [s EXCEPT !.next = Nothing]
WithoutSeek(s) == [s EXCEPT !.seek = Nothing]

(***************************************************************************)
(* The Worker: navigations.  Each operator gives the Workers that may       *)
(* result; `raised` is the error a navigation throws to whoever started it. *)
(***************************************************************************)
Respond(w, answer) == [w EXCEPT !.answers = Append(@, answer)]
Reported(w, id, source) == IF source = "none" THEN w ELSE Respond(w, Failure(id, source))

Pending(w) ==
    \/ w.stagedFlowCurrent # NoId
    \/ w.stagedFlowEvent # Nobody
    \/ w.stagedFlowSeek # Nobody
Blocked(w) == w.navigation # NoId \/ Pending(w)

Outcome(w, raised) == [worker |-> w, raised |-> raised]
Suspend(w, r, view) ==
    [w EXCEPT !.navigation = r.id, !.encodings = @ \cup {Encoding(r.kind, r.id, view)}]

\* runNext up to its await.  The first step solves the scenario; a frame may exceed
\* its byte limit, which is found before anything is staged.
LaunchNext(w, r) ==
    LET s == w.session
        over == [w EXCEPT !.navigation = NoId]
        target == s.cursor + 1
    IN IF s.id = 0 \/ s.next # Nothing
       THEN {Outcome(over, "refused")}
       ELSE IF target > EventCount
       THEN {Outcome(Respond(over, Answer("ended", r.id)), "none")}
       ELSE {Outcome(over, "input"),
             Outcome([Suspend(w, r, View(s.id, target, TRUE)) EXCEPT !.session.next = target],
                     "none")}

\* runSeek and runFlowSeek up to its await; only a prepared timeline has events to
\* seek to.  A frame beyond its byte limit is reported by runFlowSeek itself.
LaunchSeek(w, r) ==
    LET s == WithoutSeek(w.session)
        begun == [w EXCEPT !.seekOperation = r.id, !.stagedFlowSeek = Nobody, !.session = s]
        over == [begun EXCEPT !.navigation = NoId]
    IN IF s.id = 0
       THEN {Outcome([w EXCEPT !.navigation = NoId], "refused")}
       ELSE IF s.next # Nothing \/ (r.target > 0 /\ ~s.prepared)
       THEN {Outcome(over, "refused")}
       ELSE {Outcome(Respond([over EXCEPT !.seekOperation = NoId], Failure(r.id, "input")),
                     "none"),
             Outcome([Suspend(begun, r, View(s.id, r.target, s.prepared))
                        EXCEPT !.session.seek = r.target],
                     "none")}

Launch(w, r) == IF r.kind = "next" THEN LaunchNext(w, r) ELSE LaunchSeek(w, r)

\* runDeferredFlowNavigation, which nobody awaits: an error it throws is lost.
RunDeferred(w) ==
    IF Blocked(w) \/ w.deferred = NoRequest THEN {w}
    ELSE LET rest == [w EXCEPT !.deferred = NoRequest]
         IN IF w.deferred.id.gen = w.activeGeneration
            THEN {o.worker : o \in Launch(rest, w.deferred)}
            ELSE {rest}

FinishFlowNavigation(w, id) ==
    IF w.navigation = id THEN RunDeferred([w EXCEPT !.navigation = NoId]) ELSE {w}

\* startFlowNavigation for a request just admitted.
StartFlowNavigation(w, r) ==
    UNION {{Reported(x, r.id, o.raised) :
              x \in IF o.worker.navigation = NoId THEN RunDeferred(o.worker) ELSE {o.worker}} :
           o \in Launch(w, r)}

(***************************************************************************)
(* The Worker: an encoding resolves                                         *)
(***************************************************************************)
ResolveCreate(w, e) ==
    {IF e.id.gen # w.activeGeneration THEN w
     ELSE IF w.stagedFlowCurrent # NoId THEN Reported(w, e.id, "create")
     ELSE Respond([w EXCEPT !.stagedFlowCurrent = e.id], Packet("ready", e.id, e.view))}

\* Mutant: a late step stays staged.
WithdrawNothing(w, e) == w
\* runWithActiveFlowSession: only the session that staged the step is touched.
WithdrawStep(w, e) ==
    IF w.session.id = e.view.session THEN [w EXCEPT !.session = WithoutNext(@)] ELSE w

\* A step whose generation or session was replaced is withdrawn from its session.
ResolveNext(w, e) ==
    LET current == e.id.gen = w.activeGeneration /\ w.session.id = e.view.session
    IN IF current /\ w.stagedFlowEvent = Nobody
       THEN FinishFlowNavigation(
              Respond([w EXCEPT !.stagedFlowEvent = [id |-> e.id, session |-> e.view.session]],
                      Packet("update", e.id, e.view)),
              e.id)
       ELSE {Reported(x, e.id, IF current THEN "refused" ELSE "none") :
               x \in FinishFlowNavigation(WithdrawStep(w, e), e.id)}

\* A seek is current while its operation, its generation and its session are; one
\* that is not leaves everything to whoever replaced it.
ResolveSeek(w, e) ==
    LET current == /\ w.seekOperation = e.id
                   /\ e.id.gen = w.activeGeneration
                   /\ w.session.id = e.view.session
    IN IF ~current THEN FinishFlowNavigation(w, e.id)
       ELSE IF w.stagedFlowSeek = Nobody
       THEN FinishFlowNavigation(
              Respond([w EXCEPT !.stagedFlowSeek = [id |-> e.id, session |-> e.view.session]],
                      Packet("update", e.id, e.view)),
              e.id)
       ELSE FinishFlowNavigation(
              Reported([w EXCEPT !.stagedFlowSeek = Nobody, !.seekOperation = NoId,
                                 !.session = WithoutSeek(@)],
                       e.id, "refused"),
              e.id)

Resolve(e) ==
    /\ e \in worker.encodings
    /\ LET w == [worker EXCEPT !.encodings = @ \ {e}]
       IN worker' \in CASE e.kind = "create" -> ResolveCreate(w, e)
                        [] e.kind = "next" -> ResolveNext(w, e)
                        [] e.kind = "seek" -> ResolveSeek(w, e)
    /\ UNCHANGED <<generation, serial, status, failed, playback, scene, lifecycle,
                   decoding, dialogs, generator, requests>>

(***************************************************************************)
(* The Worker: requests                                                     *)
(***************************************************************************)
Stale(w, r) == r.id.gen < w.activeGeneration
Parks(w, r) == r.kind \in Navigation /\ r.id.gen = w.activeGeneration /\ Blocked(w)

\* What every admitted request does first: a new generation forgets the navigation
\* and the parked request; whatever the request is no verdict on is withdrawn.
Admitted(w, r) ==
    LET fresh == r.id.gen > w.activeGeneration
        a == [w EXCEPT !.activeGeneration = r.id.gen,
                       !.navigation = IF fresh THEN NoId ELSE @,
                       !.deferred = IF fresh THEN NoRequest ELSE @]
        ownsEvent == w.stagedFlowEvent # Nobody /\ w.stagedFlowEvent.session = w.session.id
        b == [a EXCEPT !.stagedFlowEvent = Nobody,
                       !.stagedFlowCurrent = NoId,
                       !.session = IF ownsEvent THEN WithoutNext(@) ELSE @]
    IN CASE r.kind = "ack" -> a
         [] r.kind = "seek" -> b
         [] OTHER -> [b EXCEPT !.stagedFlowSeek = Nobody,
                               !.seekOperation = NoId,
                               !.session = WithoutSeek(@)]

\* The scenario may be refused; otherwise its first frame is encoded.
Create(w, r) ==
    {Respond(w, Failure(r.id, "create")),
     [w EXCEPT !.encodings = @ \cup {Encoding("create", r.id, View(r.id.gen, 0, FALSE))}]}

SetAlgorithm(w, r) ==
    {Respond(w, Answer("prepared", r.id)), Respond(w, Failure(r.id, "configure"))}

\* Mutant: the parked request is left where it is.
WakeNobody(w, r, runs) == {w}
\* The request parked behind a publication runs once its verdict is in, or is dropped.
\* An error it throws is reported under the kind of the acknowledgement, so that a
\* resource limit is fatal too.
Wake(w, r, runs) ==
    LET rest == [w EXCEPT !.deferred = NoRequest]
    IN IF w.deferred = NoRequest THEN {w}
       ELSE IF ~runs \/ w.deferred.id.gen # w.activeGeneration THEN {rest}
       ELSE IF Blocked(w) THEN {w}
       ELSE {Reported(o.worker, Id(r.id.gen, 0), IF o.raised = "input" THEN "limit" ELSE o.raised) :
               o \in Launch(rest, w.deferred)}

\* acknowledgeFlowCurrent; a refused session leaves nothing to run on.
Acknowledge(w, r) ==
    LET create == w.stagedFlowCurrent = r.id
        event == w.stagedFlowEvent.id = r.id
        seek == ~event /\ w.stagedFlowSeek.id = r.id
        owned == \/ event /\ w.stagedFlowEvent.session = w.session.id
                 \/ seek /\ w.stagedFlowSeek.session = w.session.id
        session == CASE create /\ r.accepted -> NewSession(r.id.gen)
                     [] event /\ owned ->
                          IF r.accepted THEN Committed(w.session) ELSE WithoutNext(w.session)
                     [] seek /\ owned ->
                          IF r.accepted THEN Sought(w.session) ELSE WithoutSeek(w.session)
                     [] OTHER -> w.session
        judged == [w EXCEPT !.session = session,
                            !.stagedFlowCurrent = IF create THEN NoId ELSE @,
                            !.stagedFlowEvent = IF event THEN Nobody ELSE @,
                            !.stagedFlowSeek = IF seek THEN Nobody ELSE @]
    IN IF create \/ owned THEN Wake(judged, r, ~create \/ r.accepted) ELSE {judged}

Client == <<generation, serial, status, failed, playback, scene, lifecycle, decoding,
            dialogs, generator>>

DropStale ==
    /\ requests # <<>> /\ Stale(worker, Head(requests))
    /\ requests' = Tail(requests)
    /\ UNCHANGED <<Client, worker>>

Defer ==
    /\ requests # <<>> /\ Parks(worker, Head(requests))
    /\ worker' = [worker EXCEPT !.deferred = Head(requests)]
    /\ requests' = Tail(requests)
    /\ UNCHANGED Client

\* The head of the queue, of one of these kinds, is admitted.
Arrives(kinds) ==
    /\ requests # <<>> /\ Head(requests).kind \in kinds
    /\ ~Stale(worker, Head(requests)) /\ ~Parks(worker, Head(requests))
    /\ requests' = Tail(requests)
    /\ UNCHANGED Client

\* The head of the queue and the Worker once it is admitted.
Request == Head(requests)
Ready == Admitted(worker, Request)

ServeCreate == Arrives({"create"}) /\ worker' \in Create(Ready, Request)
ServeNavigation == Arrives(Navigation) /\ worker' \in StartFlowNavigation(Ready, Request)
ServeAck == Arrives({"ack"}) /\ worker' \in Acknowledge(Ready, Request)
ServeSetAlgorithm == Arrives({"configure"}) /\ worker' \in SetAlgorithm(Ready, Request)
\* The catalog and the generator's fixtures are constants.
ServeDescription ==
    /\ Arrives(Dialogs)
    /\ worker' = Respond(Ready, Answer(Request.kind, Request.id))

(***************************************************************************)
(* The client: what the controls allow                                      *)
(***************************************************************************)
Busy ==
    \/ lifecycle # NoId
    \/ status \in {"loading", "solving", "generating", "configuring", "fatal"}
CanAdvance ==
    /\ status = "ready" /\ lifecycle = NoId
    /\ scene # NoView /\ scene.cursor < EventCount

\* A message to the Worker; a request is not posted once the engine is disabled.
Send(messages) == requests' = requests \o messages
Posted(request) == IF failed = "no" THEN <<request>> ELSE <<>>
Post(request) == Send(Posted(request))

\* Status of a workspace that is at rest again.
Resting == IF scene = NoView THEN "error" ELSE "ready"

\* A create request under a generation of its own.
PostCreate ==
    /\ generation < MaxGeneration
    /\ generation' = generation + 1
    /\ status' = "loading"
    /\ Post(Plain("create", Id(generation + 1, 0)))

\* Load leaves a scheduled autoplay step armed; it may refuse the model of its input.
Load ==
    /\ ~Busy /\ dialog = "none"
    /\ \/ PostCreate
       \/ status' = "error" /\ UNCHANGED <<generation, requests>>
    /\ autoplay' = FALSE
    /\ UNCHANGED <<serial, failed, timer, direction, scene, lifecycle, decoding, dialogs,
                   generator, worker>>

\* A navigation of the user, by its kind, target and direction.
Navigate(request, d, continuous) ==
    /\ serial < MaxSerial
    /\ serial' = serial + 1
    /\ status' = "solving"
    /\ direction' = d
    /\ autoplay' = continuous
    /\ Post(request)
    /\ UNCHANGED <<generation, failed, timer, scene, lifecycle, decoding, dialogs, generator,
                   worker>>

\* "Step forward" and "Run trace".
Advance ==
    /\ CanAdvance
    /\ \E continuous \in BOOLEAN :
          Navigate(Plain("next", Id(generation, serial + 1)), 1, continuous)

Direction(target) ==
    CASE target < scene.cursor -> -1 [] target > scene.cursor -> 1 [] OTHER -> 0

\* The slider over raw positions goes where it is told; the other controls (the
\* slider over visible boundaries, first, last, a step backward) look onward, and
\* have keys that a dialog does not take away.
Seek ==
    /\ ~Busy /\ Extent(scene) > 0
    /\ \E t \in 0 .. Extent(scene) :
       \E d \in {Direction(t)} \cup (IF dialog = "none" THEN {0} ELSE {}) :
          Navigate(SeekRequest(Id(generation, serial + 1), t), d, FALSE)

Pause ==
    /\ autoplay
    /\ serial < MaxSerial
    /\ serial' = serial + 1
    /\ autoplay' = FALSE /\ timer' = FALSE /\ direction' = 0
    /\ status' = IF scene = NoView THEN "loading" ELSE "ready"
    /\ UNCHANGED <<generation, failed, scene, lifecycle, decoding, dialogs, generator, requests,
                   worker>>

\* The timer of the trace run fires, whatever happened since it was set.
AutoplayStep ==
    /\ timer
    /\ timer' = FALSE
    /\ serial' = serial + 1
    /\ Post(Plain("next", Id(generation, serial + 1)))
    /\ UNCHANGED <<generation, status, failed, autoplay, direction, scene, lifecycle, decoding,
                   dialogs, generator, worker>>

\* Typing in the editor, which is never disabled.
Type ==
    /\ dialog = "none"
    /\ ~Busy \/ EditsWhileBusy
    /\ status' = "edited"
    /\ UNCHANGED <<generation, serial, failed, playback, scene, lifecycle, decoding, dialogs,
                   generator, requests, worker>>

\* A dialog asks for its contents until it has them.
Open(kind) ==
    /\ ~Busy /\ dialog = "none"
    /\ kind = "generator" => pendingFlowGeneration = 0
    /\ dialog' = kind
    /\ IF kind \in described
       THEN UNCHANGED <<unasked, requests>>
       ELSE /\ unasked > 0
            /\ unasked' = unasked - 1
            /\ Post(Plain(kind, Id(generation, 0)))
    /\ UNCHANGED <<generation, serial, status, failed, playback, scene, lifecycle, decoding,
                   described, generator, worker>>

Generating == status = "generating" \/ pendingFlowGeneration # 0

Close ==
    /\ dialog = "catalog" => status # "configuring"
    /\ dialog = "generator" => ~Generating
    /\ dialog' = "none"
    /\ UNCHANGED <<generation, serial, status, failed, playback, scene, lifecycle, decoding,
                   described, unasked, generator, requests, worker>>

\* An algorithm is chosen, which no request under way prevents; the bound leaves the
\* generation its answer will open.
SelectAlgorithm ==
    /\ dialog = "catalog" /\ "catalog" \in described
    /\ ~Busy \/ EditsWhileBusy
    /\ generation < MaxGeneration
    /\ status' = "configuring"
    /\ Post(Plain("configure", Id(generation, 0)))
    /\ UNCHANGED <<generation, serial, failed, playback, scene, lifecycle, decoding, dialogs,
                   generator, worker>>

\* The generator runs in a Worker of its own; a new job ends the one before.
Generate ==
    /\ dialog = "generator" /\ ~Generating
    /\ ~Busy \/ EditsWhileBusy
    /\ generation < MaxGeneration
    /\ generating' = TRUE
    /\ autoplay' = FALSE
    /\ status' = "generating"
    /\ UNCHANGED <<generation, serial, failed, timer, direction, scene, lifecycle, decoding,
                   dialogs, pendingFlowGeneration, requests, worker>>

\* Its result is loaded, or it failed.
Generated ==
    /\ generating
    /\ generating' = FALSE
    /\ \/ /\ PostCreate
          /\ pendingFlowGeneration' = generation + 1
       \/ /\ status' = Resting
          /\ UNCHANGED <<generation, requests, pendingFlowGeneration>>
    /\ UNCHANGED <<serial, failed, playback, scene, lifecycle, decoding, dialogs, worker>>

\* The job is terminated; a result that is being loaded loses its generation,
\* and nothing is posted.
CancelGeneration ==
    /\ dialog = "generator" /\ Generating
    /\ generating \/ pendingFlowGeneration # 0
    /\ generating' = FALSE
    /\ pendingFlowGeneration' = 0
    /\ IF pendingFlowGeneration = 0
       THEN UNCHANGED generation
       ELSE generation < MaxGeneration /\ generation' = generation + 1
    /\ status' = Resting
    /\ UNCHANGED <<serial, failed, playback, scene, lifecycle, decoding, dialogs, requests,
                   worker>>

(***************************************************************************)
(* The client: answers                                                      *)
(***************************************************************************)
\* The checks on arrival, and the ones after a publication was decoded, which do
\* not look at engineFailed again.
\* Mutant: the serial of a navigation is not compared.
OfAnySerial(answer) == TRUE
OfThisSerial(answer) == answer.id.serial \in {0, serial}
Current(answer) == answer.id.gen = generation /\ OfThisSerial(answer)
Applies(answer) == Current(answer) /\ failed = "no"

Arrived == worker.answers # <<>>
Latest == Head(worker.answers)
TakeAnswer == worker' = [worker EXCEPT !.answers = Tail(@)]

\* What the client does not take; a publication among it is refused.
DropAnswer ==
    /\ Arrived
    /\ ~Applies(Latest) \/ Latest.kind = "ended"
    /\ TakeAnswer
    /\ Send(IF Latest.kind \in Publications THEN <<Ack(Latest.id, FALSE)>> ELSE <<>>)
    /\ UNCHANGED Client

ReceivePublication ==
    /\ Arrived /\ Applies(Latest) /\ Latest.kind \in Publications
    /\ TakeAnswer
    /\ decoding' = decoding \cup {Latest}
    /\ lifecycle' = Latest.id
    /\ UNCHANGED <<generation, serial, status, failed, playback, scene, dialogs, generator,
                   requests>>

\* The scenario with the chosen algorithm is loaded.
ReceivePrepared ==
    /\ Arrived /\ Applies(Latest) /\ Latest.kind = "prepared"
    /\ TakeAnswer
    /\ PostCreate
    /\ dialog' = IF dialog = "catalog" THEN "none" ELSE dialog
    /\ UNCHANGED <<serial, failed, playback, scene, lifecycle, decoding, described, unasked,
                   generator>>

ReceiveDescription ==
    /\ Arrived /\ Applies(Latest) /\ Latest.kind \in Dialogs
    /\ TakeAnswer
    /\ described' = described \cup {Latest.kind}
    /\ UNCHANGED <<generation, serial, status, failed, playback, scene, lifecycle, decoding,
                   dialog, unasked, generator, requests>>

ReceiveError ==
    /\ Arrived /\ Applies(Latest) /\ Latest.kind = "error"
    /\ TakeAnswer
    /\ autoplay' = FALSE
    /\ LET source == Latest.source
           generated == source = "create" /\ pendingFlowGeneration = Latest.id.gen
       IN /\ failed' = IF source \in Fatal THEN source ELSE failed
          /\ pendingFlowGeneration' = IF generated THEN 0 ELSE pendingFlowGeneration
          /\ status' = IF source \in Fatal THEN "fatal"
                       ELSE IF generated \/ source = "configure" THEN Resting
                       ELSE "error"
    /\ UNCHANGED <<generation, serial, timer, direction, scene, lifecycle, decoding, dialogs,
                   generating, requests>>

\* Mutant: only a publication that was shown is concluded.
ConcludedIfShown(d, accepted) ==
    LET concludes == lifecycle = d.id /\ accepted
        generated == concludes /\ d.kind = "ready" /\ pendingFlowGeneration = d.id.gen
    IN /\ lifecycle' = IF concludes THEN NoId ELSE lifecycle
       /\ pendingFlowGeneration' = IF generated THEN 0 ELSE pendingFlowGeneration
       /\ dialog' = IF generated /\ dialog = "generator" THEN "none" ELSE dialog
\* handleAcknowledged, after every verdict.
Concluded(d, accepted) ==
    LET concludes == lifecycle = d.id
        generated == concludes /\ d.kind = "ready" /\ pendingFlowGeneration = d.id.gen
    IN /\ lifecycle' = IF concludes THEN NoId ELSE lifecycle
       /\ pendingFlowGeneration' = IF generated THEN 0 ELSE pendingFlowGeneration
       /\ dialog' = IF generated /\ accepted /\ dialog = "generator" THEN "none" ELSE dialog

Visible(view) == direction = 0 \/ view.cursor \notin Hidden

\* The publication was overtaken while it was decoded.
Overtaken(d) ==
    /\ ~Current(d)
    /\ Send(<<Ack(d.id, FALSE)>>)
    /\ UNCHANGED <<serial, status, autoplay, timer, scene>>

\* It becomes the scene; a trace run that has not ended schedules its next step.
Shown(d) ==
    /\ Current(d) /\ Visible(d.view)
    /\ Send(<<Ack(d.id, TRUE)>>)
    /\ scene' = d.view
    /\ LET goesOn == autoplay /\ d.view.cursor \in 1 .. EventCount - 1
       IN /\ autoplay' = goesOn
          /\ timer' = IF goesOn THEN TRUE ELSE timer
          /\ status' = IF goesOn THEN "solving" ELSE "ready"
    /\ UNCHANGED serial

\* A boundary that is not shown: the next request is posted ahead of the verdict.
Skipped(d) ==
    /\ Current(d) /\ ~Visible(d.view)
    /\ serial' = serial + 1
    /\ status' = "solving"
    /\ LET id == Id(generation, serial + 1)
           onward == IF direction = -1 THEN SeekRequest(id, d.view.cursor - 1)
                     ELSE Plain("next", id)
       IN Send(Posted(onward) \o <<Ack(d.id, TRUE)>>)
    /\ UNCHANGED <<autoplay, timer, scene>>

Decoded(d) ==
    /\ d \in decoding
    /\ decoding' = decoding \ {d}
    /\ Concluded(d, Current(d))
    /\ Overtaken(d) \/ Shown(d) \/ Skipped(d)
    /\ UNCHANGED <<generation, failed, direction, described, unasked, generating, worker>>

\* A publication that fails its validation disables the engine.
Invalid(d) ==
    /\ d \in decoding /\ Current(d)
    /\ decoding' = decoding \ {d}
    /\ Concluded(d, FALSE)
    /\ Send(<<Ack(d.id, FALSE)>>)
    /\ failed' = "packet" /\ status' = "fatal"
    /\ UNCHANGED <<generation, serial, playback, scene, described, unasked, generating,
                   worker>>

(***************************************************************************)
(* The specification                                                        *)
(***************************************************************************)
\* A workspace loads its default scenario when it is mounted.
Init ==
    /\ generation = 1
    /\ serial = 0
    /\ status = "loading"
    /\ failed = "no"
    /\ autoplay = FALSE /\ timer = FALSE /\ direction = 0
    /\ scene = NoView
    /\ lifecycle = NoId
    /\ decoding = {}
    /\ dialog = "none" /\ described = {} /\ unasked = 2
    /\ generating = FALSE /\ pendingFlowGeneration = 0
    /\ requests = <<Plain("create", Id(1, 0))>>
    /\ worker = [activeGeneration |-> 0, session |-> NoSession, stagedFlowCurrent |-> NoId,
                 stagedFlowEvent |-> Nobody, stagedFlowSeek |-> Nobody, seekOperation |-> NoId,
                 navigation |-> NoId, deferred |-> NoRequest, encodings |-> {},
                 answers |-> <<>>]

Act == Load \/ Advance \/ Seek \/ Pause \/ Type \/ (\E kind \in Dialogs : Open(kind)) \/ Close
        \/ SelectAlgorithm \/ Generate \/ CancelGeneration
Serve == DropStale \/ Defer \/ ServeCreate \/ ServeNavigation \/ ServeAck \/ ServeSetAlgorithm
          \/ ServeDescription
Receive == DropAnswer \/ ReceivePublication \/ ReceivePrepared \/ ReceiveDescription
            \/ ReceiveError

Next ==
    \/ Act
    \/ AutoplayStep
    \/ Generated
    \/ Serve
    \/ \E e \in worker.encodings : Resolve(e)
    \/ Receive
    \/ \E d \in decoding : Decoded(d) \/ Invalid(d)

Spec == Init /\ [][Next]_vars

\* Both event loops run: messages are handled, awaited encodings and decodes resolve,
\* timers fire, and the generator comes to its end.
FairSpec ==
    /\ Spec
    /\ WF_vars(Serve)
    /\ WF_vars(\E e \in worker.encodings : Resolve(e))
    /\ WF_vars(Receive)
    /\ WF_vars(\E d \in decoding : Decoded(d))
    /\ WF_vars(AutoplayStep)
    /\ WF_vars(Generated)

(***************************************************************************)
(* Properties                                                               *)
(***************************************************************************)

\* Every variable has its type: the refs of the workspace, the module state of the
\* Worker with its coordinators and its session, and the messages between them.
TypeOK ==
    /\ generation \in Generations /\ serial \in Nat
    /\ status \in {"loading", "ready", "solving", "edited", "error", "fatal", "configuring",
                   "generating"}
    /\ failed \in {"no", "packet"} \cup Fatal
    /\ autoplay \in BOOLEAN /\ timer \in BOOLEAN /\ direction \in {-1, 0, 1}
    /\ scene \in Views
    /\ lifecycle \in Ids
    /\ decoding \subseteq Answers
    /\ dialog \in {"none"} \cup Dialogs /\ described \subseteq Dialogs /\ unasked \in 0 .. 2
    /\ generating \in BOOLEAN /\ pendingFlowGeneration \in Generations
    /\ requests \in Seq(Requests)
    /\ worker.activeGeneration \in Generations
    /\ worker.session \in Sessions
    /\ worker.stagedFlowCurrent \in Ids
    /\ worker.stagedFlowEvent \in Owners /\ worker.stagedFlowSeek \in Owners
    /\ worker.seekOperation \in Ids /\ worker.navigation \in Ids
    /\ worker.deferred \in Requests
    /\ worker.encodings \subseteq Encodings
    /\ worker.answers \in Seq(Answers)

Accepting(id) == \E i \in 1 .. Len(requests) : requests[i] = Ack(id, TRUE)

\* What the Worker will hold once the acceptances under way have arrived.
Settled ==
    LET s == worker.session
        reached == CASE /\ worker.stagedFlowEvent # Nobody
                        /\ Accepting(worker.stagedFlowEvent.id) -> Committed(s)
                     [] /\ worker.stagedFlowSeek # Nobody
                        /\ Accepting(worker.stagedFlowSeek.id) -> Sought(s)
                     [] /\ worker.stagedFlowCurrent # NoId
                        /\ Accepting(worker.stagedFlowCurrent) ->
                          NewSession(worker.stagedFlowCurrent.gen)
                     [] OTHER -> s
    IN View(reached.id, reached.cursor, reached.prepared)

\* The scene on screen is the session and the event the Worker holds, up to
\* acceptances still in the port and to boundaries the granularity does not show.
Agreement ==
    scene # NoView =>
        \/ scene = Settled
        \/ scene.session = Settled.session /\ Settled.cursor \in Hidden

\* At most one publication awaits its verdict; a staged step is held by the
\* coordinator or by its suspended handler, of the same session, and nothing else
\* is staged beside it: no candidate is left that nobody would withdraw.
OneCandidate ==
    LET s == worker.session
        Held(kind, owner, target) ==
            \/ owner # Nobody /\ owner.session = s.id
            \/ \E e \in worker.encodings :
                  e.kind = kind /\ e.view.session = s.id /\ e.view.cursor = target
    IN /\ worker.stagedFlowCurrent = NoId \/ worker.stagedFlowEvent = Nobody
       /\ worker.stagedFlowCurrent = NoId \/ worker.stagedFlowSeek = Nobody
       /\ worker.stagedFlowEvent = Nobody \/ worker.stagedFlowSeek = Nobody
       /\ s.next # Nothing => Held("next", worker.stagedFlowEvent, s.next)
       /\ s.seek # Nothing => Held("seek", worker.stagedFlowSeek, s.seek)
       /\ worker.stagedFlowEvent # Nobody =>
            worker.stagedFlowEvent.session = s.id /\ s.next # Nothing
       /\ worker.stagedFlowSeek # Nobody =>
            worker.stagedFlowSeek.session = s.id /\ s.seek # Nothing

\* A parked navigation that the client still waits for has something to wake it: the
\* navigation or the publication it was parked behind.
ParkedIsAwaited == worker.deferred.id = Id(generation, serial) => Blocked(worker)

\* The engine is never disabled by a session that refuses a request: a candidate of
\* a stale generation is discarded (design.md 43), and a scenario that cannot be loaded
\* leaves the session operable (design.md 241).
NoRefusal == failed # "refused"

\* The controls come back (operationBusy) after every request: none is lost in the
\* Worker, and every publication is concluded.
ControlsReturn == Busy ~> (~Busy \/ failed # "no")
===============================================================================
