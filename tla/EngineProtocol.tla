----------------------------- MODULE EngineProtocol -----------------------------
(***************************************************************************)
(* The ordered-map workspace and its Worker: the requests the client posts  *)
(* (apps/web/src/App.tsx), the handler of the Worker that serves them       *)
(* (engine-worker.ts, staged-next-coordinator.ts), the client's handling of *)
(* the answers (engine-session-response.ts, use-engine-worker.ts), and the  *)
(* acknowledgement that publishes a session, a step or a seek on both sides.*)
(*                                                                          *)
(* Both directions are message ports: first in, first out, nothing lost.    *)
(* The session of the Worker is the two-phase timeline of OrderedMapSession *)
(* reduced to its committed boundary and its candidate.  A session is named *)
(* by the generation of the request that created it, which also stands for  *)
(* the sessionSerial of the Worker.                                         *)
(***************************************************************************)
EXTENDS Integers, Sequences

CONSTANTS
    ItemCount,        \* items of every timeline
    MaxTurns,         \* timer turns a seek may need
    MaxGeneration     \* bound: requests that open a generation of their own

ASSUME ProtocolAssumption ==
    /\ ItemCount \in Nat
    /\ MaxTurns \in Nat \ {0}
    /\ MaxGeneration \in Nat

VARIABLES
    \* the client
    generation,       \* generation.current
    requestPending,   \* requestPending.current
    frame,            \* the view on screen, or NoView
    decoding,         \* packets whose decode or replay is being awaited
    fatal,            \* "no", or why engine operations are disabled
    \* the message ports
    requests,
    responses,
    \* the Worker
    activeGeneration,
    session,          \* the active WasmSession, or NoSession
    stagedNext,       \* generation of the StagedNextCoordinator, 0 for none
    stagedCurrent,    \* the staged create or seek, or NoCandidate
    navigating,       \* activeFlowNavigationOperation !== undefined
    deferred,         \* deferredFlowNavigation, or NoRequest
    seekTimers        \* generations whose seek loop has a timer armed

clientVars == <<generation, requestPending, frame, decoding, fatal>>
workerVars == <<activeGeneration, session, stagedNext, stagedCurrent,
                navigating, deferred, seekTimers>>
vars == <<clientVars, requests, responses, workerVars>>

Generations == 0 .. MaxGeneration

(***************************************************************************)
(* What is shown, what a session holds, and the messages                    *)
(***************************************************************************)
Views == [session : Generations, cursor : 0 .. ItemCount]
NoView == [session |-> 0, cursor |-> 0]

Seeks == [target : -1 .. ItemCount, left : 0 .. MaxTurns]
NoSeek == [target |-> -1, left |-> 0]
Sessions == [id : Generations, cursor : 0 .. ItemCount, next : BOOLEAN, seek : Seeks]
NoSession == [id |-> 0, cursor |-> 0, next |-> FALSE, seek |-> NoSeek]
View(s) == [session |-> s.id, cursor |-> s.cursor]

Candidates == [kind : {"none", "create", "seek"}, gen : Generations, session : Generations]
NoCandidate == [kind |-> "none", gen |-> 0, session |-> 0]

Navigation == {"next", "seek"}
Edits == {"prepare", "export"}   \* requests that never touch the session
Requests == [kind : Navigation \cup Edits \cup {"create", "current-ack", "commit-ack", "none"},
             gen : Generations, target : 0 .. ItemCount, accepted : BOOLEAN]
Plain(kind, g) == [kind |-> kind, gen |-> g, target |-> 0, accepted |-> FALSE]
SeekRequest(g, t) == [Plain("seek", g) EXCEPT !.target = t]
Ack(kind, g, verdict) == [Plain(kind, g) EXCEPT !.accepted = verdict]
NoRequest == Plain("none", 0)

Packets == {"ready", "seeked", "commit"}
Responses == [kind : Packets \cup {"ended", "prepared", "exported", "input-error", "engine-error"},
              gen : Generations, view : Views, base : 0 .. ItemCount]
Answer(kind, g) == [kind |-> kind, gen |-> g, view |-> NoView, base |-> 0]
Packet(kind, g, view, base) == [kind |-> kind, gen |-> g, view |-> view, base |-> base]
AckKind(response) == IF response.kind = "commit" THEN "commit-ack" ELSE "current-ack"

(***************************************************************************)
(* The client: user requests                                                *)
(***************************************************************************)
Post(request) == requests' = Append(requests, request)

\* A request under a generation of its own, whatever is still outstanding.
OpenGeneration(request) ==
    /\ fatal = "no"
    /\ generation < MaxGeneration
    /\ generation' = generation + 1
    /\ requestPending' = TRUE
    /\ Post(request)
    /\ UNCHANGED <<frame, decoding, fatal, responses, workerVars>>

Load == OpenGeneration(Plain("create", generation + 1))

\* set-algorithm, generate, prepare-dsl, import-scenario; export-scenario, format-dsl.
Edit == \E kind \in Edits : OpenGeneration(Plain(kind, generation + 1))

\* The slider, Home, End, a step backward over a boundary, and the renderer
\* recovery, which seeks to the cursor on screen.
Seek ==
    /\ frame # NoView
    /\ \E t \in 0 .. ItemCount : OpenGeneration(SeekRequest(generation + 1, t))

\* A step over a boundary; it stays in the generation of the frame on screen.
StepForward ==
    /\ fatal = "no"
    /\ ~requestPending
    /\ frame # NoView /\ frame.cursor < ItemCount
    /\ requestPending' = TRUE
    /\ Post(Plain("next", generation))
    /\ UNCHANGED <<generation, frame, decoding, fatal, responses, workerVars>>

(***************************************************************************)
(* The Worker: what every request does before it is served                  *)
(***************************************************************************)
Arrived(kind) == requests # <<>> /\ Head(requests).kind = kind
\* Mutant: the generation of a request is not compared.
NeverStale(request) == FALSE
Stale(request) == request.gen < activeGeneration
Blocked(request) ==
    request.kind \in Navigation /\ request.gen = activeGeneration /\ navigating

DropStale ==
    /\ requests # <<>>
    /\ Stale(Head(requests))
    /\ requests' = Tail(requests)
    /\ UNCHANGED <<clientVars, responses, workerVars>>

Defer ==
    /\ requests # <<>>
    /\ Blocked(Head(requests))
    /\ deferred' = Head(requests)
    /\ requests' = Tail(requests)
    /\ UNCHANGED <<clientVars, responses, activeGeneration, session, stagedNext,
                   stagedCurrent, navigating, seekTimers>>

\* Mutant: nothing is withdrawn.
WithdrawnNothing(kind) == session

\* The session after the candidates that this request withdraws.
Withdrawn(kind) ==
    LET rolledBack == IF kind # "commit-ack" /\ stagedNext # 0
                      THEN [session EXCEPT !.next = FALSE] ELSE session
        ownsSeek == stagedCurrent.kind = "seek" /\ stagedCurrent.session = session.id
    IN IF \/ kind \notin {"seek", "current-ack"}
          \/ kind = "seek" /\ ownsSeek
       THEN [rolledBack EXCEPT !.seek = NoSeek]
       ELSE rolledBack

\* Mutant: a new generation inherits the navigation and the parked request.
KeepsAlways(request) == TRUE
Keeps(request) == request.gen = activeGeneration

\* The head of the queue is admitted; a new generation forgets the navigation
\* and the request parked behind it.
Admit(kind) ==
    /\ Arrived(kind)
    /\ ~Stale(Head(requests)) /\ ~Blocked(Head(requests))
    /\ requests' = Tail(requests)
    /\ activeGeneration' = Head(requests).gen
    /\ deferred' = IF Keeps(Head(requests)) THEN deferred ELSE NoRequest
    /\ UNCHANGED clientVars

StillNavigating == navigating /\ Keeps(Head(requests))

\* Requests other than an acknowledgement find nothing staged.
NothingStaged == stagedNext' = 0 /\ stagedCurrent' = NoCandidate

Respond(response) == responses' = Append(responses, response)

(***************************************************************************)
(* The Worker: one action per request                                       *)
(***************************************************************************)
\* The new session is a candidate beside the active one; invalid input is reported.
ServeCreate ==
    /\ Admit("create")
    /\ session' = Withdrawn("create")
    /\ stagedNext' = 0
    /\ navigating' = StillNavigating
    /\ LET g == Head(requests).gen
       IN \/ /\ stagedCurrent' = [kind |-> "create", gen |-> g, session |-> g]
             /\ Respond(Packet("ready", g, [session |-> g, cursor |-> 0], 0))
          \/ /\ stagedCurrent' = NoCandidate
             /\ Respond(Answer("input-error", g))
    /\ UNCHANGED seekTimers

\* The answer to a preparation replaces the scenario, that to an export does not.
ServeEdit ==
    /\ \E kind \in Edits :
        /\ Admit(kind)
        /\ session' = Withdrawn(kind)
        /\ LET g == Head(requests).gen
           IN \/ Respond(Answer(IF kind = "prepare" THEN "prepared" ELSE "exported", g))
              \/ Respond(Answer("input-error", g))
    /\ NothingStaged
    /\ navigating' = StillNavigating
    /\ UNCHANGED seekTimers

\* stage_next_json refuses a session with a candidate; a bounded resource may
\* run out.  The navigation begins and ends within the turn.
ServeNext ==
    /\ Admit("next")
    /\ navigating' = FALSE
    /\ stagedCurrent' = NoCandidate
    /\ LET s == Withdrawn("next")
           g == Head(requests).gen
           refused == s.id = 0 \/ s.next \/ s.seek # NoSeek
       IN IF refused \/ s.cursor = ItemCount
          THEN /\ session' = s /\ stagedNext' = 0
               /\ Respond(Answer(IF refused THEN "engine-error" ELSE "ended", g))
          ELSE \/ /\ session' = [s EXCEPT !.next = TRUE] /\ stagedNext' = g
                  /\ Respond(Packet("commit", g,
                                    [session |-> s.id, cursor |-> s.cursor + 1], s.cursor))
               \/ /\ session' = s /\ stagedNext' = 0
                  /\ Respond(Answer("input-error", g))
    /\ UNCHANGED seekTimers

\* One turn of the seek loop of generation g over session s, with `staged` the
\* candidate it leaves alone.  (A progress report changes only the status line.)
SeekTurn(s, g, staged) ==
    \/ /\ s.seek.left > 1
       /\ session' = [s EXCEPT !.seek.left = @ - 1]
       /\ stagedCurrent' = staged
       /\ seekTimers' = seekTimers \cup {g}
       /\ UNCHANGED responses
    \/ /\ s.seek.left <= 1
       /\ session' = [s EXCEPT !.seek.left = 0]
       /\ stagedCurrent' = [kind |-> "seek", gen |-> g, session |-> s.id]
       /\ Respond(Packet("seeked", g, [session |-> s.id, cursor |-> s.seek.target], 0))
       /\ seekTimers' = seekTimers \ {g}
    \/ /\ session' = [s EXCEPT !.seek = NoSeek]
       /\ stagedCurrent' = staged
       /\ Respond(Answer("input-error", g))
       /\ seekTimers' = seekTimers \ {g}

\* begin_seek does not look for a staged step, and replaces a staged seek.  The
\* first turn runs at once.  Only a seek without a session ends the navigation.
ServeSeek ==
    /\ Admit("seek")
    /\ stagedNext' = 0
    /\ LET s == Withdrawn("seek")
           g == Head(requests).gen
       IN IF s.id = 0
          THEN /\ Respond(Answer("engine-error", g))
               /\ session' = s
               /\ stagedCurrent' = NoCandidate
               /\ navigating' = FALSE
               /\ UNCHANGED seekTimers
          ELSE /\ navigating' = TRUE
               /\ \E turns \in 1 .. MaxTurns :
                    SeekTurn([s EXCEPT !.seek = [target |-> Head(requests).target,
                                                 left |-> turns]],
                             g, NoCandidate)

\* The timer of a seek loop: a loop of another generation just ends.
SeekTimer(g) ==
    /\ g \in seekTimers
    /\ IF g # activeGeneration \/ session.id = 0
       THEN /\ seekTimers' = seekTimers \ {g}
            /\ UNCHANGED <<session, stagedCurrent, responses>>
       ELSE IF session.seek = NoSeek
            THEN /\ Respond(Answer("engine-error", g))
                 /\ seekTimers' = seekTimers \ {g}
                 /\ UNCHANGED <<session, stagedCurrent>>
            ELSE SeekTurn(session, g, stagedCurrent)
    /\ UNCHANGED <<clientVars, requests, activeGeneration, stagedNext, navigating, deferred>>

\* acknowledgeCurrent: the verdict on a new session or a seek, matched by generation.
ServeCurrentAck ==
    /\ Admit("current-ack")
    /\ LET ack == Head(requests)
           s == Withdrawn("current-ack")
           mine == stagedCurrent.kind # "none" /\ stagedCurrent.gen = ack.gen
           create == stagedCurrent.kind = "create"
           owned == stagedCurrent.session = s.id
       IN /\ stagedCurrent' = IF mine THEN NoCandidate ELSE stagedCurrent
          /\ session' =
                CASE ~mine -> s
                  [] mine /\ ack.accepted /\ create ->
                        [NoSession EXCEPT !.id = stagedCurrent.session]
                  [] mine /\ ~create /\ owned ->
                        [s EXCEPT !.cursor = IF ack.accepted THEN s.seek.target ELSE @,
                                  !.seek = NoSeek]
                  [] OTHER -> s
          /\ IF mine /\ ack.accepted /\ ~create /\ ~owned
             THEN Respond(Answer("engine-error", ack.gen))
             ELSE UNCHANGED responses
    /\ stagedNext' = 0
    /\ navigating' = StillNavigating
    /\ UNCHANGED seekTimers

\* StagedNextCoordinator.acknowledge: the verdict on a step.
ServeCommitAck ==
    /\ Admit("commit-ack")
    /\ LET ack == Head(requests)
           s == Withdrawn("commit-ack")
           mine == stagedNext # 0 /\ stagedNext = ack.gen
       IN IF s.id = 0
          THEN /\ Respond(Answer("engine-error", ack.gen))
               /\ session' = s /\ UNCHANGED stagedNext
          ELSE /\ session' = IF ~mine THEN s
                             ELSE [s EXCEPT !.next = FALSE,
                                            !.cursor = IF ack.accepted /\ s.next
                                                       THEN @ + 1 ELSE @]
               /\ stagedNext' = IF mine THEN 0 ELSE stagedNext
               /\ UNCHANGED responses
    /\ stagedCurrent' = NoCandidate
    /\ navigating' = StillNavigating
    /\ UNCHANGED seekTimers

(***************************************************************************)
(* The client: answers                                                      *)
(***************************************************************************)
\* Mutant: the generation of an answer is not compared.
AlwaysCurrent(response) == TRUE
Current(response) == response.gen = generation
\* Mutant: a refused packet is acknowledged like a shown one.
VerdictYes(response, accepted) == Post(Ack(AckKind(response), response.gen, TRUE))
Verdict(response, accepted) == Post(Ack(AckKind(response), response.gen, accepted))

\* An answer of an older generation is ignored; a packet among them is refused.
DropAnswer ==
    /\ responses # <<>>
    /\ ~Current(Head(responses))
    /\ responses' = Tail(responses)
    /\ IF Head(responses).kind \in Packets
       THEN Verdict(Head(responses), FALSE)
       ELSE UNCHANGED requests
    /\ UNCHANGED <<clientVars, workerVars>>

ReceivePacket ==
    /\ responses # <<>>
    /\ Current(Head(responses)) /\ Head(responses).kind \in Packets
    /\ responses' = Tail(responses)
    /\ decoding' = decoding \cup {[packet |-> Head(responses), base |-> NoView]}
    /\ UNCHANGED <<generation, requestPending, frame, fatal, requests, workerVars>>

\* The answers that carry no frame.
ReceiveAnswer ==
    /\ responses # <<>>
    /\ Current(Head(responses)) /\ Head(responses).kind \notin Packets
    /\ responses' = Tail(responses)
    /\ requestPending' = FALSE
    /\ frame' = IF Head(responses).kind = "prepared" THEN NoView ELSE frame
    /\ fatal' = IF Head(responses).kind = "engine-error" THEN "fault" ELSE fatal
    /\ UNCHANGED <<generation, decoding, requests, workerVars>>

\* Mutant: the request that a packet answers stays pending.
ShowOnly(d) ==
    /\ frame' = d.packet.view
    /\ Verdict(d.packet, TRUE)
    /\ UNCHANGED <<fatal, requestPending>>

Show(d) ==
    /\ frame' = d.packet.view
    /\ requestPending' = FALSE
    /\ Verdict(d.packet, TRUE)
    /\ UNCHANGED fatal

Refuse(d, reason) ==
    /\ Verdict(d.packet, FALSE)
    /\ IF Current(d.packet)
       THEN fatal' = reason /\ requestPending' = FALSE
       ELSE UNCHANGED <<fatal, requestPending>>
    /\ UNCHANGED frame

\* A packet was decoded: the generation is compared again.  A step goes on to the
\* replay of its patches, from the frame that is on screen now.
Decoded(d) ==
    /\ d \in decoding /\ d.base = NoView
    /\ IF Current(d.packet) /\ d.packet.kind = "commit" /\ frame # NoView
       THEN /\ decoding' = (decoding \ {d}) \cup {[d EXCEPT !.base = frame]}
            /\ UNCHANGED <<frame, requestPending, fatal, requests>>
       ELSE /\ decoding' = decoding \ {d}
            /\ IF Current(d.packet) /\ d.packet.kind # "commit"
               THEN Show(d)
               ELSE Refuse(d, "fault")
    /\ UNCHANGED <<generation, responses, workerVars>>

\* The patches were replayed on the base frame, which must be the step's base item.
Replayed(d) ==
    /\ d \in decoding /\ d.base # NoView
    /\ decoding' = decoding \ {d}
    /\ IF d.base.cursor = d.packet.base /\ Current(d.packet)
       THEN Show(d)
       ELSE Refuse(d, "fault")
    /\ UNCHANGED <<generation, responses, workerVars>>

\* A packet that fails its validation disables the engine.
Invalid(d) ==
    /\ d \in decoding /\ Current(d.packet)
    /\ decoding' = decoding \ {d}
    /\ Refuse(d, "packet")
    /\ UNCHANGED <<generation, responses, workerVars>>

(***************************************************************************)
(* The specification                                                        *)
(***************************************************************************)
Init ==
    /\ generation = 0
    /\ requestPending = FALSE
    /\ frame = NoView
    /\ decoding = {}
    /\ fatal = "no"
    /\ requests = <<>>
    /\ responses = <<>>
    /\ activeGeneration = 0
    /\ session = NoSession
    /\ stagedNext = 0
    /\ stagedCurrent = NoCandidate
    /\ navigating = FALSE
    /\ deferred = NoRequest
    /\ seekTimers = {}

User == Load \/ Edit \/ Seek \/ StepForward

Serve ==
    \/ DropStale
    \/ Defer
    \/ ServeCreate
    \/ ServeEdit
    \/ ServeNext
    \/ ServeSeek
    \/ ServeCurrentAck
    \/ ServeCommitAck

Receive == DropAnswer \/ ReceivePacket \/ ReceiveAnswer
Finish(d) == Decoded(d) \/ Replayed(d)

Next ==
    \/ User
    \/ Serve
    \/ \E g \in Generations : SeekTimer(g)
    \/ Receive
    \/ \E d \in decoding : Finish(d) \/ Invalid(d)

Spec == Init /\ [][Next]_vars

\* Both event loops run: a queued message is handled, an armed timer fires, an
\* awaited decode resolves.
FairSpec ==
    /\ Spec
    /\ WF_vars(Serve)
    /\ \A g \in Generations : WF_vars(SeekTimer(g))
    /\ WF_vars(Receive)
    /\ WF_vars(\E d \in decoding : Finish(d))

(***************************************************************************)
(* Properties                                                               *)
(***************************************************************************)

\* Every variable has its type: the refs of the client, the module state of the
\* Worker, and the messages between them.
TypeOK ==
    /\ generation \in Generations
    /\ requestPending \in BOOLEAN
    /\ frame \in Views
    /\ decoding \subseteq [packet : Responses, base : Views]
    /\ fatal \in {"no", "packet", "fault"}
    /\ requests \in Seq(Requests)
    /\ responses \in Seq(Responses)
    /\ activeGeneration \in Generations
    /\ session \in Sessions
    /\ stagedNext \in Generations
    /\ stagedCurrent \in Candidates
    /\ navigating \in BOOLEAN
    /\ deferred \in Requests
    /\ seekTimers \subseteq Generations

Accepting(kind, g) == \E i \in 1 .. Len(requests) :
    requests[i].kind = kind /\ requests[i].gen = g /\ requests[i].accepted

\* What the Worker will hold once the acceptances under way have arrived.
Settled ==
    CASE stagedNext # 0 /\ Accepting("commit-ack", stagedNext) ->
            [session |-> session.id, cursor |-> session.cursor + 1]
      [] stagedCurrent.kind = "create" /\ Accepting("current-ack", stagedCurrent.gen) ->
            [session |-> stagedCurrent.session, cursor |-> 0]
      [] stagedCurrent.kind = "seek" /\ Accepting("current-ack", stagedCurrent.gen) ->
            [session |-> session.id, cursor |-> session.seek.target]
      [] OTHER -> View(session)

\* Whenever a frame is on screen it is the session and the boundary the Worker
\* holds, up to acceptances still in the port: rejections, stale packets, failed
\* loads and cancelled seeks never leave the two sides at different boundaries.
Agreement == frame # NoView => frame = Settled

\* At most one publication awaits its verdict, it is of the active generation and
\* of the active session, and a seek among them has reached its target: what
\* the session's own operations take for granted and do not check.
OneCandidate ==
    /\ session.next <=> stagedNext # 0
    /\ session.next => session.seek = NoSeek /\ stagedCurrent = NoCandidate
    /\ stagedNext \in {0, activeGeneration}
    /\ stagedCurrent # NoCandidate => stagedCurrent.gen = activeGeneration
    /\ stagedCurrent.kind = "create" => session.seek = NoSeek
    /\ stagedCurrent.kind = "seek" =>
        /\ stagedCurrent.session = session.id
        /\ session.seek # NoSeek /\ session.seek.left = 0

\* A seek that is still replaying has exactly its own loop driving it, and the
\* loop of a seek that was cancelled never picks up the next one.
OneSeekLoop == session.seek.left > 0 <=> activeGeneration \in seekTimers

\* No order of requests, acknowledgements and answers makes the session refuse a
\* step or a seek, a verdict miss its session, or a step meet a frame other than
\* its base: only a damaged packet disables the engine.
NoFault == fatal # "fault"

\* A request is parked only behind the navigation of its own generation, and only
\* a step can be: finishing a step therefore never finds a parked request to run.
ParkedBehindSeek ==
    deferred # NoRequest =>
        /\ navigating
        /\ deferred.kind = "next" /\ deferred.gen = activeGeneration

\* The active seek is alone: no loop of a cancelled one runs beside it, and
\* nothing but a step of its generation waits for it.
SeekAlone == OneSeekLoop /\ ParkedBehindSeek

\* The Worker's session moves only to the session and boundary already on screen.
PublishedFirst == [][View(session') # View(session) => frame = View(session')]_vars

\* Every request of the client is resolved, by an answer or by the packet it asked
\* for, except a step that is parked in the Worker.
RequestsSettle == requestPending ~> (~requestPending \/ deferred # NoRequest)

\* A step request is answered: after it the client accepts the next one.
StepsAnswered == (\E i \in 1 .. Len(requests) : requests[i].kind = "next") ~> ~requestPending
===============================================================================
