-------------------------- MODULE EngineProtocolProofs --------------------------
(***************************************************************************)
(* The safety properties of EngineProtocol hold for every timeline length,  *)
(* every number of timer turns and every number of generations.             *)
(***************************************************************************)
EXTENDS EngineProtocol, TLAPS

IsAck(r) == r.kind \in {"current-ack", "commit-ack"}
Opens(r) == r.kind \in Edits \cup {"create", "seek"}
Asks(r) == ~IsAck(r)
Yes(r, kind, g) == r.kind = kind /\ r.gen = g /\ r.accepted

(***************************************************************************)
(* The Worker                                                               *)
(***************************************************************************)

\* A session without an identity is empty; a step is staged below the end; a seek
\* has a target, and a candidate a kind.
SessionShape ==
    /\ session.id = 0 => session = NoSession
    /\ session.next => session.cursor < ItemCount
    /\ session.seek.target = -1 => session.seek = NoSeek
    /\ stagedCurrent.kind = "none" => stagedCurrent = NoCandidate

\* A request that opens a generation is newer than what is served and than every
\* request before it; everything else that is under way has been served.
RequestsOrdered ==
    \A i \in 1 .. Len(requests) :
        /\ requests[i].kind # "none"
        /\ 1 <= requests[i].gen /\ requests[i].gen <= generation
        /\ IsAck(requests[i]) => requests[i].gen <= activeGeneration
        /\ Opens(requests[i]) =>
            /\ activeGeneration < requests[i].gen
            /\ \A j \in 1 .. (i - 1) : Asks(requests[j]) => requests[j].gen < requests[i].gen

AnswersServed ==
    /\ activeGeneration <= generation
    /\ frame # NoView => 1 <= generation
    /\ \A i \in 1 .. Len(responses) :
        1 <= responses[i].gen /\ responses[i].gen <= activeGeneration
    /\ \A d \in decoding : 1 <= d.packet.gen /\ d.packet.gen <= activeGeneration
    /\ \A d \in decoding : d.packet.kind \in Packets
    /\ \A g \in seekTimers : 1 <= g /\ g <= activeGeneration

\* A navigation of the active generation is a seek: it is under way as long as the
\* session has one, and no step of this generation has been served.
SeekNavigates ==
    /\ session.seek # NoSeek => navigating
    /\ navigating =>
        /\ \A i \in 1 .. Len(requests) :
            requests[i].kind = "commit-ack" => requests[i].gen # activeGeneration
        /\ \A i \in 1 .. Len(responses) :
            responses[i].kind = "commit" => responses[i].gen # activeGeneration
        /\ \A d \in decoding : d.packet.kind = "commit" => d.packet.gen # activeGeneration

WorkerInv ==
    /\ TypeOK /\ SessionShape /\ RequestsOrdered /\ AnswersServed /\ SeekNavigates
    /\ OneCandidate /\ OneSeekLoop /\ ParkedBehindSeek

(***************************************************************************)
(* Both sides                                                               *)
(***************************************************************************)

\* What a generation is waiting for is in the port, parked, driven by a timer,
\* answered, or a packet that is being decoded.
Idle(q, parked, timers, answers, packets, g) ==
    /\ \A i \in 1 .. Len(q) : Asks(q[i]) => q[i].gen # g
    /\ parked # NoRequest => parked.gen # g
    /\ g \notin timers
    /\ \A k \in 1 .. Len(answers) : answers[k].gen # g
    /\ \A d \in packets : d.packet.gen # g

NoVerdict(q, g) == \A i \in 1 .. Len(q) : IsAck(q[i]) => q[i].gen # g

\* Of one generation, at most one of these exists.  The verdict on a packet is alone
\* in its generation, or ahead of the next request; an acceptance has no request of
\* its own or a later generation before it.
OneAtATime(q, parked, timers, answers, packets) ==
    /\ \A i, j \in 1 .. Len(q) :
        Asks(q[i]) /\ Asks(q[j]) /\ q[i].gen = q[j].gen => i = j
    /\ \A i, j \in 1 .. Len(q) :
        IsAck(q[i]) /\ IsAck(q[j]) /\ q[i].gen = q[j].gen => i = j
    /\ \A i, j \in 1 .. Len(q) : Asks(q[i]) /\ IsAck(q[j]) =>
        /\ q[i].gen = q[j].gen => j < i
        /\ i < j /\ q[j].accepted => q[i].gen < q[j].gen
    /\ \A i \in 1 .. Len(q) :
        /\ parked # NoRequest => parked.gen # q[i].gen
        /\ q[i].gen \notin timers
        /\ \A k \in 1 .. Len(answers) : answers[k].gen # q[i].gen
        /\ \A d \in packets : d.packet.gen # q[i].gen
    /\ parked # NoRequest =>
        /\ parked.gen \notin timers
        /\ \A k \in 1 .. Len(answers) : answers[k].gen # parked.gen
        /\ \A d \in packets : d.packet.gen # parked.gen
    /\ \A k \in 1 .. Len(answers) :
        /\ answers[k].gen \notin timers
        /\ \A l \in 1 .. Len(answers) : answers[k].gen = answers[l].gen => k = l
        /\ \A d \in packets : d.packet.gen # answers[k].gen
    /\ \A d \in packets :
        /\ d.packet.gen \notin timers
        /\ \A e \in packets : d.packet.gen = e.packet.gen => d = e

OneOutstanding == OneAtATime(requests, deferred, seekTimers, responses, decoding)

\* The client knows of it.
PendingKnown ==
    ~requestPending => Idle(requests, deferred, seekTimers, responses, decoding, generation)

\* A packet of the active generation shows the Worker's candidate.
Matches(p) ==
    /\ p.kind = "commit" =>
        /\ stagedNext = activeGeneration
        /\ p.view = [session |-> session.id, cursor |-> session.cursor + 1]
        /\ p.base = session.cursor
    /\ p.kind = "ready" =>
        /\ stagedCurrent = [kind |-> "create", gen |-> activeGeneration, session |-> activeGeneration]
        /\ p.view = [session |-> activeGeneration, cursor |-> 0]
    /\ p.kind = "seeked" =>
        /\ stagedCurrent.kind = "seek"
        /\ p.view = [session |-> session.id, cursor |-> session.seek.target]

PacketsMatch ==
    /\ \A k \in 1 .. Len(responses) : responses[k].gen = activeGeneration => Matches(responses[k])
    /\ \A d \in decoding : d.packet.gen = activeGeneration => Matches(d.packet)
    /\ \A i \in 1 .. Len(requests) : requests[i].gen = activeGeneration =>
        /\ requests[i].kind = "commit-ack" => stagedNext = activeGeneration
        /\ requests[i].kind = "current-ack" => stagedCurrent # NoCandidate
        /\ IsAck(requests[i]) /\ requests[i].accepted => frame # NoView

\* What is shown, or may be, is a session; a step is asked for and answered while a
\* frame is on screen.
FramesExist ==
    /\ frame # NoView => frame.session # 0
    /\ \A k \in 1 .. Len(responses) :
        responses[k].kind \in Packets => responses[k].view.session # 0
    /\ \A d \in decoding : d.packet.view.session # 0
    /\ \A i \in 1 .. Len(requests) :
        requests[i].kind = "next" /\ requests[i].gen = generation => frame # NoView
    /\ \A k \in 1 .. Len(responses) :
        responses[k].kind = "commit" /\ responses[k].gen = generation => frame # NoView
    /\ \A d \in decoding :
        d.packet.kind = "commit" /\ d.packet.gen = generation => frame # NoView

\* A navigation finds a session: it is there, or its acceptance comes first.
SessionFirst ==
    \A i \in 1 .. Len(requests) : requests[i].kind \in Navigation =>
        \/ session.id # 0
        \/ /\ stagedCurrent.kind = "create"
           /\ \E j \in 1 .. (i - 1) : Yes(requests[j], "current-ack", activeGeneration)

\* No handler finds a state it reports as an error of the engine, and a replay
\* starts from the base item of its step.
NothingFails ==
    /\ NoFault
    /\ \A k \in 1 .. Len(responses) : responses[k].kind # "engine-error"
    /\ \A d \in decoding :
        /\ d.base # NoView => d.base.cursor = d.packet.base /\ d.packet.kind = "commit"
        /\ d.packet.kind # "engine-error"

\* Together with WorkerInv this is inductive.
Both ==
    /\ OneOutstanding /\ PendingKnown
    /\ PacketsMatch /\ FramesExist /\ SessionFirst /\ NothingFails /\ Agreement

(***************************************************************************)
(* Queues                                                                   *)
(***************************************************************************)
LEMMA Appended ==
    ASSUME NEW S, NEW q \in Seq(S), NEW x \in S
    PROVE  /\ Append(q, x) \in Seq(S)
           /\ Len(q) \in Nat
           /\ Len(Append(q, x)) = Len(q) + 1
           /\ \A i \in 1 .. Len(q) : Append(q, x)[i] = q[i]
           /\ Append(q, x)[Len(q) + 1] = x
  OBVIOUS

LEMMA Popped ==
    ASSUME NEW S, NEW q \in Seq(S), q # <<>>
    PROVE  /\ Tail(q) \in Seq(S)
           /\ Len(q) \in Nat /\ 1 <= Len(q)
           /\ Head(q) = q[1] /\ Head(q) \in S
           /\ Len(Tail(q)) = Len(q) - 1
           /\ \A i \in 1 .. Len(Tail(q)) : Tail(q)[i] = q[i + 1]
  OBVIOUS

(***************************************************************************)
(* Types                                                                    *)
(***************************************************************************)
LEMMA Values ==
    /\ NoView \in Views /\ NoSeek \in Seeks /\ NoSession \in Sessions
    /\ NoCandidate \in Candidates /\ NoRequest \in Requests
    /\ \A kind \in {"next", "seek", "prepare", "export", "create", "current-ack", "commit-ack"},
          g \in Generations : Plain(kind, g) \in Requests
    /\ \A g \in Generations, t \in 0 .. ItemCount : SeekRequest(g, t) \in Requests
    /\ \A kind \in {"current-ack", "commit-ack"}, g \in Generations, verdict \in BOOLEAN :
          Ack(kind, g, verdict) \in Requests
    /\ \A kind \in {"ended", "prepared", "exported", "input-error", "engine-error"},
          g \in Generations : Answer(kind, g) \in Responses
    /\ \A kind \in Packets, g \in Generations, view \in Views, base \in 0 .. ItemCount :
          Packet(kind, g, view, base) \in Responses
<1> USE ProtocolAssumption
<1>1. /\ NoView \in Views /\ NoSeek \in Seeks /\ NoSession \in Sessions
      /\ NoCandidate \in Candidates
  BY DEF Views, NoView, Seeks, NoSeek, Sessions, NoSession, Candidates, NoCandidate, Generations
<1>2. NoRequest \in Requests
  BY DEF NoRequest, Plain, Requests, Generations
<1>3. \A kind \in {"next", "seek", "prepare", "export", "create", "current-ack", "commit-ack"},
        g \in Generations : Plain(kind, g) \in Requests
  BY DEF Plain, Requests, Navigation, Edits, Generations
<1>4. \A g \in Generations, t \in 0 .. ItemCount : SeekRequest(g, t) \in Requests
  BY DEF SeekRequest, Plain, Requests, Navigation, Generations
<1>5. \A kind \in {"current-ack", "commit-ack"}, g \in Generations, verdict \in BOOLEAN :
        Ack(kind, g, verdict) \in Requests
  BY DEF Ack, Plain, Requests, Generations
<1>6. \A kind \in {"ended", "prepared", "exported", "input-error", "engine-error"},
        g \in Generations : Answer(kind, g) \in Responses
  BY <1>1 DEF Answer, Responses, Generations
<1>7. \A kind \in Packets, g \in Generations, view \in Views, base \in 0 .. ItemCount :
        Packet(kind, g, view, base) \in Responses
  BY DEF Packet, Responses, Generations
<1> QED
  BY <1>1, <1>2, <1>3, <1>4, <1>5, <1>6, <1>7

LEMMA WithdrawnTyped ==
    ASSUME TypeOK, NEW kind
    PROVE  /\ Withdrawn(kind) \in Sessions
           /\ Withdrawn(kind).id = session.id
           /\ Withdrawn(kind).cursor = session.cursor
           /\ Withdrawn(kind).seek \in {session.seek, NoSeek}
           /\ Withdrawn(kind).next \in {session.next, FALSE}
  BY Values DEF TypeOK, Withdrawn, Sessions

(***************************************************************************)
(* The Worker's own invariant                                               *)
(***************************************************************************)
LEMMA Initially == Init => WorkerInv
<1> SUFFICES ASSUME Init PROVE WorkerInv
  OBVIOUS
<1> USE ProtocolAssumption, Values DEF Init
<1>1. TypeOK
  <2>1. requests \in Seq(Requests) /\ responses \in Seq(Responses)
    OBVIOUS
  <2>2. generation \in Generations /\ activeGeneration \in Generations /\ stagedNext \in Generations
    BY DEF Generations
  <2> QED
    BY <2>1, <2>2 DEF TypeOK
<1>2. SessionShape /\ RequestsOrdered /\ AnswersServed /\ SeekNavigates
  BY DEF SessionShape, RequestsOrdered, AnswersServed, SeekNavigates, NoSession, NoSeek
<1>3. OneCandidate /\ OneSeekLoop /\ ParkedBehindSeek
  BY DEF OneCandidate, OneSeekLoop, ParkedBehindSeek, NoSession, NoSeek, NoCandidate
<1> QED
  BY <1>1, <1>2, <1>3 DEF WorkerInv

\* A request that is taken from the port leaves those behind it in order; the
\* request that opens a generation is newer than the one that was active.
LEMMA Taken ==
    ASSUME WorkerInv, NEW h, requests # <<>>, h = Head(requests), requests' = Tail(requests),
           generation' = generation,
           \/ activeGeneration' = activeGeneration
           \/ activeGeneration' = h.gen /\ h.gen >= activeGeneration
    PROVE  /\ h \in Requests /\ h.gen \in 1 .. generation
           /\ requests' \in Seq(Requests) /\ activeGeneration' \in Generations
           /\ activeGeneration <= activeGeneration' /\ activeGeneration' <= generation
           /\ Opens(h) => activeGeneration < h.gen
           /\ IsAck(h) => h.gen <= activeGeneration
           /\ RequestsOrdered'
<1>1. /\ requests \in Seq(Requests) /\ activeGeneration \in Generations /\ generation \in Generations
      /\ activeGeneration <= generation
  BY DEF WorkerInv, TypeOK, AnswersServed
<1>2. /\ requests' \in Seq(Requests)
      /\ Len(requests) \in Nat /\ 1 <= Len(requests) /\ h = requests[1] /\ h \in Requests
      /\ Len(requests') = Len(requests) - 1
      /\ \A i \in 1 .. Len(requests') : requests'[i] = requests[i + 1]
  BY <1>1, Popped
<1>3. h.gen \in Generations
  BY <1>2 DEF Requests
<1>4. /\ 1 <= h.gen /\ h.gen <= generation
      /\ Opens(h) => activeGeneration < h.gen
      /\ IsAck(h) => h.gen <= activeGeneration
      /\ h.kind # "none"
  BY <1>2 DEF WorkerInv, RequestsOrdered
<1>5. activeGeneration' \in Generations /\ activeGeneration <= activeGeneration'
      /\ activeGeneration' <= generation
  BY <1>1, <1>3, <1>4 DEF Generations
<1>6. ASSUME NEW i \in 1 .. Len(requests')
      PROVE  /\ requests'[i].kind # "none"
             /\ 1 <= requests'[i].gen /\ requests'[i].gen <= generation
             /\ IsAck(requests'[i]) => requests'[i].gen <= activeGeneration'
             /\ Opens(requests'[i]) =>
                 /\ activeGeneration' < requests'[i].gen
                 /\ \A j \in 1 .. (i - 1) :
                      Asks(requests'[j]) => requests'[j].gen < requests'[i].gen
  <2>1. /\ i + 1 \in 1 .. Len(requests) /\ i + 1 # 1 /\ 1 \in 1 .. ((i + 1) - 1)
        /\ requests'[i] = requests[i + 1] /\ requests[i + 1] \in Requests
        /\ requests[i + 1].gen \in Generations
    <3>1. i + 1 \in 1 .. Len(requests) /\ i + 1 # 1 /\ 1 \in 1 .. ((i + 1) - 1)
      BY <1>2
    <3>2. requests[i + 1] \in Requests
      BY <1>1, <3>1
    <3> QED
      BY <1>2, <3>1, <3>2 DEF Requests
  <2>2. /\ requests[i + 1].kind # "none"
        /\ 1 <= requests[i + 1].gen /\ requests[i + 1].gen <= generation
        /\ IsAck(requests[i + 1]) => requests[i + 1].gen <= activeGeneration
        /\ Opens(requests[i + 1]) =>
            /\ activeGeneration < requests[i + 1].gen
            /\ \A j \in 1 .. i :
                Asks(requests[j]) => requests[j].gen < requests[i + 1].gen
    BY <2>1 DEF WorkerInv, RequestsOrdered
  <2>3. Opens(requests[i + 1]) => activeGeneration' < requests[i + 1].gen
    <3>1. CASE IsAck(h)
      BY <1>1, <1>3, <1>4, <2>1, <2>2, <3>1 DEF Generations
    <3>2. CASE ~IsAck(h)
      BY <1>1, <1>2, <1>3, <2>1, <2>2, <3>2 DEF Generations, Asks
    <3> QED BY <3>1, <3>2
  <2>4. ASSUME Opens(requests[i + 1]), NEW j \in 1 .. (i - 1), Asks(requests'[j])
        PROVE  requests'[j].gen < requests'[i].gen
    BY <1>2, <2>1, <2>2, <2>4
  <2> QED
    BY <1>1, <1>5, <2>1, <2>2, <2>3, <2>4, SMTT(30) DEF Generations
<1> QED
  BY <1>1, <1>2, <1>3, <1>4, <1>5, <1>6, SMTT(30) DEF RequestsOrdered, Generations

LEMMA Admitted ==
    ASSUME WorkerInv, NEW kind \in (Navigation \cup Edits \cup {"create", "current-ack", "commit-ack"}),
           Admit(kind)
    PROVE  /\ Head(requests).kind = kind /\ Head(requests) \in Requests
           /\ Head(requests).gen \in 1 .. generation /\ Head(requests).gen \in Generations
           /\ activeGeneration' = Head(requests).gen /\ activeGeneration' \in Generations
           /\ activeGeneration <= activeGeneration' /\ activeGeneration' <= generation
           /\ requests' \in Seq(Requests) /\ RequestsOrdered'
           /\ kind \in Edits \cup {"create", "seek"} =>
                activeGeneration < activeGeneration' /\ ~StillNavigating
           /\ IsAck(Head(requests)) => activeGeneration' = activeGeneration /\ StillNavigating = navigating
           /\ kind \in Navigation /\ activeGeneration' = activeGeneration => ~navigating
           /\ deferred' \in Requests
           /\ deferred' # NoRequest => deferred' = deferred /\ activeGeneration' = activeGeneration
           /\ activeGeneration' # activeGeneration => activeGeneration' \notin seekTimers
           /\ Len(requests') \in Nat
           /\ \A i \in 1 .. Len(requests') : \E j \in 1 .. Len(requests) : requests'[i] = requests[j]
<1> DEFINE h == Head(requests)
<1>1. /\ requests # <<>> /\ h.kind = kind /\ requests' = Tail(requests)
      /\ activeGeneration' = h.gen /\ generation' = generation
      /\ ~(h.gen < activeGeneration)
      /\ ~(kind \in Navigation /\ h.gen = activeGeneration /\ navigating)
      /\ deferred' = IF h.gen = activeGeneration THEN deferred ELSE NoRequest
  BY DEF Admit, Arrived, Stale, Blocked, Keeps, clientVars
<1>2. /\ requests \in Seq(Requests) /\ activeGeneration \in Generations /\ generation \in Generations
      /\ deferred \in Requests /\ navigating \in BOOLEAN
      /\ \A g \in seekTimers : g \in Generations /\ g <= activeGeneration
  BY DEF WorkerInv, TypeOK, AnswersServed
<1>3. /\ Len(requests) \in Nat /\ 1 <= Len(requests) /\ h = requests[1] /\ h \in Requests
      /\ Len(requests') = Len(requests) - 1
      /\ \A i \in 1 .. Len(requests') : requests'[i] = requests[i + 1]
  BY <1>1, <1>2, Popped
<1>4. h.gen \in Generations
  BY <1>3 DEF Requests
<1>5. h.gen >= activeGeneration
  BY <1>1, <1>2, <1>4 DEF Generations
<1>6. /\ h.gen \in 1 .. generation
      /\ requests' \in Seq(Requests) /\ activeGeneration' \in Generations
      /\ activeGeneration <= activeGeneration' /\ activeGeneration' <= generation
      /\ Opens(h) => activeGeneration < h.gen
      /\ IsAck(h) => h.gen <= activeGeneration
      /\ RequestsOrdered'
  BY <1>1, <1>5, Taken
<1>7. /\ kind \in Edits \cup {"create", "seek"} =>
            activeGeneration < activeGeneration' /\ ~StillNavigating
      /\ IsAck(h) => activeGeneration' = activeGeneration /\ StillNavigating = navigating
  BY <1>1, <1>2, <1>4, <1>5, <1>6 DEF Opens, StillNavigating, Keeps, Generations
<1>8. /\ activeGeneration' # activeGeneration => activeGeneration' \notin seekTimers
  BY <1>1, <1>2, <1>4, <1>5 DEF Generations
<1>9. \A i \in 1 .. Len(requests') : \E j \in 1 .. Len(requests) : requests'[i] = requests[j]
  <2> SUFFICES ASSUME NEW i \in 1 .. Len(requests')
               PROVE  \E j \in 1 .. Len(requests) : requests'[i] = requests[j]
    OBVIOUS
  <2>1. i + 1 \in 1 .. Len(requests) /\ requests'[i] = requests[i + 1]
    BY <1>3
  <2> QED
    BY <2>1
<1>10. deferred' \in Requests /\ (deferred' # NoRequest => deferred' = deferred /\ activeGeneration' = activeGeneration)
  BY <1>1, <1>2, Values
<1>11. kind \in Navigation /\ activeGeneration' = activeGeneration => ~navigating
  BY <1>1
<1>12. Len(requests') \in Nat
  BY <1>3
<1> QED
  BY <1>1, <1>3, <1>4, <1>6, <1>7, <1>8, <1>9, <1>10, <1>11, <1>12

\* An answer of the generation that is served now joins the port behind the others.
LEMMA Answered ==
    ASSUME WorkerInv, NEW r \in Responses, responses' = Append(responses, r),
           UNCHANGED <<decoding, generation, frame>>, seekTimers' \subseteq seekTimers \cup {r.gen},
           activeGeneration' \in Generations, r.gen = activeGeneration', 1 <= r.gen,
           activeGeneration <= activeGeneration', activeGeneration' <= generation
    PROVE  /\ responses' \in Seq(Responses) /\ AnswersServed' /\ seekTimers' \subseteq Generations
           /\ Len(responses) \in Nat /\ Len(responses') = Len(responses) + 1
           /\ responses'[Len(responses) + 1] = r
           /\ \A i \in 1 .. Len(responses) : responses'[i] = responses[i]
<1>1. /\ responses \in Seq(Responses) /\ activeGeneration \in Generations
      /\ decoding \subseteq [packet : Responses, base : Views] /\ seekTimers \subseteq Generations
  BY DEF WorkerInv, TypeOK
<1>2. /\ responses' \in Seq(Responses) /\ Len(responses) \in Nat
      /\ Len(responses') = Len(responses) + 1
      /\ \A i \in 1 .. Len(responses) : responses'[i] = responses[i]
      /\ responses'[Len(responses) + 1] = r
  BY <1>1, Appended
<1>3. \A i \in 1 .. Len(responses') : 1 <= responses'[i].gen /\ responses'[i].gen <= activeGeneration'
  <2> SUFFICES ASSUME NEW i \in 1 .. Len(responses')
               PROVE  1 <= responses'[i].gen /\ responses'[i].gen <= activeGeneration'
    OBVIOUS
  <2>1. CASE i = Len(responses) + 1
    BY <1>2, <2>1 DEF Generations
  <2>2. CASE i # Len(responses) + 1
    <3>1. i \in 1 .. Len(responses)
      BY <1>2, <2>2
    <3>2. responses[i] \in Responses /\ responses'[i] = responses[i]
      BY <1>1, <1>2, <3>1
    <3>3. 1 <= responses[i].gen /\ responses[i].gen <= activeGeneration
      BY <3>1 DEF WorkerInv, AnswersServed
    <3>4. responses[i].gen \in Generations
      BY <3>2 DEF Responses
    <3> QED
      BY <1>1, <3>2, <3>3, <3>4 DEF Generations
  <2> QED
    BY <2>1, <2>2
<1>4. \A d \in decoding : d.packet \in Responses /\ d.packet.gen \in Generations
  BY <1>1 DEF Responses
<1>5. \A d \in decoding : 1 <= d.packet.gen /\ d.packet.gen <= activeGeneration'
  BY <1>1, <1>4 DEF WorkerInv, AnswersServed, Generations
<1>6. \A g \in seekTimers' : g \in Generations /\ 1 <= g /\ g <= activeGeneration'
  BY <1>1 DEF WorkerInv, AnswersServed, Generations
<1> QED
  BY <1>2, <1>3, <1>5, <1>6 DEF WorkerInv, AnswersServed

\* Nothing is answered.
LEMMA Unanswered ==
    ASSUME WorkerInv, UNCHANGED <<responses, decoding, generation, frame>>, seekTimers' \subseteq seekTimers \cup {activeGeneration'},
           activeGeneration' \in Generations, 1 <= activeGeneration',
           activeGeneration <= activeGeneration', activeGeneration' <= generation
    PROVE  AnswersServed' /\ seekTimers' \subseteq Generations
<1>1. /\ responses \in Seq(Responses) /\ activeGeneration \in Generations
      /\ decoding \subseteq [packet : Responses, base : Views] /\ seekTimers \subseteq Generations
  BY DEF WorkerInv, TypeOK
<1>2. \A i \in 1 .. Len(responses) : 1 <= responses[i].gen /\ responses[i].gen <= activeGeneration'
  <2> SUFFICES ASSUME NEW i \in 1 .. Len(responses)
               PROVE  1 <= responses[i].gen /\ responses[i].gen <= activeGeneration'
    OBVIOUS
  <2>1. responses[i] \in Responses
    BY <1>1
  <2>2. 1 <= responses[i].gen /\ responses[i].gen <= activeGeneration
    BY DEF WorkerInv, AnswersServed
  <2>3. responses[i].gen \in Generations
    BY <2>1 DEF Responses
  <2> QED
    BY <1>1, <2>2, <2>3 DEF Generations
<1>4. \A d \in decoding : d.packet \in Responses /\ d.packet.gen \in Generations
  BY <1>1 DEF Responses
<1>5. \A d \in decoding : 1 <= d.packet.gen /\ d.packet.gen <= activeGeneration'
  BY <1>1, <1>4 DEF WorkerInv, AnswersServed, Generations
<1>6. \A g \in seekTimers' : g \in Generations /\ 1 <= g /\ g <= activeGeneration'
  BY <1>1 DEF WorkerInv, AnswersServed, Generations
<1> QED
  BY <1>2, <1>5, <1>6 DEF WorkerInv, AnswersServed

(***************************************************************************)
(* One step of each kind keeps the Worker's invariant                       *)
(***************************************************************************)
LEMMA CreateKeeps == WorkerInv /\ ServeCreate => WorkerInv'
<1> SUFFICES ASSUME WorkerInv, ServeCreate PROVE WorkerInv'
  OBVIOUS
<1> DEFINE g == Head(requests).gen
<1>1. /\ Admit("create") /\ session' = Withdrawn("create") /\ stagedNext' = 0
      /\ navigating' = StillNavigating /\ UNCHANGED <<clientVars, seekTimers>>
      /\ \/ /\ stagedCurrent' = [kind |-> "create", gen |-> g, session |-> g]
            /\ Respond(Packet("ready", g, [session |-> g, cursor |-> 0], 0))
         \/ stagedCurrent' = NoCandidate /\ Respond(Answer("input-error", g))
  BY DEF ServeCreate, Admit
<1>2. /\ g \in 1 .. generation /\ g \in Generations /\ activeGeneration' = g
      /\ activeGeneration \in Generations /\ activeGeneration < g /\ navigating' = FALSE
      /\ requests' \in Seq(Requests) /\ RequestsOrdered'
      /\ deferred' = NoRequest /\ g \notin seekTimers
  <2> HIDE DEF g
  <2>1. /\ g \in 1 .. generation /\ g \in Generations /\ activeGeneration' = g
        /\ activeGeneration < activeGeneration' /\ ~StillNavigating
        /\ requests' \in Seq(Requests) /\ RequestsOrdered'
        /\ deferred' # NoRequest => activeGeneration' = activeGeneration
        /\ activeGeneration' # activeGeneration => activeGeneration' \notin seekTimers
    BY <1>1, Admitted DEF g
  <2>2. activeGeneration \in Generations
    BY DEF WorkerInv, TypeOK
  <2>3. navigating' = FALSE
    BY <1>1, <2>1
  <2> QED
    BY <2>1, <2>2, <2>3 DEF Generations
<1>3. TypeOK /\ SessionShape /\ OneCandidate
  BY DEF WorkerInv
<1> HIDE DEF g
<1>4. /\ session' \in Sessions /\ session'.id = session.id /\ session'.cursor = session.cursor
      /\ session'.seek = NoSeek /\ session'.next = FALSE
  <2>1. /\ session' \in Sessions /\ session'.id = session.id /\ session'.cursor = session.cursor
        /\ session'.next \in {session.next, FALSE}
    BY <1>1, <1>3, WithdrawnTyped
  <2> QED
    BY <1>1, <1>3, <2>1 DEF Withdrawn, OneCandidate, TypeOK, Sessions
<1>5. AnswersServed' /\ responses' \in Seq(Responses) /\ stagedCurrent' \in Candidates
  <2>1. PICK r \in Responses : responses' = Append(responses, r) /\ r.gen = g
    <3>1. g \in Generations /\ 0 \in 0 .. ItemCount
      BY <1>2, ProtocolAssumption
    <3>2. [session |-> g, cursor |-> 0] \in Views
      BY <3>1 DEF Views
    <3> QED
      BY <1>1, <3>1, <3>2, Values DEF Respond, Packets, Packet, Answer
  <2>2. AnswersServed' /\ responses' \in Seq(Responses)
    BY <1>1, <1>2, <2>1, Answered DEF clientVars, Generations
  <2>3. stagedCurrent' \in Candidates
    BY <1>1, <1>2, Values DEF Candidates
  <2> QED
    BY <2>2, <2>3
<1>6. TypeOK'
  <2>1. stagedNext' \in Generations /\ stagedCurrent' \in Candidates /\ deferred' \in Requests
    BY <1>1, <1>2, <1>5, Values, ProtocolAssumption DEF Generations
  <2> QED
    BY <1>1, <1>2, <1>3, <1>4, <1>5, <2>1 DEF TypeOK, clientVars
<1>7. SessionShape' /\ SeekNavigates'
  BY <1>1, <1>2, <1>3, <1>4 DEF SessionShape, SeekNavigates, NoSession, NoSeek, Sessions
<1>8. OneCandidate' /\ OneSeekLoop' /\ ParkedBehindSeek'
  BY <1>1, <1>2, <1>3, <1>4 DEF OneCandidate, OneSeekLoop, ParkedBehindSeek, NoCandidate, NoSeek
<1> QED
  BY <1>2, <1>5, <1>6, <1>7, <1>8 DEF WorkerInv

LEMMA EditKeeps == WorkerInv /\ ServeEdit => WorkerInv'
<1> SUFFICES ASSUME WorkerInv, NEW kind \in Edits, Admit(kind), session' = Withdrawn(kind),
                    \/ Respond(Answer(IF kind = "prepare" THEN "prepared" ELSE "exported", Head(requests).gen))
                    \/ Respond(Answer("input-error", Head(requests).gen)),
                    NothingStaged, navigating' = StillNavigating, UNCHANGED seekTimers
             PROVE WorkerInv'
  BY DEF ServeEdit
<1> DEFINE g == Head(requests).gen
<1>1. UNCHANGED clientVars /\ stagedNext' = 0 /\ stagedCurrent' = NoCandidate /\ kind \in {"prepare", "export"}
  BY DEF Admit, NothingStaged, Edits
<1>2. /\ g \in 1 .. generation /\ g \in Generations /\ activeGeneration' = g
      /\ activeGeneration \in Generations /\ activeGeneration < g /\ navigating' = FALSE
      /\ requests' \in Seq(Requests) /\ RequestsOrdered'
      /\ deferred' = NoRequest /\ g \notin seekTimers
  <2> HIDE DEF g
  <2>1. /\ g \in 1 .. generation /\ g \in Generations /\ activeGeneration' = g
        /\ activeGeneration < activeGeneration' /\ ~StillNavigating
        /\ requests' \in Seq(Requests) /\ RequestsOrdered'
        /\ deferred' # NoRequest => activeGeneration' = activeGeneration
        /\ activeGeneration' # activeGeneration => activeGeneration' \notin seekTimers
    BY <1>1, Admitted DEF g
  <2>2. activeGeneration \in Generations
    BY DEF WorkerInv, TypeOK
  <2>3. navigating' = FALSE
    BY <1>1, <2>1
  <2> QED
    BY <2>1, <2>2, <2>3 DEF Generations
<1>3. TypeOK /\ SessionShape /\ OneCandidate
  BY DEF WorkerInv
<1> HIDE DEF g
<1>4. /\ session' \in Sessions /\ session'.id = session.id /\ session'.cursor = session.cursor
      /\ session'.seek = NoSeek /\ session'.next = FALSE
  <2>1. /\ session' \in Sessions /\ session'.id = session.id /\ session'.cursor = session.cursor
        /\ session'.next \in {session.next, FALSE}
    BY <1>3, WithdrawnTyped
  <2> QED
    BY <1>1, <1>3, <2>1 DEF Withdrawn, OneCandidate, TypeOK, Sessions
<1>5. AnswersServed' /\ responses' \in Seq(Responses)
  <2>1. PICK r \in Responses : responses' = Append(responses, r) /\ r.gen = g
    BY <1>2, Values DEF Respond, Answer, g
  <2> QED
    BY <1>1, <1>2, <2>1, Answered DEF clientVars, Generations
<1>6. TypeOK'
  <2>1. stagedNext' \in Generations /\ stagedCurrent' \in Candidates /\ deferred' \in Requests
    BY <1>1, <1>2, <1>5, Values, ProtocolAssumption DEF Generations
  <2> QED
    BY <1>1, <1>2, <1>3, <1>4, <1>5, <2>1 DEF TypeOK, clientVars
<1>7. SessionShape' /\ SeekNavigates'
  BY <1>1, <1>2, <1>3, <1>4 DEF SessionShape, SeekNavigates, NoSession, NoSeek, Sessions
<1>8. OneCandidate' /\ OneSeekLoop' /\ ParkedBehindSeek'
  BY <1>1, <1>2, <1>3, <1>4 DEF OneCandidate, OneSeekLoop, ParkedBehindSeek, NoCandidate, NoSeek
<1> QED
  BY <1>2, <1>5, <1>6, <1>7, <1>8 DEF WorkerInv

LEMMA NextKeeps == WorkerInv /\ ServeNext => WorkerInv'
<1> SUFFICES ASSUME WorkerInv, ServeNext PROVE WorkerInv'
  OBVIOUS
<1> DEFINE g == Head(requests).gen
           s == Withdrawn("next")
           refused == s.id = 0 \/ s.next \/ s.seek # NoSeek
<1>1. /\ Admit("next") /\ navigating' = FALSE /\ stagedCurrent' = NoCandidate
      /\ UNCHANGED <<clientVars, seekTimers>>
      /\ \/ /\ session' = s /\ stagedNext' = 0
            /\ \E k \in {"engine-error", "ended", "input-error"} : Respond(Answer(k, g))
         \/ /\ s.id # 0 /\ s.cursor # ItemCount
            /\ session' = [s EXCEPT !.next = TRUE] /\ stagedNext' = g
            /\ Respond(Packet("commit", g, [session |-> s.id, cursor |-> s.cursor + 1], s.cursor))
  <2>1. Admit("next") /\ navigating' = FALSE /\ stagedCurrent' = NoCandidate /\ UNCHANGED seekTimers
    BY DEF ServeNext
  <2>2. UNCHANGED clientVars
    BY <2>1 DEF Admit
  <2>3. CASE refused \/ s.cursor = ItemCount
    <3>1. session' = s /\ stagedNext' = 0
          /\ Respond(Answer(IF refused THEN "engine-error" ELSE "ended", g))
      BY <2>3 DEF ServeNext
    <3> QED
      BY <2>1, <2>2, <3>1
  <2>4. CASE ~(refused \/ s.cursor = ItemCount)
    <3>1. \/ /\ session' = [s EXCEPT !.next = TRUE] /\ stagedNext' = g
             /\ Respond(Packet("commit", g, [session |-> s.id, cursor |-> s.cursor + 1], s.cursor))
          \/ session' = s /\ stagedNext' = 0 /\ Respond(Answer("input-error", g))
      BY <2>4 DEF ServeNext
    <3> QED
      BY <2>1, <2>2, <2>4, <3>1
  <2> QED
    BY <2>3, <2>4
<1>2. /\ g \in 1 .. generation /\ g \in Generations /\ activeGeneration' = g
      /\ activeGeneration \in Generations /\ activeGeneration <= g
      /\ requests' \in Seq(Requests) /\ RequestsOrdered'
      /\ deferred' \in Requests
      /\ deferred' # NoRequest => deferred' = deferred /\ g = activeGeneration
      /\ g # activeGeneration => g \notin seekTimers
      /\ g = activeGeneration => ~navigating
  <2> HIDE DEF g
  <2>1. activeGeneration \in Generations
    BY DEF WorkerInv, TypeOK
  <2> QED
    BY <1>1, <2>1, Admitted DEF g, Navigation
<1>3. TypeOK /\ SessionShape /\ OneCandidate /\ OneSeekLoop /\ ParkedBehindSeek /\ SeekNavigates
  BY DEF WorkerInv
<1> HIDE DEF g
<1>4. /\ s \in Sessions /\ s.id = session.id /\ s.cursor = session.cursor
      /\ s.seek = NoSeek /\ s.next = FALSE /\ s.cursor \in 0 .. ItemCount /\ s.id \in Generations
  <2>1. /\ s \in Sessions /\ s.id = session.id /\ s.cursor = session.cursor
        /\ s.next \in {session.next, FALSE}
    BY <1>3, WithdrawnTyped
  <2> QED
    BY <1>1, <1>3, <2>1 DEF Withdrawn, OneCandidate, TypeOK, Sessions
<1>5. g \notin seekTimers
  BY <1>2, <1>3, ProtocolAssumption DEF OneSeekLoop, SeekNavigates, NoSeek
<1>6. deferred' = NoRequest
  BY <1>2, <1>3 DEF ParkedBehindSeek
<1> HIDE DEF s
<1>7. AnswersServed' /\ responses' \in Seq(Responses)
  <2>1. PICK r \in Responses : responses' = Append(responses, r) /\ r.gen = g
    <3>1. CASE \E k \in {"engine-error", "ended", "input-error"} : Respond(Answer(k, g))
      BY <1>2, <3>1, Values DEF Respond, Answer
    <3>2. CASE /\ s.cursor # ItemCount
               /\ Respond(Packet("commit", g, [session |-> s.id, cursor |-> s.cursor + 1], s.cursor))
      <4>1. [session |-> s.id, cursor |-> s.cursor + 1] \in Views
        BY <1>4, <3>2, ProtocolAssumption DEF Views
      <4> QED
        BY <1>2, <1>4, <3>2, <4>1, Values DEF Respond, Packet, Packets
    <3> QED
      BY <1>1, <3>1, <3>2
  <2> QED
    BY <1>1, <1>2, <2>1, Answered DEF clientVars, Generations
<1>8. session' \in Sessions /\ session'.seek = NoSeek /\ session'.id = s.id /\ session'.cursor = s.cursor
      /\ session'.next \in BOOLEAN
  BY <1>1, <1>4 DEF Sessions
<1>9. TypeOK'
  <2>1. stagedNext' \in Generations /\ stagedCurrent' \in Candidates /\ navigating' \in BOOLEAN
    <3>1. 0 \in Generations
      BY ProtocolAssumption DEF Generations
    <3>2. stagedNext' \in {0, g} /\ stagedCurrent' = NoCandidate /\ navigating' = FALSE
      BY <1>1
    <3> QED
      BY <1>2, <3>1, <3>2, Values
  <2> QED
    BY <1>1, <1>2, <1>3, <1>7, <1>8, <2>1 DEF TypeOK, clientVars
<1>10. SessionShape'
  BY <1>1, <1>3, <1>4, <1>8, ProtocolAssumption DEF SessionShape, NoSession, Sessions, Generations
<1>11. SeekNavigates'
  BY <1>1, <1>8 DEF SeekNavigates
<1>12. OneCandidate'
  BY <1>1, <1>2, <1>4, <1>8 DEF OneCandidate, NoCandidate, Generations, Sessions
<1>13. OneSeekLoop' /\ ParkedBehindSeek'
  BY <1>1, <1>2, <1>5, <1>6, <1>8 DEF OneSeekLoop, ParkedBehindSeek, NoSeek
<1> QED
  BY <1>2, <1>7, <1>9, <1>10, <1>11, <1>12, <1>13 DEF WorkerInv

\* What a turn of a seek leaves behind, for a loop that has just begun and for one
\* whose timer fires.
LEMMA TurnKeeps ==
    ASSUME NEW s \in Sessions, s.id # 0, s.next = FALSE, s.seek.target \in 0 .. ItemCount,
           NEW g \in Generations, SeekTurn(s, g, NoCandidate)
    PROVE  /\ session' \in Sessions /\ session'.id = s.id /\ session'.cursor = s.cursor
           /\ session'.next = FALSE /\ session'.seek \in Seeks
           /\ session'.seek.target = -1 => session'.seek = NoSeek
           /\ session'.seek.left > 0 <=> g \in seekTimers'
           /\ \/ /\ UNCHANGED responses /\ stagedCurrent' = NoCandidate
                 /\ seekTimers' = seekTimers \cup {g}
              \/ /\ seekTimers' = seekTimers \ {g}
                 /\ \/ /\ Respond(Answer("input-error", g)) /\ stagedCurrent' = NoCandidate
                       /\ session'.seek = NoSeek
                    \/ /\ stagedCurrent' = [kind |-> "seek", gen |-> g, session |-> s.id]
                       /\ session'.seek.left = 0 /\ session'.seek # NoSeek
                       /\ session'.seek.target = s.seek.target
                       /\ Respond(Packet("seeked", g, [session |-> s.id, cursor |-> s.seek.target], 0))
<1> USE ProtocolAssumption
<1>1. /\ s.seek \in Seeks /\ s.seek.left \in 0 .. MaxTurns /\ s.id \in Generations
      /\ s = [id |-> s.id, cursor |-> s.cursor, next |-> s.next, seek |-> s.seek]
      /\ s.seek = [target |-> s.seek.target, left |-> s.seek.left] /\ s.cursor \in 0 .. ItemCount
  BY DEF Sessions, Seeks
<1>2. CASE /\ s.seek.left > 1
           /\ session' = [s EXCEPT !.seek.left = @ - 1]
           /\ stagedCurrent' = NoCandidate
           /\ seekTimers' = seekTimers \cup {g}
           /\ UNCHANGED responses
  <2>1. session' = [id |-> s.id, cursor |-> s.cursor, next |-> s.next,
                    seek |-> [target |-> s.seek.target, left |-> s.seek.left - 1]]
    BY <1>1, <1>2
  <2> QED
    BY <1>1, <1>2, <2>1 DEF Sessions, Seeks
<1>3. CASE /\ s.seek.left <= 1
           /\ session' = [s EXCEPT !.seek.left = 0]
           /\ stagedCurrent' = [kind |-> "seek", gen |-> g, session |-> s.id]
           /\ Respond(Packet("seeked", g, [session |-> s.id, cursor |-> s.seek.target], 0))
           /\ seekTimers' = seekTimers \ {g}
  <2>1. session' = [id |-> s.id, cursor |-> s.cursor, next |-> s.next,
                    seek |-> [target |-> s.seek.target, left |-> 0]]
    BY <1>1, <1>3
  <2> QED
    BY <1>1, <1>3, <2>1 DEF Sessions, Seeks, NoSeek
<1>4. CASE /\ session' = [s EXCEPT !.seek = NoSeek]
           /\ stagedCurrent' = NoCandidate
           /\ Respond(Answer("input-error", g))
           /\ seekTimers' = seekTimers \ {g}
  <2>1. session' = [id |-> s.id, cursor |-> s.cursor, next |-> s.next, seek |-> NoSeek]
    BY <1>1, <1>4
  <2> QED
    BY <1>1, <1>4, <2>1, Values DEF Sessions, Seeks, NoSeek
<1> QED
  BY <1>2, <1>3, <1>4 DEF SeekTurn

LEMMA SeekKeeps == WorkerInv /\ ServeSeek => WorkerInv'
<1> SUFFICES ASSUME WorkerInv, ServeSeek PROVE WorkerInv'
  OBVIOUS
<1> DEFINE g == Head(requests).gen
           s == Withdrawn("seek")
<1>1. Admit("seek") /\ stagedNext' = 0 /\ UNCHANGED clientVars
  BY DEF ServeSeek, Admit
<1>2. /\ g \in 1 .. generation /\ g \in Generations /\ activeGeneration' = g
      /\ activeGeneration \in Generations /\ activeGeneration < g
      /\ requests' \in Seq(Requests) /\ RequestsOrdered'
      /\ deferred' = NoRequest /\ g \notin seekTimers
      /\ Len(requests') \in Nat
      /\ \A i \in 1 .. Len(requests') : \E j \in 1 .. Len(requests) : requests'[i] = requests[j]
      /\ Head(requests).target \in 0 .. ItemCount
  <2> HIDE DEF g
  <2>1. activeGeneration \in Generations
    BY DEF WorkerInv, TypeOK
  <2>2. /\ g \in 1 .. generation /\ g \in Generations /\ activeGeneration' = g
        /\ activeGeneration < activeGeneration'
        /\ requests' \in Seq(Requests) /\ RequestsOrdered'
        /\ deferred' # NoRequest => activeGeneration' = activeGeneration
        /\ activeGeneration' # activeGeneration => activeGeneration' \notin seekTimers
        /\ Len(requests') \in Nat
        /\ \A i \in 1 .. Len(requests') : \E j \in 1 .. Len(requests) : requests'[i] = requests[j]
        /\ Head(requests) \in Requests
    BY <1>1, Admitted DEF g, Navigation
  <2>3. Head(requests).target \in 0 .. ItemCount
    BY <2>2 DEF Requests
  <2> QED
    BY <2>1, <2>2, <2>3 DEF Generations
<1>3. TypeOK /\ SessionShape /\ OneCandidate /\ AnswersServed
  BY DEF WorkerInv
<1> HIDE DEF g
<1>4. /\ s \in Sessions /\ s.id = session.id /\ s.cursor = session.cursor
      /\ s.next = FALSE /\ s.seek \in {session.seek, NoSeek}
  <2>1. /\ s \in Sessions /\ s.id = session.id /\ s.cursor = session.cursor
        /\ s.next \in {session.next, FALSE} /\ s.seek \in {session.seek, NoSeek}
    BY <1>3, WithdrawnTyped
  <2> QED
    BY <1>3, <2>1 DEF Withdrawn, OneCandidate, TypeOK, Sessions
<1>5. \* Nothing that is under way is of the new generation.
      /\ \A i \in 1 .. Len(requests') : requests'[i].kind = "commit-ack" => requests'[i].gen # g
      /\ \A i \in 1 .. Len(responses) : responses[i].gen # g
      /\ \A d \in decoding : d.packet.gen # g
  <2>1. \A i \in 1 .. Len(requests) : requests[i].kind = "commit-ack" => requests[i].gen # g
    <3> SUFFICES ASSUME NEW i \in 1 .. Len(requests), requests[i].kind = "commit-ack", requests[i].gen = g
                 PROVE FALSE
      OBVIOUS
    <3>1. requests[i].gen <= activeGeneration
      BY DEF WorkerInv, RequestsOrdered, IsAck
    <3> QED
      BY <1>2, <3>1 DEF Generations
  <2>2. \A i \in 1 .. Len(requests') : requests'[i].kind = "commit-ack" => requests'[i].gen # g
    BY <1>2, <2>1
  <2>3. \A i \in 1 .. Len(responses) : responses[i].gen # g
    BY <1>2, <1>3 DEF AnswersServed, Generations
  <2>4. \A d \in decoding : d.packet.gen # g
    BY <1>2, <1>3 DEF AnswersServed, Generations
  <2> QED
    BY <2>2, <2>3, <2>4
<1>6. CASE s.id = 0
  <2>1. /\ session' = s /\ stagedCurrent' = NoCandidate /\ navigating' = FALSE /\ UNCHANGED seekTimers
        /\ Respond(Answer("engine-error", g))
    BY <1>6 DEF ServeSeek, g
  <2>2. s = NoSession
    <3> HIDE DEF s
    <3>1. s.id = 0 /\ s.cursor = 0 /\ s.seek = NoSeek /\ s.next = FALSE
      BY <1>3, <1>4, <1>6 DEF SessionShape, NoSession
    <3> QED
      BY <1>4, <3>1 DEF NoSession, Sessions
  <2>3. AnswersServed' /\ responses' \in Seq(Responses)
    <3>1. PICK r \in Responses : responses' = Append(responses, r) /\ r.gen = g
      BY <1>2, <2>1, Values DEF Respond, Answer
    <3> QED
      BY <1>1, <1>2, <2>1, <3>1, Answered DEF clientVars, Generations
  <2>4. TypeOK'
    <3>1. 0 \in Generations
      BY ProtocolAssumption DEF Generations
    <3> QED
      BY <1>1, <1>2, <1>3, <1>4, <2>1, <2>3, <3>1, Values DEF TypeOK, clientVars
  <2>5. SessionShape' /\ SeekNavigates'
    BY <2>1, <2>2 DEF SessionShape, SeekNavigates, NoSession
  <2>6. OneCandidate' /\ OneSeekLoop' /\ ParkedBehindSeek'
    BY <1>1, <1>2, <2>1, <2>2 DEF OneCandidate, OneSeekLoop, ParkedBehindSeek, NoSession, NoSeek, NoCandidate
  <2> QED
    BY <1>2, <2>3, <2>4, <2>5, <2>6 DEF WorkerInv
<1>7. CASE s.id # 0
  <2>1. PICK turns \in 1 .. MaxTurns :
          SeekTurn([s EXCEPT !.seek = [target |-> Head(requests).target, left |-> turns]], g, NoCandidate)
    BY <1>7 DEF ServeSeek, g
  <2>2. navigating' = TRUE
    BY <1>7 DEF ServeSeek
  <2> DEFINE b == [s EXCEPT !.seek = [target |-> Head(requests).target, left |-> turns]]
  <2>3. /\ b \in Sessions /\ b.id = s.id /\ b.cursor = s.cursor /\ b.next = FALSE
        /\ b.seek.target = Head(requests).target
    BY <1>2, <1>4, ProtocolAssumption, SMTT(30) DEF Sessions, Seeks
  <2> HIDE DEF b, s
  <2>4. /\ session' \in Sessions /\ session'.id = b.id /\ session'.cursor = b.cursor
        /\ session'.next = FALSE
        /\ session'.seek.target = -1 => session'.seek = NoSeek
        /\ session'.seek.left > 0 <=> g \in seekTimers'
        /\ \/ /\ UNCHANGED responses /\ stagedCurrent' = NoCandidate
              /\ seekTimers' = seekTimers \cup {g}
           \/ /\ seekTimers' = seekTimers \ {g}
              /\ \/ /\ Respond(Answer("input-error", g)) /\ stagedCurrent' = NoCandidate
                    /\ session'.seek = NoSeek
                 \/ /\ stagedCurrent' = [kind |-> "seek", gen |-> g, session |-> b.id]
                    /\ session'.seek.left = 0 /\ session'.seek # NoSeek
                    /\ Respond(Packet("seeked", g, [session |-> b.id, cursor |-> b.seek.target], 0))
    <3>1. SeekTurn(b, g, NoCandidate) /\ b.id # 0 /\ b.seek.target \in 0 .. ItemCount
      BY <1>2, <1>7, <2>1, <2>3 DEF b
    <3> QED
      BY <1>2, <2>3, <3>1, TurnKeeps
  <2>5. AnswersServed' /\ seekTimers' \subseteq Generations /\ responses' \in Seq(Responses)
        /\ SeekNavigates' /\ stagedCurrent' \in Candidates
    <3>1. CASE UNCHANGED responses /\ stagedCurrent' = NoCandidate /\ seekTimers' = seekTimers \cup {g}
      <4>1. AnswersServed' /\ seekTimers' \subseteq Generations
        BY <1>1, <1>2, <3>1, Unanswered DEF clientVars, Generations
      <4>2. SeekNavigates'
        BY <1>1, <1>2, <1>5, <2>2, <3>1 DEF SeekNavigates, clientVars
      <4> QED
        BY <1>3, <3>1, <4>1, <4>2, Values DEF TypeOK
    <3>2. CASE seekTimers' = seekTimers \ {g} /\ ~UNCHANGED responses
      <4>1. PICK r \in Responses : responses' = Append(responses, r) /\ r.gen = g /\ r.kind # "commit"
        <5>1. CASE Respond(Answer("input-error", g))
          BY <1>2, <5>1, Values DEF Respond, Answer
        <5>2. CASE Respond(Packet("seeked", g, [session |-> b.id, cursor |-> b.seek.target], 0))
          <6>1. [session |-> b.id, cursor |-> b.seek.target] \in Views /\ 0 \in 0 .. ItemCount
            BY <1>2, <2>3, ProtocolAssumption DEF Views, Sessions
          <6> QED
            BY <1>2, <5>2, <6>1, Values DEF Respond, Packet, Packets
        <5> QED
          BY <2>4, <3>2, <5>1, <5>2
      <4>2. /\ AnswersServed' /\ responses' \in Seq(Responses) /\ seekTimers' \subseteq Generations
            /\ Len(responses) \in Nat /\ Len(responses') = Len(responses) + 1
            /\ responses'[Len(responses) + 1] = r
            /\ \A i \in 1 .. Len(responses) : responses'[i] = responses[i]
        BY <1>1, <1>2, <3>2, <4>1, Answered DEF clientVars, Generations
      <4>3. \A i \in 1 .. Len(responses') : responses'[i].kind = "commit" => responses'[i].gen # g
        <5> SUFFICES ASSUME NEW i \in 1 .. Len(responses'), responses'[i].kind = "commit"
                     PROVE responses'[i].gen # g
          OBVIOUS
        <5>1. i \in 1 .. Len(responses)
          BY <4>1, <4>2
        <5> QED
          BY <1>5, <4>2, <5>1
      <4>4. SeekNavigates'
        BY <1>1, <1>2, <1>5, <2>2, <4>3 DEF SeekNavigates, clientVars
      <4>5. stagedCurrent' \in Candidates
        BY <1>2, <2>3, <2>4, <3>2, Values DEF Candidates, Sessions
      <4> QED
        BY <4>2, <4>4, <4>5
    <3> QED
      BY <2>4, <3>1, <3>2 DEF Respond
  <2>6. TypeOK'
    <3>1. 0 \in Generations
      BY ProtocolAssumption DEF Generations
    <3> QED
      BY <1>1, <1>2, <1>3, <2>2, <2>4, <2>5, <3>1, Values DEF TypeOK, clientVars
  <2>7. SessionShape'
    BY <1>7, <2>3, <2>4 DEF SessionShape
  <2>8. OneCandidate'
    BY <1>1, <1>2, <2>3, <2>4 DEF OneCandidate, NoCandidate
  <2>9. OneSeekLoop' /\ ParkedBehindSeek'
    BY <1>2, <2>4 DEF OneSeekLoop, ParkedBehindSeek
  <2> QED
    BY <1>2, <2>5, <2>6, <2>7, <2>8, <2>9 DEF WorkerInv
<1> QED
  BY <1>6, <1>7

LEMMA TimerKeeps ==
    ASSUME NEW g \in Generations, WorkerInv, SeekTimer(g)
    PROVE  WorkerInv'
<1>1. /\ g \in seekTimers
      /\ UNCHANGED <<clientVars, requests, activeGeneration, stagedNext, navigating, deferred>>
  BY DEF SeekTimer
<1>2. TypeOK /\ SessionShape /\ RequestsOrdered /\ AnswersServed /\ SeekNavigates
      /\ OneCandidate /\ OneSeekLoop /\ ParkedBehindSeek
  BY DEF WorkerInv
<1>3. RequestsOrdered' /\ ParkedBehindSeek'
  BY <1>1, <1>2 DEF RequestsOrdered, ParkedBehindSeek, clientVars
<1>4. CASE g # activeGeneration
  <2>1. seekTimers' = seekTimers \ {g} /\ UNCHANGED <<session, stagedCurrent, responses>>
    BY <1>4 DEF SeekTimer
  <2> QED
    BY <1>1, <1>2, <1>3, <1>4, <2>1
       DEF WorkerInv, TypeOK, SessionShape, AnswersServed, SeekNavigates, OneCandidate, OneSeekLoop, clientVars
<1>5. CASE g = activeGeneration
  <2>1. session.seek.left > 0 /\ session \in Sessions /\ session.seek \in Seeks
    BY <1>1, <1>2, <1>5 DEF OneSeekLoop, TypeOK, Sessions
  <2>2. session.seek # NoSeek /\ session.id # 0
    BY <1>2, <2>1 DEF NoSeek, SessionShape, NoSession
  <2>3. stagedCurrent = NoCandidate /\ session.next = FALSE /\ session.seek.target \in 0 .. ItemCount
    <3>1. stagedCurrent.kind \notin {"create", "seek"}
      BY <1>2, <2>1, <2>2 DEF OneCandidate
    <3>2. stagedCurrent = NoCandidate
      BY <1>2, <3>1 DEF SessionShape, TypeOK, Candidates
    <3>3. session.next = FALSE
      BY <1>2, <2>1, <2>2 DEF OneCandidate, Sessions
    <3>4. session.seek.target \in 0 .. ItemCount
      BY <1>2, <2>1, <2>2, ProtocolAssumption DEF SessionShape, Seeks
    <3> QED
      BY <3>2, <3>3, <3>4
  <2>4. SeekTurn(session, g, NoCandidate)
    BY <1>5, <2>2, <2>3 DEF SeekTimer
  <2>5. /\ session' \in Sessions /\ session'.id = session.id /\ session'.cursor = session.cursor
        /\ session'.next = FALSE
        /\ session'.seek.target = -1 => session'.seek = NoSeek
        /\ session'.seek.left > 0 <=> g \in seekTimers'
        /\ \/ /\ UNCHANGED responses /\ stagedCurrent' = NoCandidate
              /\ seekTimers' = seekTimers \cup {g}
           \/ /\ seekTimers' = seekTimers \ {g}
              /\ \/ /\ Respond(Answer("input-error", g)) /\ stagedCurrent' = NoCandidate
                    /\ session'.seek = NoSeek
                 \/ /\ stagedCurrent' = [kind |-> "seek", gen |-> g, session |-> session.id]
                    /\ session'.seek.left = 0 /\ session'.seek # NoSeek
                    /\ Respond(Packet("seeked", g, [session |-> session.id, cursor |-> session.seek.target], 0))
    BY <2>1, <2>2, <2>3, <2>4, TurnKeeps
  <2>6. /\ activeGeneration \in Generations /\ activeGeneration <= activeGeneration
        /\ activeGeneration <= generation /\ 1 <= g /\ navigating
    <3>1. activeGeneration \in Generations /\ activeGeneration <= generation /\ navigating
      BY <1>2, <2>2 DEF TypeOK, AnswersServed, SeekNavigates
    <3> QED
      BY <1>1, <1>2, <3>1 DEF AnswersServed, Generations
  <2>7. AnswersServed' /\ seekTimers' \subseteq Generations /\ responses' \in Seq(Responses)
        /\ SeekNavigates' /\ stagedCurrent' \in Candidates
    <3>1. CASE UNCHANGED responses /\ stagedCurrent' = NoCandidate /\ seekTimers' = seekTimers \cup {g}
      <4>1. AnswersServed' /\ seekTimers' \subseteq Generations
        BY <1>1, <1>2, <1>5, <3>1 DEF AnswersServed, clientVars, TypeOK
      <4>2. SeekNavigates'
        BY <1>1, <1>2, <2>6, <3>1 DEF SeekNavigates, clientVars
      <4> QED
        BY <1>2, <3>1, <4>1, <4>2, Values DEF TypeOK
    <3>2. CASE seekTimers' = seekTimers \ {g} /\ ~UNCHANGED responses
      <4>1. PICK r \in Responses : responses' = Append(responses, r) /\ r.gen = g /\ r.kind # "commit"
        <5>1. CASE Respond(Answer("input-error", g))
          BY <5>1, Values DEF Respond, Answer
        <5>2. CASE Respond(Packet("seeked", g, [session |-> session.id, cursor |-> session.seek.target], 0))
          <6>1. [session |-> session.id, cursor |-> session.seek.target] \in Views /\ 0 \in 0 .. ItemCount
            BY <2>1, <2>3, ProtocolAssumption DEF Views, Sessions
          <6> QED
            BY <5>2, <6>1, Values DEF Respond, Packet, Packets
        <5> QED
          BY <2>5, <3>2, <5>1, <5>2
      <4>2. /\ AnswersServed' /\ responses' \in Seq(Responses) /\ seekTimers' \subseteq Generations
            /\ Len(responses) \in Nat /\ Len(responses') = Len(responses) + 1
            /\ responses'[Len(responses) + 1] = r
            /\ \A i \in 1 .. Len(responses) : responses'[i] = responses[i]
        BY <1>1, <1>5, <2>6, <3>2, <4>1, Answered DEF clientVars
      <4>3. \A i \in 1 .. Len(responses') : responses'[i].kind = "commit" => responses'[i].gen # activeGeneration
        <5> SUFFICES ASSUME NEW i \in 1 .. Len(responses'), responses'[i].kind = "commit"
                     PROVE responses'[i].gen # activeGeneration
          OBVIOUS
        <5>1. i \in 1 .. Len(responses)
          BY <4>1, <4>2
        <5> QED
          BY <1>2, <2>6, <4>2, <5>1 DEF SeekNavigates
      <4>4. SeekNavigates'
        BY <1>1, <1>2, <2>6, <4>3 DEF SeekNavigates, clientVars
      <4>5. stagedCurrent' \in Candidates
        BY <2>1, <2>5, <3>2, Values DEF Candidates, Sessions
      <4> QED
        BY <4>2, <4>4, <4>5
    <3> QED
      BY <2>5, <3>1, <3>2 DEF Respond
  <2>8. TypeOK'
    BY <1>1, <1>2, <2>5, <2>7 DEF TypeOK, clientVars
  <2>9. SessionShape'
    BY <1>2, <2>2, <2>3, <2>5 DEF SessionShape
  <2>10. OneCandidate'
    BY <1>1, <1>2, <1>5, <2>3, <2>5 DEF OneCandidate, NoCandidate
  <2>11. OneSeekLoop'
    BY <1>1, <1>5, <2>5 DEF OneSeekLoop
  <2> QED
    BY <1>3, <2>7, <2>8, <2>9, <2>10, <2>11 DEF WorkerInv
<1> QED
  BY <1>4, <1>5

\* An acknowledgement is of the active generation: it withdraws what its verdict
\* is not about, or settles the candidate.
LEMMA CurrentAckKeeps == WorkerInv /\ ServeCurrentAck => WorkerInv'
<1> SUFFICES ASSUME WorkerInv, ServeCurrentAck PROVE WorkerInv'
  OBVIOUS
<1> DEFINE ack == Head(requests)
           s == Withdrawn("current-ack")
           mine == stagedCurrent.kind # "none" /\ stagedCurrent.gen = ack.gen
           create == stagedCurrent.kind = "create"
           owned == stagedCurrent.session = s.id
<1>1. /\ Admit("current-ack") /\ stagedNext' = 0 /\ navigating' = StillNavigating
      /\ UNCHANGED <<clientVars, seekTimers>>
      /\ stagedCurrent' = IF mine THEN NoCandidate ELSE stagedCurrent
      /\ session' = CASE ~mine -> s
                      [] mine /\ ack.accepted /\ create -> [NoSession EXCEPT !.id = stagedCurrent.session]
                      [] mine /\ ~create /\ owned ->
                            [s EXCEPT !.cursor = IF ack.accepted THEN s.seek.target ELSE @, !.seek = NoSeek]
                      [] OTHER -> s
      /\ IF mine /\ ack.accepted /\ ~create /\ ~owned
         THEN Respond(Answer("engine-error", ack.gen))
         ELSE UNCHANGED responses
  BY DEF ServeCurrentAck, Admit
<1>2. /\ ack \in Requests /\ ack.gen = activeGeneration /\ activeGeneration' = activeGeneration
      /\ activeGeneration \in Generations /\ 1 <= activeGeneration /\ activeGeneration <= generation
      /\ requests' \in Seq(Requests) /\ RequestsOrdered'
      /\ navigating' = navigating /\ Len(requests') \in Nat /\ deferred' \in Requests
      /\ deferred' # NoRequest => deferred' = deferred
      /\ \A i \in 1 .. Len(requests') : \E j \in 1 .. Len(requests) : requests'[i] = requests[j]
  <2>1. Head(requests).kind = "current-ack"
    BY <1>1 DEF Admit, Arrived
  <2>2. StillNavigating = navigating /\ activeGeneration' = activeGeneration
    BY <1>1, <2>1, Admitted DEF IsAck
  <2>3. navigating' = navigating
    BY <1>1, <2>2
  <2> HIDE DEF ack
  <2> QED
    BY <1>1, <2>2, <2>3, Admitted DEF ack, Generations
<1>3. TypeOK /\ SessionShape /\ OneCandidate /\ OneSeekLoop /\ ParkedBehindSeek /\ SeekNavigates
  BY DEF WorkerInv
<1>4. /\ s \in Sessions /\ s.id = session.id /\ s.cursor = session.cursor
      /\ s.seek = session.seek /\ s.next = FALSE /\ s.seek \in Seeks
  <2>1. /\ s \in Sessions /\ s.id = session.id /\ s.cursor = session.cursor
        /\ s.next \in {session.next, FALSE}
    BY <1>3, WithdrawnTyped
  <2> QED
    BY <1>3, <2>1 DEF Withdrawn, OneCandidate, TypeOK, Sessions
<1>5. mine <=> stagedCurrent # NoCandidate
  BY <1>2, <1>3 DEF OneCandidate, SessionShape, NoCandidate
<1>6. stagedCurrent \in Candidates /\ (stagedCurrent.kind = "seek" => owned /\ s.seek # NoSeek /\ s.seek.left = 0)
      /\ (create => s.seek = NoSeek)
  BY <1>3, <1>4 DEF TypeOK, OneCandidate
<1>7. stagedCurrent.kind \in {"none", "create", "seek"}
  BY <1>6 DEF Candidates
<1> HIDE DEF s, ack
<1>8. UNCHANGED responses
  BY <1>1, <1>6, <1>7
<1>9. /\ session' \in Sessions /\ session'.next = FALSE
      /\ session'.seek.target = -1 => session'.seek = NoSeek
      /\ session'.id = 0 => session' = NoSession
      /\ session'.seek.left = session.seek.left
      /\ session'.seek # NoSeek => session.seek # NoSeek /\ stagedCurrent' = stagedCurrent
      /\ stagedCurrent' # NoCandidate => session' = s
  <2>0. s.id = 0 => s = NoSession
    <3> SUFFICES ASSUME s.id = 0 PROVE s = NoSession
      OBVIOUS
    <3>1. s.id = 0 /\ s.cursor = 0 /\ s.seek = NoSeek /\ s.next = FALSE
      BY <1>3, <1>4 DEF SessionShape, NoSession
    <3> QED
      BY <1>4, <3>1 DEF NoSession, Sessions
  <2>1. CASE ~mine
    BY <1>1, <1>3, <1>4, <2>0, <2>1 DEF SessionShape
  <2>2. CASE mine /\ create
    <3>1. CASE ack.accepted
      <4>1. session' = [NoSession EXCEPT !.id = stagedCurrent.session] /\ stagedCurrent' = NoCandidate
        BY <1>1, <2>2, <3>1
      <4>2. session' \in Sessions /\ session'.seek = NoSeek /\ session'.next = FALSE
            /\ session'.id = stagedCurrent.session
        BY <1>6, <4>1, Values DEF Sessions, NoSession, Candidates
      <4>3. session'.id = 0 => session' = NoSession
        BY <4>1, <4>2 DEF NoSession
      <4> QED
        BY <1>3, <1>4, <1>6, <2>2, <4>1, <4>2, <4>3 DEF NoSeek
    <3>2. CASE ~ack.accepted
      <4>1. session' = s /\ stagedCurrent' = NoCandidate
        BY <1>1, <2>2, <3>2
      <4> QED
        BY <1>3, <1>4, <1>6, <2>0, <2>2, <4>1
    <3> QED
      BY <3>1, <3>2
  <2>3. CASE mine /\ ~create
    <3>1. stagedCurrent.kind = "seek"
      BY <1>7, <2>3
    <3>2. session' = [s EXCEPT !.cursor = IF ack.accepted THEN s.seek.target ELSE @, !.seek = NoSeek]
          /\ stagedCurrent' = NoCandidate
      BY <1>1, <1>6, <2>3, <3>1
    <3>3. s.seek.target \in 0 .. ItemCount
      BY <1>3, <1>4, <1>6, <3>1, ProtocolAssumption DEF SessionShape, Seeks
    <3>4. s.id # 0
      BY <1>6, <2>0, <3>1 DEF NoSession
    <3>5. session' = [id |-> s.id, cursor |-> IF ack.accepted THEN s.seek.target ELSE s.cursor,
                      next |-> FALSE, seek |-> NoSeek]
      BY <1>4, <3>2 DEF Sessions
    <3>6. s.cursor \in 0 .. ItemCount /\ s.id \in Generations
      BY <1>4 DEF Sessions
    <3>7. session' \in Sessions
      BY <3>3, <3>5, <3>6, Values DEF Sessions
    <3>8. s.seek.left = 0 /\ session'.seek = NoSeek /\ session'.id = s.id /\ session'.next = FALSE
      BY <1>6, <3>1, <3>5
    <3>9. session'.seek.left = session.seek.left
      BY <1>4, <3>8 DEF NoSeek
    <3> QED
      BY <3>2, <3>4, <3>7, <3>8, <3>9
  <2> QED
    BY <2>1, <2>2, <2>3
<1>10. TypeOK' /\ AnswersServed'
  <2>1. 0 \in Generations
    BY ProtocolAssumption DEF Generations
  <2>2. stagedCurrent' \in Candidates
    BY <1>1, <1>6, Values
  <2>3. TypeOK'
    BY <1>1, <1>2, <1>3, <1>8, <1>9, <2>1, <2>2 DEF TypeOK, clientVars
  <2>4. AnswersServed'
    BY <1>1, <1>2, <1>8 DEF WorkerInv, AnswersServed, clientVars
  <2> QED
    BY <2>3, <2>4
<1>11. SessionShape'
  BY <1>1, <1>3, <1>9 DEF SessionShape, NoCandidate
<1>12. SeekNavigates'
  <2>1. \A i \in 1 .. Len(requests') : navigating =>
          (requests'[i].kind = "commit-ack" => requests'[i].gen # activeGeneration)
    BY <1>2, <1>3 DEF SeekNavigates
  <2> QED
    BY <1>1, <1>2, <1>3, <1>8, <1>9, <2>1 DEF SeekNavigates, clientVars
<1>13. OneCandidate'
  BY <1>1, <1>2, <1>3, <1>4, <1>5, <1>9 DEF OneCandidate, NoCandidate
<1>14. OneSeekLoop' /\ ParkedBehindSeek'
  BY <1>1, <1>2, <1>3, <1>9 DEF OneSeekLoop, ParkedBehindSeek
<1> QED
  BY <1>2, <1>10, <1>11, <1>12, <1>13, <1>14 DEF WorkerInv

LEMMA CommitAckKeeps == WorkerInv /\ ServeCommitAck => WorkerInv'
<1> SUFFICES ASSUME WorkerInv, ServeCommitAck PROVE WorkerInv'
  OBVIOUS
<1> DEFINE ack == Head(requests)
           s == Withdrawn("commit-ack")
           mine == stagedNext # 0 /\ stagedNext = ack.gen
<1>1. /\ Admit("commit-ack") /\ stagedCurrent' = NoCandidate /\ navigating' = StillNavigating
      /\ UNCHANGED <<clientVars, seekTimers>>
      /\ s.id = 0 => /\ Respond(Answer("engine-error", ack.gen))
                     /\ session' = s /\ UNCHANGED stagedNext
      /\ s.id # 0 =>
            /\ session' = IF ~mine THEN s
                          ELSE [s EXCEPT !.next = FALSE,
                                         !.cursor = IF ack.accepted /\ s.next THEN @ + 1 ELSE @]
            /\ stagedNext' = IF mine THEN 0 ELSE stagedNext
            /\ UNCHANGED responses
  BY DEF ServeCommitAck, Admit
<1>2. /\ ack \in Requests /\ ack.gen = activeGeneration /\ activeGeneration' = activeGeneration
      /\ activeGeneration \in Generations /\ 1 <= activeGeneration /\ activeGeneration <= generation
      /\ requests' \in Seq(Requests) /\ RequestsOrdered'
      /\ navigating' = navigating /\ Len(requests') \in Nat /\ deferred' \in Requests
      /\ deferred' # NoRequest => deferred' = deferred
      /\ \A i \in 1 .. Len(requests') : \E j \in 1 .. Len(requests) : requests'[i] = requests[j]
  <2>1. Head(requests).kind = "commit-ack"
    BY <1>1 DEF Admit, Arrived
  <2>2. StillNavigating = navigating /\ activeGeneration' = activeGeneration
    BY <1>1, <2>1, Admitted DEF IsAck
  <2>3. navigating' = navigating
    BY <1>1, <2>2
  <2> HIDE DEF ack
  <2> QED
    BY <1>1, <2>2, <2>3, Admitted DEF ack, Generations
<1>3. TypeOK /\ SessionShape /\ OneCandidate /\ OneSeekLoop /\ ParkedBehindSeek /\ SeekNavigates
  BY DEF WorkerInv
<1>4. ~navigating
  <2>1. requests # <<>> /\ Head(requests) = requests[1] /\ 1 \in 1 .. Len(requests)
        /\ requests[1].kind = "commit-ack"
    BY <1>1, <1>3, Popped DEF Admit, Arrived, TypeOK
  <2> QED
    BY <1>2, <1>3, <2>1 DEF SeekNavigates
<1>5. session.seek = NoSeek
  BY <1>3, <1>4 DEF SeekNavigates
<1>6. s = session /\ session \in Sessions
  BY <1>3, <1>5 DEF Withdrawn, TypeOK, Sessions
<1>7. mine <=> session.next
  BY <1>2, <1>3 DEF OneCandidate, Generations
<1> HIDE DEF s, ack
<1>8. /\ session' \in Sessions /\ session'.seek = NoSeek /\ session'.next = FALSE
      /\ session'.id = session.id /\ stagedNext' = 0
      /\ session'.id = 0 => session' = NoSession
  <2>1. CASE session.id = 0
    BY <1>1, <1>3, <1>6, <1>7, <2>1, Values DEF SessionShape, OneCandidate, NoSession
  <2>2. CASE session.id # 0 /\ ~mine
    BY <1>1, <1>3, <1>5, <1>6, <1>7, <2>2 DEF OneCandidate, Sessions
  <2>3. CASE session.id # 0 /\ mine
    <3>1. session.cursor < ItemCount /\ session.next
      BY <1>3, <1>7, <2>3 DEF SessionShape
    <3>2. session' = [id |-> session.id,
                      cursor |-> IF ack.accepted /\ session.next THEN session.cursor + 1 ELSE session.cursor,
                      next |-> FALSE, seek |-> NoSeek] /\ stagedNext' = 0
      BY <1>1, <1>5, <1>6, <2>3 DEF Sessions
    <3> QED
      BY <1>6, <2>3, <3>1, <3>2, Values, ProtocolAssumption DEF Sessions
  <2> QED
    BY <2>1, <2>2, <2>3
<1>9. AnswersServed' /\ responses' \in Seq(Responses)
      /\ \A i \in 1 .. Len(responses') : responses'[i].kind = "commit" =>
            \E j \in 1 .. Len(responses) : responses'[i] = responses[j]
  <2>1. CASE session.id = 0
    <3>1. responses' = Append(responses, Answer("engine-error", ack.gen))
          /\ Answer("engine-error", ack.gen) \in Responses
          /\ Answer("engine-error", ack.gen).gen = activeGeneration
          /\ Answer("engine-error", ack.gen).kind = "engine-error"
      BY <1>1, <1>2, <1>6, <2>1, Values DEF Respond, Answer
    <3>2. /\ AnswersServed' /\ responses' \in Seq(Responses) /\ Len(responses) \in Nat
          /\ Len(responses') = Len(responses) + 1
          /\ responses'[Len(responses) + 1] = Answer("engine-error", ack.gen)
          /\ \A i \in 1 .. Len(responses) : responses'[i] = responses[i]
      BY <1>1, <1>2, <3>1, Answered DEF clientVars, Generations
    <3>3. \A i \in 1 .. Len(responses') : responses'[i].kind = "commit" => i \in 1 .. Len(responses)
      BY <3>1, <3>2
    <3> QED
      BY <3>2, <3>3
  <2>2. CASE session.id # 0
    BY <1>1, <1>2, <1>3, <1>6, <2>2 DEF WorkerInv, AnswersServed, clientVars, TypeOK
  <2> QED
    BY <2>1, <2>2
<1>10. TypeOK'
  <2>1. 0 \in Generations
    BY ProtocolAssumption DEF Generations
  <2> QED
    BY <1>1, <1>2, <1>3, <1>8, <1>9, <2>1, Values DEF TypeOK, clientVars
<1>11. SessionShape' /\ SeekNavigates'
  BY <1>1, <1>2, <1>4, <1>8 DEF SessionShape, SeekNavigates, NoCandidate
<1>12. OneCandidate'
  BY <1>1, <1>8 DEF OneCandidate, NoCandidate
<1>13. OneSeekLoop' /\ ParkedBehindSeek'
  BY <1>1, <1>2, <1>3, <1>5, <1>8 DEF OneSeekLoop, ParkedBehindSeek, NoSeek
<1> QED
  BY <1>2, <1>9, <1>10, <1>11, <1>12, <1>13 DEF WorkerInv

\* Requests that are dropped or parked.
LEMMA DropKeeps == WorkerInv /\ DropStale => WorkerInv'
<1> SUFFICES ASSUME WorkerInv, DropStale PROVE WorkerInv'
  OBVIOUS
<1>1. /\ requests # <<>> /\ requests' = Tail(requests) /\ UNCHANGED <<clientVars, responses, workerVars>>
  BY DEF DropStale
<1>2. TypeOK /\ SeekNavigates /\ Len(requests) \in Nat
  BY DEF WorkerInv, TypeOK
<1>3. RequestsOrdered' /\ requests' \in Seq(Requests)
  BY <1>1, Taken DEF clientVars, workerVars
<1>4. \A i \in 1 .. Len(requests') : i + 1 \in 1 .. Len(requests) /\ requests'[i] = requests[i + 1]
  BY <1>1, <1>2, Popped DEF TypeOK
<1>5. SeekNavigates'
  BY <1>1, <1>2, <1>4 DEF SeekNavigates, clientVars, workerVars
<1> QED
  BY <1>1, <1>2, <1>3, <1>5
     DEF WorkerInv, TypeOK, SessionShape, AnswersServed, OneCandidate, OneSeekLoop,
         ParkedBehindSeek, clientVars, workerVars

LEMMA DeferKeeps == WorkerInv /\ Defer => WorkerInv'
<1> SUFFICES ASSUME WorkerInv, Defer PROVE WorkerInv'
  OBVIOUS
<1>1. /\ requests # <<>> /\ requests' = Tail(requests) /\ Blocked(Head(requests))
      /\ deferred' = Head(requests)
      /\ UNCHANGED <<clientVars, responses, activeGeneration, session, stagedNext,
                     stagedCurrent, navigating, seekTimers>>
  BY DEF Defer
<1>2. TypeOK /\ SeekNavigates /\ Len(requests) \in Nat /\ activeGeneration \in Generations
  BY DEF WorkerInv, TypeOK
<1>3. /\ RequestsOrdered' /\ requests' \in Seq(Requests) /\ Head(requests) \in Requests
      /\ Opens(Head(requests)) => activeGeneration < Head(requests).gen
  BY <1>1, Taken DEF clientVars
<1>4. \A i \in 1 .. Len(requests') : i + 1 \in 1 .. Len(requests) /\ requests'[i] = requests[i + 1]
  BY <1>1, <1>2, Popped DEF TypeOK
<1>5. SeekNavigates'
  BY <1>1, <1>2, <1>4 DEF SeekNavigates, clientVars
<1>6. ParkedBehindSeek'
  BY <1>1, <1>2, <1>3 DEF ParkedBehindSeek, Blocked, Navigation, Opens, Generations
<1> QED
  BY <1>1, <1>2, <1>3, <1>5, <1>6
     DEF WorkerInv, TypeOK, SessionShape, AnswersServed, OneCandidate, OneSeekLoop, clientVars

\* A request that opens a generation is newer than everything before it.
LEMMA Posted ==
    ASSUME WorkerInv, NEW r \in Requests, requests' = Append(requests, r),
           activeGeneration' = activeGeneration, r.kind # "none", 1 <= r.gen, r.gen <= generation',
           generation' \in Generations, generation <= generation',
           IsAck(r) => r.gen <= activeGeneration,
           Opens(r) => r.gen > generation,
           ~Opens(r) => generation' = generation
    PROVE  /\ requests' \in Seq(Requests) /\ RequestsOrdered'
           /\ Len(requests) \in Nat /\ Len(requests') = Len(requests) + 1
           /\ \A i \in 1 .. Len(requests) : requests'[i] = requests[i]
           /\ requests'[Len(requests) + 1] = r
<1>1. /\ requests \in Seq(Requests) /\ generation \in Generations /\ activeGeneration \in Generations
      /\ activeGeneration <= generation /\ r.gen \in Generations
  BY DEF WorkerInv, TypeOK, AnswersServed, Requests
<1>2. /\ requests' \in Seq(Requests) /\ Len(requests) \in Nat /\ Len(requests') = Len(requests) + 1
      /\ \A i \in 1 .. Len(requests) : requests'[i] = requests[i]
      /\ requests'[Len(requests) + 1] = r
  BY <1>1, Appended
<1>3. \A i \in 1 .. Len(requests) : requests[i] \in Requests /\ requests[i].gen \in Generations
  <2>1. \A i \in 1 .. Len(requests) : requests[i] \in Requests
    BY <1>1
  <2> QED
    BY <2>1 DEF Requests
<1>4. ASSUME NEW i \in 1 .. Len(requests')
      PROVE  /\ requests'[i].kind # "none"
             /\ 1 <= requests'[i].gen /\ requests'[i].gen <= generation'
             /\ IsAck(requests'[i]) => requests'[i].gen <= activeGeneration
             /\ Opens(requests'[i]) =>
                 /\ activeGeneration < requests'[i].gen
                 /\ \A j \in 1 .. (i - 1) :
                      Asks(requests'[j]) => requests'[j].gen < requests'[i].gen
  <2>1. CASE i # Len(requests) + 1
    <3>1. i \in 1 .. Len(requests) /\ requests'[i] = requests[i]
          /\ \A j \in 1 .. (i - 1) : requests'[j] = requests[j]
      BY <1>2, <2>1
    <3>2. /\ requests[i].kind # "none"
          /\ 1 <= requests[i].gen /\ requests[i].gen <= generation
          /\ IsAck(requests[i]) => requests[i].gen <= activeGeneration
          /\ Opens(requests[i]) =>
              /\ activeGeneration < requests[i].gen
              /\ \A j \in 1 .. (i - 1) : Asks(requests[j]) => requests[j].gen < requests[i].gen
      BY <3>1 DEF WorkerInv, RequestsOrdered
    <3> QED
      BY <1>1, <1>3, <3>1, <3>2 DEF Generations
  <2>2. CASE i = Len(requests) + 1
    <3>1. requests'[i] = r /\ \A j \in 1 .. (i - 1) : j \in 1 .. Len(requests) /\ requests'[j] = requests[j]
      BY <1>2, <2>2
    <3>2. \A j \in 1 .. Len(requests) : requests[j].gen <= generation
      BY DEF WorkerInv, RequestsOrdered
    <3>3. ASSUME Opens(r), NEW j \in 1 .. (i - 1) PROVE requests'[j].gen < r.gen
      BY <1>1, <1>3, <3>1, <3>2, <3>3 DEF Generations
    <3>4. Opens(r) => activeGeneration < r.gen
      BY <1>1 DEF Generations
    <3> QED
      BY <3>1, <3>3, <3>4
  <2> QED
    BY <2>1, <2>2
<1> QED
  BY <1>2, <1>4 DEF RequestsOrdered

LEMMA UserKeeps == WorkerInv /\ User => WorkerInv'
<1> SUFFICES ASSUME WorkerInv, User PROVE WorkerInv'
  OBVIOUS
<1>1. TypeOK /\ SessionShape /\ SeekNavigates /\ generation \in Generations /\ Len(requests) \in Nat
  BY DEF WorkerInv, TypeOK
<1>2. PICK r \in Requests :
        /\ requests' = Append(requests, r) /\ UNCHANGED <<frame, decoding, fatal, responses, workerVars>>
        /\ requestPending' = TRUE
        /\ r.gen = generation' /\ r.kind \in Navigation \cup Edits \cup {"create"}
        /\ \/ Opens(r) /\ generation < MaxGeneration /\ generation' = generation + 1
           \/ ~Opens(r) /\ generation' = generation /\ r.kind = "next" /\ frame # NoView
  <2>1. CASE StepForward
    <3>1. Plain("next", generation) \in Requests
      BY <1>1, Values
    <3> QED
      BY <2>1, <3>1 DEF StepForward, Post, Plain, Opens, Edits, Navigation
  <2>2. ASSUME NEW k \in Edits \cup {"create"}, OpenGeneration(Plain(k, generation + 1))
        PROVE  \E r \in Requests :
                /\ requests' = Append(requests, r) /\ UNCHANGED <<frame, decoding, fatal, responses, workerVars>>
                /\ requestPending' = TRUE
                /\ r.gen = generation' /\ r.kind \in Navigation \cup Edits \cup {"create"}
                /\ Opens(r) /\ generation < MaxGeneration /\ generation' = generation + 1
    <3>1. generation + 1 \in Generations
      BY <1>1, <2>2, ProtocolAssumption DEF OpenGeneration, Generations
    <3>2. Plain(k, generation + 1) \in Requests
      BY <3>1, Values DEF Edits
    <3> QED
      BY <2>2, <3>2 DEF OpenGeneration, Post, Plain, Opens
  <2>3. ASSUME NEW t \in 0 .. ItemCount, OpenGeneration(SeekRequest(generation + 1, t))
        PROVE  \E r \in Requests :
                /\ requests' = Append(requests, r) /\ UNCHANGED <<frame, decoding, fatal, responses, workerVars>>
                /\ requestPending' = TRUE
                /\ r.gen = generation' /\ r.kind \in Navigation \cup Edits \cup {"create"}
                /\ Opens(r) /\ generation < MaxGeneration /\ generation' = generation + 1
    <3>1. generation + 1 \in Generations
      BY <1>1, <2>3, ProtocolAssumption DEF OpenGeneration, Generations
    <3>2. SeekRequest(generation + 1, t) \in Requests
      BY <3>1, Values
    <3> QED
      BY <2>3, <3>2 DEF OpenGeneration, Post, Plain, SeekRequest, Opens, Navigation
  <2> QED
    BY <2>1, <2>2, <2>3 DEF User, Load, Edit, Seek
<1>3. generation' \in Generations /\ generation <= generation' /\ 1 <= generation'
      /\ (Opens(r) => r.gen > generation) /\ r.kind \in {"next", "seek", "prepare", "export", "create"}
  <2>1. r.kind \in {"next", "seek", "prepare", "export", "create"}
    BY <1>2 DEF Navigation, Edits
  <2>2. CASE Opens(r)
    BY <1>1, <1>2, <2>1, <2>2, ProtocolAssumption DEF Generations
  <2>3. CASE ~Opens(r)
    BY <1>1, <1>2, <2>1, <2>3 DEF WorkerInv, AnswersServed, Generations
  <2> QED
    BY <2>2, <2>3, <2>1
<1>4. /\ requests' \in Seq(Requests) /\ RequestsOrdered' /\ AnswersServed'
      /\ Len(requests') = Len(requests) + 1
      /\ \A i \in 1 .. Len(requests) : requests'[i] = requests[i]
      /\ requests'[Len(requests) + 1] = r
  <2>1. ~IsAck(r) /\ r.kind # "none" /\ r.gen <= generation' /\ 1 <= r.gen
    BY <1>2, <1>3 DEF IsAck, Generations
  <2>2. UNCHANGED <<activeGeneration, seekTimers>>
    BY <1>2 DEF workerVars
  <2>3. ~Opens(r) => generation' = generation
    BY <1>2
  <2>4. AnswersServed'
    BY <1>1, <1>2, <1>3, <2>2 DEF WorkerInv, AnswersServed, TypeOK, Generations
  <2> QED
    BY <1>2, <1>3, <2>1, <2>2, <2>3, <2>4, Posted
<1>5. SeekNavigates'
  <2>1. \A i \in 1 .. Len(requests') : requests'[i].kind = "commit-ack" => i \in 1 .. Len(requests)
    BY <1>1, <1>3, <1>4
  <2> QED
    BY <1>1, <1>2, <1>4, <2>1 DEF SeekNavigates, workerVars
<1> QED
  BY <1>1, <1>2, <1>3, <1>4, <1>5
     DEF WorkerInv, TypeOK, SessionShape, OneCandidate, OneSeekLoop, ParkedBehindSeek, workerVars

\* What the client does to the Worker: it answers each packet with one verdict.
LEMMA ClientKeeps ==
    ASSUME WorkerInv, UNCHANGED <<generation, workerVars>>, TypeOK',
           frame' # NoView => frame # NoView \/ 1 <= generation,
           \/ requests' = requests
           \/ \E verdict \in BOOLEAN :
                \/ /\ responses # <<>> /\ Head(responses).kind \in Packets
                   /\ requests' = Append(requests, Ack(AckKind(Head(responses)), Head(responses).gen, verdict))
                \/ \E d \in decoding :
                    requests' = Append(requests, Ack(AckKind(d.packet), d.packet.gen, verdict)),
           responses' = responses \/ (responses # <<>> /\ responses' = Tail(responses)),
           \A d \in decoding' : \/ \E e \in decoding : d.packet = e.packet
                                \/ responses # <<>> /\ d.packet = Head(responses) /\ d.packet.kind \in Packets
    PROVE  WorkerInv'
<1>1. /\ TypeOK /\ AnswersServed /\ SeekNavigates /\ RequestsOrdered
      /\ requests \in Seq(Requests) /\ responses \in Seq(Responses)
      /\ Len(requests) \in Nat /\ Len(responses) \in Nat
      /\ generation \in Generations /\ activeGeneration \in Generations
      /\ activeGeneration' = activeGeneration /\ generation' = generation
  BY DEF WorkerInv, TypeOK, workerVars
<1>2. \* An answer in the port, or a packet that is decoded, has been served.
      /\ responses # <<>> => /\ Head(responses) \in Responses
                             /\ 1 <= Head(responses).gen /\ Head(responses).gen <= activeGeneration
                             /\ navigating /\ Head(responses).kind = "commit" =>
                                    Head(responses).gen # activeGeneration
      /\ \A d \in decoding : /\ d.packet \in Responses /\ d.packet.kind \in Packets
                             /\ 1 <= d.packet.gen /\ d.packet.gen <= activeGeneration
                             /\ navigating /\ d.packet.kind = "commit" => d.packet.gen # activeGeneration
      /\ \A i \in 1 .. Len(responses') : \E j \in 1 .. Len(responses) : responses'[i] = responses[j]
  <2>1. responses # <<>> => Head(responses) = responses[1] /\ 1 \in 1 .. Len(responses)
                            /\ Head(responses) \in Responses
    BY <1>1, Popped
  <2>2. decoding \subseteq [packet : Responses, base : Views]
    BY <1>1 DEF TypeOK
  <2>3. \A i \in 1 .. Len(responses') : \E j \in 1 .. Len(responses) : responses'[i] = responses[j]
    <3>1. CASE responses' = responses
      BY <3>1
    <3>2. CASE responses # <<>> /\ responses' = Tail(responses)
      <4> SUFFICES ASSUME NEW i \in 1 .. Len(responses')
                   PROVE \E j \in 1 .. Len(responses) : responses'[i] = responses[j]
        OBVIOUS
      <4>1. i + 1 \in 1 .. Len(responses) /\ responses'[i] = responses[i + 1]
        BY <1>1, <3>2, Popped
      <4> QED
        BY <4>1
    <3> QED
      BY <3>1, <3>2
  <2> QED
    BY <1>1, <2>1, <2>2, <2>3 DEF AnswersServed, SeekNavigates
<1>3. AnswersServed'
  <2>1. \A i \in 1 .. Len(responses') : 1 <= responses'[i].gen /\ responses'[i].gen <= activeGeneration
    BY <1>1, <1>2 DEF AnswersServed
  <2>2. \A d \in decoding' : 1 <= d.packet.gen /\ d.packet.gen <= activeGeneration /\ d.packet.kind \in Packets
    BY <1>2
  <2>3. frame' # NoView => 1 <= generation
    BY <1>1 DEF AnswersServed
  <2> QED
    BY <1>1, <2>1, <2>2, <2>3 DEF AnswersServed, workerVars
<1>4. \A p \in Responses, verdict \in BOOLEAN :
        p.kind \in Packets =>
            /\ Ack(AckKind(p), p.gen, verdict) \in Requests /\ Ack(AckKind(p), p.gen, verdict).gen = p.gen
            /\ IsAck(Ack(AckKind(p), p.gen, verdict)) /\ ~Opens(Ack(AckKind(p), p.gen, verdict))
            /\ Ack(AckKind(p), p.gen, verdict).kind = "commit-ack" => p.kind = "commit"
  BY Values DEF Responses, AckKind, Ack, Plain, IsAck, Opens, Edits
<1>5. CASE requests' = requests
  <2>1. RequestsOrdered'
    BY <1>1, <1>5 DEF RequestsOrdered
  <2>2. SeekNavigates'
    BY <1>1, <1>2, <1>5 DEF SeekNavigates, workerVars
  <2> QED
    BY <1>3, <2>1, <2>2
       DEF WorkerInv, SessionShape, OneCandidate, OneSeekLoop, ParkedBehindSeek, workerVars
<1>6. ASSUME NEW p \in Responses, NEW verdict \in BOOLEAN, p.kind \in Packets,
             1 <= p.gen, p.gen <= activeGeneration,
             navigating /\ p.kind = "commit" => p.gen # activeGeneration,
             requests' = Append(requests, Ack(AckKind(p), p.gen, verdict))
      PROVE  WorkerInv'
  <2> DEFINE a == Ack(AckKind(p), p.gen, verdict)
  <2>1. /\ a \in Requests /\ a.gen = p.gen /\ IsAck(a) /\ ~Opens(a) /\ a.kind # "none"
        /\ a.kind = "commit-ack" => p.kind = "commit"
    BY <1>4, <1>6 DEF IsAck
  <2> HIDE DEF a
  <2>2. p.gen \in Generations /\ p.gen <= generation
    BY <1>1, <1>6 DEF Responses, AnswersServed, Generations
  <2>3. requests' = Append(requests, a)
    BY <1>6 DEF a
  <2>4. /\ RequestsOrdered' /\ Len(requests') = Len(requests) + 1
        /\ \A i \in 1 .. Len(requests) : requests'[i] = requests[i]
        /\ requests'[Len(requests) + 1] = a
    <3>1. generation' \in Generations /\ generation <= generation' /\ a.gen <= generation'
          /\ a.gen <= activeGeneration /\ 1 <= a.gen
      BY <1>1, <1>6, <2>1, <2>2 DEF Generations
    <3> QED
      BY <1>1, <2>1, <2>3, <3>1, Posted
  <2>5. \A i \in 1 .. Len(requests') : navigating /\ requests'[i].kind = "commit-ack" =>
            requests'[i].gen # activeGeneration
    <3> SUFFICES ASSUME NEW i \in 1 .. Len(requests'), navigating, requests'[i].kind = "commit-ack"
                 PROVE requests'[i].gen # activeGeneration
      OBVIOUS
    <3>1. CASE i \in 1 .. Len(requests)
      BY <1>1, <2>4, <3>1 DEF SeekNavigates
    <3>2. CASE i = Len(requests) + 1
      BY <1>6, <2>1, <2>4, <3>2
    <3> QED
      BY <1>1, <2>4, <3>1, <3>2
  <2>6. SeekNavigates'
    BY <1>1, <1>2, <2>5 DEF SeekNavigates, workerVars
  <2> QED
    BY <1>3, <2>4, <2>6
       DEF WorkerInv, SessionShape, OneCandidate, OneSeekLoop, ParkedBehindSeek, workerVars
<1>7. CASE \E verdict \in BOOLEAN :
                \/ /\ responses # <<>> /\ Head(responses).kind \in Packets
                   /\ requests' = Append(requests, Ack(AckKind(Head(responses)), Head(responses).gen, verdict))
                \/ \E d \in decoding :
                    requests' = Append(requests, Ack(AckKind(d.packet), d.packet.gen, verdict))
  BY <1>2, <1>6, <1>7
<1> QED
  BY <1>5, <1>7

LEMMA ReceiveKeeps == WorkerInv /\ Receive => WorkerInv'
<1> SUFFICES ASSUME WorkerInv, Receive PROVE WorkerInv'
  OBVIOUS
<1>1. TypeOK /\ responses \in Seq(Responses) /\ requests \in Seq(Requests) /\ responses # <<>>
  BY DEF WorkerInv, TypeOK, Receive, DropAnswer, ReceivePacket, ReceiveAnswer
<1>2. /\ Head(responses) \in Responses /\ Tail(responses) \in Seq(Responses)
      /\ Head(responses) = responses[1] /\ 1 \in 1 .. Len(responses)
  BY <1>1, Popped
<1>3. 1 <= Head(responses).gen /\ Head(responses).gen <= activeGeneration
  BY <1>2 DEF WorkerInv, AnswersServed
<1>4. CASE DropAnswer
  <2>1. /\ responses' = Tail(responses) /\ UNCHANGED <<clientVars, workerVars>>
        /\ \/ UNCHANGED requests
           \/ /\ Head(responses).kind \in Packets
              /\ requests' = Append(requests, Ack(AckKind(Head(responses)), Head(responses).gen, FALSE))
    BY <1>4 DEF DropAnswer, Verdict, Post
  <2>2. requests' \in Seq(Requests)
    <3>1. CASE UNCHANGED requests
      BY <1>1, <3>1
    <3>2. CASE requests' = Append(requests, Ack(AckKind(Head(responses)), Head(responses).gen, FALSE))
      <4>1. Ack(AckKind(Head(responses)), Head(responses).gen, FALSE) \in Requests
        BY <1>2, Values DEF AckKind, Responses
      <4> QED
        BY <1>1, <3>2, <4>1, Appended
    <3> QED
      BY <2>1, <3>1, <3>2
  <2>3. TypeOK'
    BY <1>1, <1>2, <2>1, <2>2 DEF TypeOK, clientVars, workerVars
  <2> QED
    BY <1>1, <2>1, <2>3, ClientKeeps DEF clientVars
<1>5. CASE ReceivePacket
  <2>1. /\ responses' = Tail(responses) /\ Head(responses).kind \in Packets
        /\ decoding' = decoding \cup {[packet |-> Head(responses), base |-> NoView]}
        /\ UNCHANGED <<generation, requestPending, frame, fatal, requests, workerVars>>
    BY <1>5 DEF ReceivePacket
  <2>2. TypeOK'
    BY <1>1, <1>2, <2>1, Values DEF TypeOK, workerVars
  <2>3. \A d \in decoding' : \/ \E e \in decoding : d.packet = e.packet
                             \/ responses # <<>> /\ d.packet = Head(responses) /\ d.packet.kind \in Packets
    BY <1>1, <2>1
  <2> QED
    BY <1>1, <2>1, <2>2, <2>3, ClientKeeps
<1>6. CASE ReceiveAnswer
  <2>1. /\ responses' = Tail(responses)
        /\ requestPending' = FALSE
        /\ frame' = IF Head(responses).kind = "prepared" THEN NoView ELSE frame
        /\ fatal' = IF Head(responses).kind = "engine-error" THEN "fault" ELSE fatal
        /\ UNCHANGED <<generation, decoding, requests, workerVars>>
    BY <1>6 DEF ReceiveAnswer
  <2>2. frame' \in Views /\ fatal' \in {"no", "packet", "fault"} /\ (frame' # NoView => frame # NoView)
    BY <1>1, <2>1, Values DEF TypeOK
  <2>3. TypeOK'
    BY <1>1, <1>2, <2>1, <2>2 DEF TypeOK, workerVars
  <2> QED
    BY <1>1, <2>1, <2>2, <2>3, ClientKeeps
<1> QED
  BY <1>4, <1>5, <1>6 DEF Receive

LEMMA FinishKeeps ==
    ASSUME WorkerInv, NEW d \in decoding, Finish(d) \/ Invalid(d)
    PROVE  WorkerInv'
<1>1. /\ TypeOK /\ requests \in Seq(Requests) /\ d.packet \in Responses /\ d.base \in Views
      /\ decoding \subseteq [packet : Responses, base : Views] /\ frame \in Views
      /\ d = [packet |-> d.packet, base |-> d.base] /\ generation \in Generations
  BY DEF WorkerInv, TypeOK
<1>2. /\ UNCHANGED <<generation, responses, workerVars>>
      /\ \/ decoding' = decoding \ {d}
         \/ decoding' = (decoding \ {d}) \cup {[d EXCEPT !.base = frame]}
      /\ \/ UNCHANGED <<requests, frame, requestPending, fatal>>
         \/ /\ (frame' = d.packet.view /\ Current(d.packet)) \/ UNCHANGED frame
            /\ requestPending' \in {requestPending, FALSE}
            /\ fatal' \in {fatal, "fault", "packet"}
            /\ \E verdict \in BOOLEAN :
                requests' = Append(requests, Ack(AckKind(d.packet), d.packet.gen, verdict))
  BY DEF Finish, Decoded, Replayed, Invalid, Show, Refuse, Verdict, Post
<1>3. requests' \in Seq(Requests)
  <2>1. ASSUME NEW verdict \in BOOLEAN,
               requests' = Append(requests, Ack(AckKind(d.packet), d.packet.gen, verdict))
        PROVE  requests' \in Seq(Requests)
    <3>1. Ack(AckKind(d.packet), d.packet.gen, verdict) \in Requests
      BY <1>1, Values DEF AckKind, Responses
    <3> QED
      BY <1>1, <2>1, <3>1, Appended
  <2> QED
    BY <1>1, <1>2, <2>1
<1>4. /\ decoding' \subseteq [packet : Responses, base : Views]
      /\ \A e \in decoding' : \E f \in decoding : e.packet = f.packet
  BY <1>1, <1>2
<1>5. frame' \in Views /\ (frame' # NoView => frame # NoView \/ 1 <= generation)
  <2>1. Current(d.packet) => 1 <= generation
    BY DEF Current, WorkerInv, AnswersServed
  <2> QED
    BY <1>1, <1>2, <2>1 DEF Responses
<1>6. TypeOK'
  BY <1>1, <1>2, <1>3, <1>4, <1>5 DEF TypeOK, workerVars
<1> QED
  BY <1>2, <1>4, <1>5, <1>6, ClientKeeps

LEMMA StutterKeeps == WorkerInv /\ UNCHANGED vars => WorkerInv'
  BY DEF WorkerInv, TypeOK, SessionShape, RequestsOrdered, AnswersServed, SeekNavigates,
         OneCandidate, OneSeekLoop, ParkedBehindSeek, vars, clientVars, workerVars

LEMMA WorkerStep == WorkerInv /\ [Next]_vars => WorkerInv'
  BY CreateKeeps, EditKeeps, NextKeeps, SeekKeeps, TimerKeeps, CurrentAckKeeps, CommitAckKeeps,
     DropKeeps, DeferKeeps, UserKeeps, ReceiveKeeps, FinishKeeps, StutterKeeps
     DEF Next, Serve

LEMMA WorkerInvariant == Spec => []WorkerInv
  BY Initially, WorkerStep, PTL DEF Spec

\* Both sides and the messages between them keep their types.
THEOREM TypeCorrect == Spec => []TypeOK
  BY WorkerInvariant, PTL DEF WorkerInv

\* At most one publication awaits its verdict, of the active generation and the
\* active session.
THEOREM OneCandidateAlways == Spec => []OneCandidate
  BY WorkerInvariant, PTL DEF WorkerInv

\* A replaying seek has its own loop and no other, and only a step is ever
\* parked behind it, of its own generation.
THEOREM SeekAloneAlways == Spec => []SeekAlone
<1>1. WorkerInv => SeekAlone
  BY DEF WorkerInv, SeekAlone
<1> QED
  BY <1>1, WorkerInvariant, PTL

(***************************************************************************)
(* One at a time: how a request moves from place to place                   *)
(***************************************************************************)
LEMMA PopRequest ==
    ASSUME NEW q \in Seq(Requests), q # <<>>, NEW p, NEW T, NEW s, NEW D, OneAtATime(q, p, T, s, D)
    PROVE  /\ OneAtATime(Tail(q), p, T, s, D)
           /\ Asks(Head(q)) => /\ Idle(Tail(q), p, T, s, D, Head(q).gen)
                               /\ NoVerdict(Tail(q), Head(q).gen)
           /\ IsAck(Head(q)) => NoVerdict(Tail(q), Head(q).gen)
           /\ \A g : Idle(q, p, T, s, D, g) => Idle(Tail(q), p, T, s, D, g)
           /\ \A g : NoVerdict(q, g) => NoVerdict(Tail(q), g)
<1> DEFINE t == Tail(q)
<1>1. /\ Len(q) \in Nat /\ 1 <= Len(q) /\ Head(q) = q[1] /\ Len(t) = Len(q) - 1
      /\ \A i \in 1 .. Len(t) : t[i] = q[i + 1]
  BY Popped
<1> HIDE DEF t
<1>2. \A i \in 1 .. Len(t) : i + 1 \in 1 .. Len(q) /\ i + 1 # 1 /\ t[i] = q[i + 1]
  BY <1>1
<1>3. 1 \in 1 .. Len(q)
  BY <1>1
<1>4. OneAtATime(t, p, T, s, D)
  <2>1. \A i, j \in 1 .. Len(t) :
          /\ Asks(t[i]) /\ Asks(t[j]) /\ t[i].gen = t[j].gen => i = j
          /\ IsAck(t[i]) /\ IsAck(t[j]) /\ t[i].gen = t[j].gen => i = j
          /\ Asks(t[i]) /\ IsAck(t[j]) =>
              /\ t[i].gen = t[j].gen => j < i
              /\ i < j /\ t[j].accepted => t[i].gen < t[j].gen
    <3> SUFFICES ASSUME NEW i \in 1 .. Len(t), NEW j \in 1 .. Len(t)
                 PROVE /\ Asks(t[i]) /\ Asks(t[j]) /\ t[i].gen = t[j].gen => i = j
                       /\ IsAck(t[i]) /\ IsAck(t[j]) /\ t[i].gen = t[j].gen => i = j
                       /\ Asks(t[i]) /\ IsAck(t[j]) =>
                           /\ t[i].gen = t[j].gen => j < i
                           /\ i < j /\ t[j].accepted => t[i].gen < t[j].gen
      OBVIOUS
    <3>1. /\ Asks(q[i + 1]) /\ Asks(q[j + 1]) /\ q[i + 1].gen = q[j + 1].gen => i + 1 = j + 1
          /\ IsAck(q[i + 1]) /\ IsAck(q[j + 1]) /\ q[i + 1].gen = q[j + 1].gen => i + 1 = j + 1
          /\ Asks(q[i + 1]) /\ IsAck(q[j + 1]) =>
                /\ q[i + 1].gen = q[j + 1].gen => j + 1 < i + 1
                /\ i + 1 < j + 1 /\ q[j + 1].accepted => q[i + 1].gen < q[j + 1].gen
      BY <1>2 DEF OneAtATime
    <3> QED
      BY <1>1, <1>2, <3>1
  <2>2. \A i \in 1 .. Len(t) :
          /\ p # NoRequest => p.gen # t[i].gen
          /\ t[i].gen \notin T
          /\ \A k \in 1 .. Len(s) : s[k].gen # t[i].gen
          /\ \A d \in D : d.packet.gen # t[i].gen
    BY <1>2 DEF OneAtATime
  <2> QED
    BY <2>1, <2>2 DEF OneAtATime
<1>5. ASSUME Asks(q[1]) PROVE Idle(t, p, T, s, D, q[1].gen) /\ NoVerdict(t, q[1].gen)
  <2>1. \A i \in 1 .. Len(t) : t[i].gen # q[1].gen
    <3> SUFFICES ASSUME NEW i \in 1 .. Len(t), t[i].gen = q[1].gen PROVE FALSE
      OBVIOUS
    <3>1. CASE Asks(q[i + 1])
      BY <1>2, <1>3, <1>5, <3>1 DEF OneAtATime
    <3>2. CASE IsAck(q[i + 1])
      <4>1. i + 1 < 1
        BY <1>2, <1>3, <1>5, <3>2 DEF OneAtATime
      <4> QED
        BY <1>1, <4>1
    <3> QED
      BY <3>1, <3>2 DEF Asks
  <2> QED
    BY <1>3, <2>1 DEF OneAtATime, Idle, NoVerdict
<1>6. ASSUME IsAck(q[1]) PROVE NoVerdict(t, q[1].gen)
  BY <1>2, <1>3, <1>6 DEF OneAtATime, NoVerdict
<1>7. ASSUME NEW g PROVE /\ Idle(q, p, T, s, D, g) => Idle(t, p, T, s, D, g)
                         /\ NoVerdict(q, g) => NoVerdict(t, g)
  BY <1>2 DEF Idle, NoVerdict
<1> QED
  BY <1>1, <1>4, <1>5, <1>6, <1>7 DEF t

LEMMA PostRequest ==
    ASSUME NEW q \in Seq(Requests), NEW r \in Requests, NEW p, NEW T, NEW s, NEW D,
           OneAtATime(q, p, T, s, D), Idle(q, p, T, s, D, r.gen),
           IsAck(r) => NoVerdict(q, r.gen),
           IsAck(r) /\ r.accepted => \A i \in 1 .. Len(q) : Asks(q[i]) => q[i].gen < r.gen
    PROVE  /\ OneAtATime(Append(q, r), p, T, s, D)
           /\ \A g : Idle(q, p, T, s, D, g) /\ (g # r.gen \/ IsAck(r)) => Idle(Append(q, r), p, T, s, D, g)
<1> DEFINE t == Append(q, r)
           n == Len(q) + 1
<1>1. /\ Len(q) \in Nat /\ Len(t) = n /\ t[n] = r
      /\ \A i \in 1 .. Len(q) : t[i] = q[i]
  BY Appended
<1> HIDE DEF t
<1>2. \A i \in 1 .. Len(t) : i = n \/ i \in 1 .. Len(q)
  BY <1>1
<1>3. \A i \in 1 .. Len(q) : i < n /\ n # i
  BY <1>1
<1>4. \A i \in 1 .. Len(q) : /\ Asks(q[i]) => q[i].gen # r.gen
                             /\ IsAck(r) => q[i].gen # r.gen
  BY DEF Idle, NoVerdict, Asks
<1>5. \A i, j \in 1 .. Len(t) :
          /\ Asks(t[i]) /\ Asks(t[j]) /\ t[i].gen = t[j].gen => i = j
          /\ IsAck(t[i]) /\ IsAck(t[j]) /\ t[i].gen = t[j].gen => i = j
  <2> SUFFICES ASSUME NEW i \in 1 .. Len(t), NEW j \in 1 .. Len(t)
               PROVE /\ Asks(t[i]) /\ Asks(t[j]) /\ t[i].gen = t[j].gen => i = j
                     /\ IsAck(t[i]) /\ IsAck(t[j]) /\ t[i].gen = t[j].gen => i = j
    OBVIOUS
  <2>1. CASE i \in 1 .. Len(q) /\ j \in 1 .. Len(q)
    BY <1>1, <2>1 DEF OneAtATime
  <2>2. CASE i = n \/ j = n
    BY <1>1, <1>2, <1>4, <2>2
  <2> QED
    BY <1>2, <2>1, <2>2
<1>6. \A i, j \in 1 .. Len(t) : Asks(t[i]) /\ IsAck(t[j]) =>
              /\ t[i].gen = t[j].gen => j < i
              /\ i < j /\ t[j].accepted => t[i].gen < t[j].gen
  <2> SUFFICES ASSUME NEW i \in 1 .. Len(t), NEW j \in 1 .. Len(t), Asks(t[i]), IsAck(t[j])
               PROVE /\ t[i].gen = t[j].gen => j < i
                     /\ i < j /\ t[j].accepted => t[i].gen < t[j].gen
    OBVIOUS
  <2>1. CASE i \in 1 .. Len(q) /\ j \in 1 .. Len(q)
    BY <1>1, <2>1 DEF OneAtATime
  <2>2. CASE i = n /\ j \in 1 .. Len(q)
    BY <1>1, <1>3, <2>2
  <2>3. CASE i \in 1 .. Len(q) /\ j = n
    BY <1>1, <1>3, <1>4, <2>3
  <2>4. CASE i = n /\ j = n
    BY <2>4 DEF Asks
  <2> QED
    BY <1>2, <2>1, <2>2, <2>3, <2>4
<1>7. \A i \in 1 .. Len(t) :
          /\ p # NoRequest => p.gen # t[i].gen
          /\ t[i].gen \notin T
          /\ \A k \in 1 .. Len(s) : s[k].gen # t[i].gen
          /\ \A d \in D : d.packet.gen # t[i].gen
  <2> SUFFICES ASSUME NEW i \in 1 .. Len(t)
               PROVE /\ p # NoRequest => p.gen # t[i].gen
                     /\ t[i].gen \notin T
                     /\ \A k \in 1 .. Len(s) : s[k].gen # t[i].gen
                     /\ \A d \in D : d.packet.gen # t[i].gen
    OBVIOUS
  <2>1. CASE i = n
    BY <1>1, <2>1 DEF Idle
  <2>2. CASE i \in 1 .. Len(q)
    BY <1>1, <2>2 DEF OneAtATime
  <2> QED
    BY <1>2, <2>1, <2>2
<1>8. OneAtATime(t, p, T, s, D)
  BY <1>5, <1>6, <1>7 DEF OneAtATime
<1>9. ASSUME NEW g, Idle(q, p, T, s, D, g), g # r.gen \/ IsAck(r) PROVE Idle(t, p, T, s, D, g)
  BY <1>1, <1>2, <1>9 DEF Idle, Asks
<1> QED
  BY <1>8, <1>9 DEF t

LEMMA PostAnswer ==
    ASSUME NEW q, NEW s \in Seq(Responses), NEW r \in Responses, NEW p, NEW T, NEW D,
           OneAtATime(q, p, T, s, D), Idle(q, p, T, s, D, r.gen), NoVerdict(q, r.gen)
    PROVE  /\ OneAtATime(q, p, T, Append(s, r), D)
           /\ \A g : Idle(q, p, T, s, D, g) /\ g # r.gen => Idle(q, p, T, Append(s, r), D, g)
<1> DEFINE t == Append(s, r)
           n == Len(s) + 1
<1>1. /\ Len(s) \in Nat /\ Len(t) = n /\ t[n] = r
      /\ \A i \in 1 .. Len(s) : t[i] = s[i]
  BY Appended
<1> HIDE DEF t
<1>2. \A i \in 1 .. Len(t) : i = n \/ i \in 1 .. Len(s)
  BY <1>1
<1>3. \A i \in 1 .. Len(q) : q[i].gen # r.gen
  BY DEF Idle, NoVerdict, Asks
<1>4. \A k, l \in 1 .. Len(t) : t[k].gen = t[l].gen => k = l
  <2> SUFFICES ASSUME NEW k \in 1 .. Len(t), NEW l \in 1 .. Len(t), t[k].gen = t[l].gen PROVE k = l
    OBVIOUS
  <2>1. CASE k \in 1 .. Len(s) /\ l \in 1 .. Len(s)
    BY <1>1, <2>1 DEF OneAtATime
  <2>2. CASE k = n \/ l = n
    BY <1>1, <1>2, <2>2 DEF Idle
  <2> QED
    BY <1>2, <2>1, <2>2
<1>5. \A k \in 1 .. Len(t) :
        /\ t[k].gen \notin T
        /\ \A d \in D : d.packet.gen # t[k].gen
        /\ p # NoRequest => t[k].gen # p.gen
        /\ \A i \in 1 .. Len(q) : t[k].gen # q[i].gen
  <2> SUFFICES ASSUME NEW k \in 1 .. Len(t)
               PROVE /\ t[k].gen \notin T
                     /\ \A d \in D : d.packet.gen # t[k].gen
                     /\ p # NoRequest => t[k].gen # p.gen
                     /\ \A i \in 1 .. Len(q) : t[k].gen # q[i].gen
    OBVIOUS
  <2>1. CASE k = n
    BY <1>1, <1>3, <2>1 DEF Idle
  <2>2. CASE k \in 1 .. Len(s)
    BY <1>1, <2>2 DEF OneAtATime
  <2> QED
    BY <1>2, <2>1, <2>2
<1>6. OneAtATime(q, p, T, t, D)
  BY <1>4, <1>5 DEF OneAtATime
<1>7. ASSUME NEW g, Idle(q, p, T, s, D, g), g # r.gen PROVE Idle(q, p, T, t, D, g)
  BY <1>1, <1>2, <1>7 DEF Idle
<1> QED
  BY <1>6, <1>7 DEF t

LEMMA PopAnswer ==
    ASSUME NEW q, NEW s \in Seq(Responses), s # <<>>, NEW p, NEW T, NEW D,
           OneAtATime(q, p, T, s, D)
    PROVE  /\ OneAtATime(q, p, T, Tail(s), D)
           /\ Idle(q, p, T, Tail(s), D, Head(s).gen) /\ NoVerdict(q, Head(s).gen)
           /\ \A g : Idle(q, p, T, s, D, g) => Idle(q, p, T, Tail(s), D, g)
<1> DEFINE t == Tail(s)
<1>1. /\ Len(s) \in Nat /\ 1 <= Len(s) /\ Head(s) = s[1] /\ Len(t) = Len(s) - 1
      /\ \A i \in 1 .. Len(t) : t[i] = s[i + 1]
  BY Popped
<1> HIDE DEF t
<1>2. \A i \in 1 .. Len(t) : i + 1 \in 1 .. Len(s) /\ i + 1 # 1 /\ t[i] = s[i + 1]
  BY <1>1
<1>3. 1 \in 1 .. Len(s)
  BY <1>1
<1>4. \A k, l \in 1 .. Len(t) : t[k].gen = t[l].gen => k = l
  <2> SUFFICES ASSUME NEW k \in 1 .. Len(t), NEW l \in 1 .. Len(t), t[k].gen = t[l].gen PROVE k = l
    OBVIOUS
  <2>1. k + 1 = l + 1
    BY <1>2, SMTT(30) DEF OneAtATime
  <2> QED
    BY <1>1, <2>1
<1>5. OneAtATime(q, p, T, t, D)
  BY <1>2, <1>4, SMTT(30) DEF OneAtATime
<1>6. Idle(q, p, T, t, D, s[1].gen) /\ NoVerdict(q, s[1].gen)
  BY <1>2, <1>3, SMTT(30) DEF OneAtATime, Idle, NoVerdict
<1>7. ASSUME NEW g, Idle(q, p, T, s, D, g) PROVE Idle(q, p, T, t, D, g)
  BY <1>2, <1>7 DEF Idle
<1> QED
  BY <1>1, <1>5, <1>6, <1>7 DEF t

LEMMA OtherPlaces ==
    ASSUME NEW q, NEW s, NEW p, NEW T, NEW D, OneAtATime(q, p, T, s, D)
    PROVE  /\ OneAtATime(q, NoRequest, T, s, D)
           /\ \A g : Idle(q, p, T, s, D, g) => Idle(q, NoRequest, T, s, D, g)
           /\ \A r : Idle(q, p, T, s, D, r.gen) /\ NoVerdict(q, r.gen) =>
                /\ OneAtATime(q, r, T, s, D)
                /\ \A g : Idle(q, p, T, s, D, g) /\ g # r.gen => Idle(q, r, T, s, D, g)
           /\ \A U \in SUBSET T : /\ OneAtATime(q, p, U, s, D)
                                  /\ \A g : Idle(q, p, T, s, D, g) => Idle(q, p, U, s, D, g)
           /\ \A g \in T : Idle(q, p, T \ {g}, s, D, g) /\ NoVerdict(q, g)
           /\ \A h : Idle(q, p, T, s, D, h) /\ NoVerdict(q, h) =>
                /\ OneAtATime(q, p, T \cup {h}, s, D)
                /\ \A g : Idle(q, p, T, s, D, g) /\ g # h => Idle(q, p, T \cup {h}, s, D, g)
           /\ \A d \in D : /\ OneAtATime(q, p, T, s, D \ {d})
                           /\ Idle(q, p, T, s, D \ {d}, d.packet.gen) /\ NoVerdict(q, d.packet.gen)
           /\ \A g, d : Idle(q, p, T, s, D, g) => Idle(q, p, T, s, D \ {d}, g)
           /\ \A d : Idle(q, p, T, s, D, d.packet.gen) /\ NoVerdict(q, d.packet.gen) =>
                /\ OneAtATime(q, p, T, s, D \cup {d})
                /\ \A g : Idle(q, p, T, s, D, g) /\ g # d.packet.gen => Idle(q, p, T, s, D \cup {d}, g)
<1>1. OneAtATime(q, NoRequest, T, s, D) /\ \A g : Idle(q, p, T, s, D, g) => Idle(q, NoRequest, T, s, D, g)
  BY DEF OneAtATime, Idle
<1>2. ASSUME NEW r, Idle(q, p, T, s, D, r.gen), NoVerdict(q, r.gen)
      PROVE  /\ OneAtATime(q, r, T, s, D)
             /\ \A g : Idle(q, p, T, s, D, g) /\ g # r.gen => Idle(q, r, T, s, D, g)
  <2>1. \A i \in 1 .. Len(q) : q[i].gen # r.gen
    BY <1>2 DEF Idle, NoVerdict, Asks
  <2> QED
    BY <1>2, <2>1 DEF OneAtATime, Idle
<1>3. ASSUME NEW U \in SUBSET T
      PROVE  /\ OneAtATime(q, p, U, s, D)
             /\ \A g : Idle(q, p, T, s, D, g) => Idle(q, p, U, s, D, g)
  BY DEF OneAtATime, Idle
<1>4. ASSUME NEW g \in T PROVE Idle(q, p, T \ {g}, s, D, g) /\ NoVerdict(q, g)
  BY DEF OneAtATime, Idle, NoVerdict
<1>5. ASSUME NEW h, Idle(q, p, T, s, D, h), NoVerdict(q, h)
      PROVE  /\ OneAtATime(q, p, T \cup {h}, s, D)
             /\ \A g : Idle(q, p, T, s, D, g) /\ g # h => Idle(q, p, T \cup {h}, s, D, g)
  <2>1. \A i \in 1 .. Len(q) : q[i].gen # h
    BY <1>5 DEF Idle, NoVerdict, Asks
  <2> QED
    BY <1>5, <2>1 DEF OneAtATime, Idle
<1>6. ASSUME NEW d \in D
      PROVE  /\ OneAtATime(q, p, T, s, D \ {d})
             /\ Idle(q, p, T, s, D \ {d}, d.packet.gen) /\ NoVerdict(q, d.packet.gen)
  BY DEF OneAtATime, Idle, NoVerdict
<1>7. ASSUME NEW g, NEW d, Idle(q, p, T, s, D, g) PROVE Idle(q, p, T, s, D \ {d}, g)
  BY <1>7 DEF Idle
<1>8. ASSUME NEW d, Idle(q, p, T, s, D, d.packet.gen), NoVerdict(q, d.packet.gen)
      PROVE  /\ OneAtATime(q, p, T, s, D \cup {d})
             /\ \A g : Idle(q, p, T, s, D, g) /\ g # d.packet.gen => Idle(q, p, T, s, D \cup {d}, g)
  <2>1. \A i \in 1 .. Len(q) : q[i].gen # d.packet.gen
    BY <1>8 DEF Idle, NoVerdict, Asks
  <2> QED
    BY <1>8, <2>1 DEF OneAtATime, Idle
<1> QED
  BY <1>1, <1>2, <1>3, <1>4, <1>5, <1>6, <1>7, <1>8

(***************************************************************************)
(* The boundary the Worker settles at                                       *)
(***************************************************************************)
Accepted(q, kind, g) == \E i \in 1 .. Len(q) : Yes(q[i], kind, g)

SettledAt(s, next, current, q) ==
    CASE next # 0 /\ Accepted(q, "commit-ack", next) ->
            [session |-> s.id, cursor |-> s.cursor + 1]
      [] current.kind = "create" /\ Accepted(q, "current-ack", current.gen) ->
            [session |-> current.session, cursor |-> 0]
      [] current.kind = "seek" /\ Accepted(q, "current-ack", current.gen) ->
            [session |-> s.id, cursor |-> s.seek.target]
      [] OTHER -> View(s)

Verdicts == {"commit-ack", "current-ack"}

LEMMA AckRecord ==
    ASSUME NEW kind, NEW g, NEW v \in BOOLEAN
    PROVE  Ack(kind, g, v) = [kind |-> kind, gen |-> g, target |-> 0, accepted |-> v]
<1>1. Plain(kind, g) = [kind |-> kind, gen |-> g, target |-> 0, accepted |-> FALSE]
  BY DEF Plain
<1> QED
  BY <1>1 DEF Ack

LEMMA SettledIs == Settled = SettledAt(session, stagedNext, stagedCurrent, requests)
  BY DEF Settled, SettledAt, Accepting, Accepted, Yes

\* It does not move while the same acceptances of the active generation are under way.
LEMMA SettledStill ==
    ASSUME WorkerInv, UNCHANGED <<session, stagedNext, stagedCurrent, activeGeneration>>,
           \A kind \in Verdicts :
              Accepted(requests, kind, activeGeneration) <=> Accepted(requests', kind, activeGeneration)
    PROVE  Settled' = Settled
<1>1. /\ stagedNext \in {0, activeGeneration}
      /\ stagedCurrent = NoCandidate \/ stagedCurrent.gen = activeGeneration
  BY DEF WorkerInv, OneCandidate
<1>2. stagedNext # 0 =>
        (Accepted(requests, "commit-ack", stagedNext) <=> Accepted(requests', "commit-ack", stagedNext))
  BY <1>1 DEF Verdicts
<1>3. stagedCurrent.kind # "none" =>
        (Accepted(requests, "current-ack", stagedCurrent.gen)
            <=> Accepted(requests', "current-ack", stagedCurrent.gen))
  BY <1>1 DEF Verdicts, NoCandidate
<1>4. Settled = SettledAt(session, stagedNext, stagedCurrent, requests)
  BY SettledIs
<1>5. Settled' = SettledAt(session, stagedNext, stagedCurrent, requests')
  BY DEF Settled, SettledAt, Accepting, Accepted, Yes
<1> QED
  BY <1>2, <1>3, <1>4, <1>5 DEF SettledAt

LEMMA SettledPlain ==
    ASSUME NEW s, NEW next, NEW current, NEW q, NEW a,
           next \in {0, a}, current = NoCandidate \/ current.gen = a,
           \A kind \in Verdicts : ~Accepted(q, kind, a)
    PROVE  SettledAt(s, next, current, q) = View(s)
  BY DEF SettledAt, Verdicts, NoCandidate

LEMMA AcceptedLater ==
    ASSUME NEW q \in Seq(Requests), NEW r \in Requests, NEW kind, NEW g
    PROVE  Accepted(Append(q, r), kind, g) <=> Accepted(q, kind, g) \/ Yes(r, kind, g)
<1>1. /\ Len(q) \in Nat /\ Len(Append(q, r)) = Len(q) + 1 /\ Append(q, r)[Len(q) + 1] = r
      /\ \A i \in 1 .. Len(q) : Append(q, r)[i] = q[i]
  BY Appended
<1>2. ASSUME Accepted(q, kind, g) PROVE Accepted(Append(q, r), kind, g)
  BY <1>1, <1>2 DEF Accepted
<1>3. ASSUME Yes(r, kind, g) PROVE Accepted(Append(q, r), kind, g)
  BY <1>1, <1>3 DEF Accepted
<1>4. ASSUME Accepted(Append(q, r), kind, g) PROVE Accepted(q, kind, g) \/ Yes(r, kind, g)
  <2>1. PICK i \in 1 .. Len(Append(q, r)) : Yes(Append(q, r)[i], kind, g)
    BY <1>4 DEF Accepted
  <2>2. i = Len(q) + 1 \/ i \in 1 .. Len(q)
    BY <1>1
  <2> QED
    BY <1>1, <2>1, <2>2 DEF Accepted
<1> QED
  BY <1>2, <1>3, <1>4

LEMMA AcceptedBehind ==
    ASSUME NEW q \in Seq(Requests), q # <<>>, NEW kind, NEW g
    PROVE  /\ Accepted(Tail(q), kind, g) => Accepted(q, kind, g)
           /\ Accepted(q, kind, g) => Accepted(Tail(q), kind, g) \/ Yes(Head(q), kind, g)
<1> DEFINE t == Tail(q)
<1>1. /\ Len(q) \in Nat /\ 1 <= Len(q) /\ Head(q) = q[1] /\ Len(t) = Len(q) - 1
      /\ \A i \in 1 .. Len(t) : t[i] = q[i + 1]
  BY Popped
<1> HIDE DEF t
<1>2. ASSUME Accepted(t, kind, g) PROVE Accepted(q, kind, g)
  <2>1. PICK i \in 1 .. Len(t) : Yes(t[i], kind, g)
    BY <1>2 DEF Accepted
  <2>2. i + 1 \in 1 .. Len(q) /\ Yes(q[i + 1], kind, g)
    BY <1>1, <2>1
  <2> QED
    BY <2>2 DEF Accepted
<1>3. ASSUME Accepted(q, kind, g) PROVE Accepted(t, kind, g) \/ Yes(Head(q), kind, g)
  <2>1. PICK i \in 1 .. Len(q) : Yes(q[i], kind, g)
    BY <1>3 DEF Accepted
  <2>2. CASE i = 1
    BY <1>1, <2>1, <2>2
  <2>3. CASE i # 1
    <3>1. i - 1 \in 1 .. Len(t) /\ t[i - 1] = q[(i - 1) + 1]
      BY <1>1, <2>3
    <3>2. Yes(t[i - 1], kind, g)
      BY <2>1, <3>1
    <3> QED
      BY <3>1, <3>2 DEF Accepted
  <2> QED
    BY <2>2, <2>3
<1> QED
  BY <1>2, <1>3 DEF t

LEMMA NotAccepted ==
    ASSUME NEW q, NEW g, NoVerdict(q, g)
    PROVE  \A kind \in Verdicts : ~Accepted(q, kind, g)
<1> SUFFICES ASSUME NEW kind \in Verdicts, NEW i \in 1 .. Len(q), Yes(q[i], kind, g)
             PROVE  FALSE
  BY DEF Accepted
<1>1. IsAck(q[i]) /\ q[i].gen = g
  BY DEF IsAck, Verdicts, Yes
<1> QED
  BY <1>1 DEF NoVerdict

\* A request is admitted only when no acceptance of its generation's predecessor is
\* behind it.
LEMMA NothingAccepted ==
    ASSUME WorkerInv, OneOutstanding, requests # <<>>, Asks(Head(requests)),
           ~Stale(Head(requests))
    PROVE  \A kind \in Verdicts : ~Accepted(requests, kind, activeGeneration)
<1> SUFFICES ASSUME NEW kind \in Verdicts, NEW j \in 1 .. Len(requests),
                    Yes(requests[j], kind, activeGeneration)
             PROVE  FALSE
  BY DEF Accepted
<1>1. /\ requests \in Seq(Requests) /\ activeGeneration \in Generations
      /\ Len(requests) \in Nat /\ Head(requests) = requests[1] /\ 1 \in 1 .. Len(requests)
      /\ Head(requests) \in Requests
  BY Popped DEF WorkerInv, TypeOK
<1>2. IsAck(requests[j]) /\ requests[j].gen = activeGeneration /\ requests[j].accepted
  BY DEF IsAck, Verdicts, Yes
<1>3. 1 < j
  BY <1>1, <1>2 DEF Asks
<1>4. requests[1].gen < activeGeneration
  BY <1>1, <1>2, <1>3 DEF OneOutstanding, OneAtATime
<1> QED
  BY <1>1, <1>4 DEF Stale

(***************************************************************************)
(* What the Worker does with a request                                      *)
(***************************************************************************)
Fits(r, h) ==
    /\ r \in Responses /\ r.gen = h.gen
    /\ r.kind \in Packets => r.view.session # 0
    /\ r.kind = "commit" => h.kind = "next"
    /\ r.kind = "engine-error" => session.id = 0 /\ h.kind \in Navigation

Taking ==
    /\ requests # <<>> /\ Asks(Head(requests)) /\ ~Stale(Head(requests))
    /\ requests' = Tail(requests)
    /\ activeGeneration' = Head(requests).gen
    /\ deferred' \in {deferred, NoRequest}
    /\ UNCHANGED clientVars

\* The request is answered at once, or its seek is left to the timer; the session
\* stays where it is.
AskServed ==
    /\ Taking
    /\ session'.id = session.id /\ session'.cursor = session.cursor
    /\ \/ /\ \E r \in Responses :
                /\ responses' = Append(responses, r) /\ Fits(r, Head(requests))
                /\ Matches(r)'
          /\ seekTimers' \in SUBSET seekTimers
       \/ /\ UNCHANGED responses
          /\ seekTimers' = seekTimers \cup {Head(requests).gen}

LEMMA Takes ==
    ASSUME WorkerInv, NEW kind \in (Navigation \cup Edits \cup {"create"}), Admit(kind)
    PROVE  /\ Taking /\ Head(requests).kind = kind /\ Head(requests) \in Requests
           /\ Head(requests).gen \in Generations /\ Head(requests).gen # 0
           /\ activeGeneration' = Head(requests).gen
<1>1. /\ requests # <<>> /\ Head(requests).kind = kind /\ ~Stale(Head(requests))
      /\ requests' = Tail(requests) /\ activeGeneration' = Head(requests).gen
      /\ deferred' \in {deferred, NoRequest} /\ UNCHANGED clientVars
  BY DEF Admit, Arrived
<1>2. /\ Head(requests) \in Requests /\ Head(requests).gen \in Generations
      /\ Head(requests).gen \in 1 .. generation
  BY Admitted
<1>3. Asks(Head(requests))
  BY <1>1 DEF Asks, IsAck, Navigation, Edits
<1> QED
  BY <1>1, <1>2, <1>3 DEF Taking

\* An answer without a frame.
LEMMA Plainly ==
    ASSUME NEW kind \in {"ended", "prepared", "exported", "input-error", "engine-error"},
           NEW h, h.gen \in Generations,
           kind = "engine-error" => session.id = 0 /\ h.kind \in Navigation,
           responses' = Append(responses, Answer(kind, h.gen))
    PROVE  \E r \in Responses :
             responses' = Append(responses, r) /\ Fits(r, h) /\ Matches(r)'
<1>1. PICK r \in Responses : r = Answer(kind, h.gen)
  BY Values
<1>2. r.kind = kind /\ r.gen = h.gen /\ kind \notin Packets
  BY <1>1 DEF Answer, Packets
<1>3. Matches(r)'
  BY <1>2 DEF Matches, Packets
<1>4. Fits(r, h)
  BY <1>2 DEF Fits, Packets
<1> QED
  BY <1>1, <1>3, <1>4

LEMMA CreateServed == WorkerInv /\ ServeCreate => AskServed
<1> SUFFICES ASSUME WorkerInv, ServeCreate PROVE AskServed
  OBVIOUS
<1> DEFINE h == Head(requests)
<1>1. /\ Admit("create") /\ session' = Withdrawn("create") /\ UNCHANGED seekTimers
      /\ \/ /\ stagedCurrent' = [kind |-> "create", gen |-> h.gen, session |-> h.gen]
            /\ responses' = Append(responses, Packet("ready", h.gen, [session |-> h.gen, cursor |-> 0], 0))
         \/ responses' = Append(responses, Answer("input-error", h.gen))
  BY DEF ServeCreate, Respond
<1>2. Taking /\ h.gen \in Generations /\ h.gen # 0 /\ activeGeneration' = h.gen
  BY <1>1, Takes
<1> HIDE DEF h
<1>3. session'.id = session.id /\ session'.cursor = session.cursor
  BY <1>1, WithdrawnTyped DEF WorkerInv
<1>4. CASE stagedCurrent' = [kind |-> "create", gen |-> h.gen, session |-> h.gen]
           /\ responses' = Append(responses, Packet("ready", h.gen, [session |-> h.gen, cursor |-> 0], 0))
  <2>1. [session |-> h.gen, cursor |-> 0] \in Views /\ 0 \in 0 .. ItemCount
    BY <1>2, ProtocolAssumption DEF Views
  <2>2. PICK p \in Responses :
          p = Packet("ready", h.gen, [session |-> h.gen, cursor |-> 0], 0)
    BY <1>2, <2>1, Values DEF Packets
  <2>. p.kind = "ready" /\ p.gen = h.gen /\ p.view = [session |-> h.gen, cursor |-> 0]
    BY <2>2 DEF Packet
  <2>3. Fits(p, h)
    BY <1>2, <2>2 DEF Fits
  <2>4. Matches(p)'
    BY <1>2, <1>4, <2>2 DEF Matches
  <2> QED
    BY <1>1, <1>2, <1>3, <1>4, <2>2, <2>3, <2>4 DEF AskServed, h
<1>5. CASE responses' = Append(responses, Answer("input-error", h.gen))
  BY <1>1, <1>2, <1>3, <1>5, Plainly DEF AskServed, h
<1> QED
  BY <1>1, <1>4, <1>5 DEF h

LEMMA EditServed == WorkerInv /\ ServeEdit => AskServed
<1> SUFFICES ASSUME WorkerInv, NEW kind \in Edits, Admit(kind), session' = Withdrawn(kind),
                    \/ Respond(Answer(IF kind = "prepare" THEN "prepared" ELSE "exported", Head(requests).gen))
                    \/ Respond(Answer("input-error", Head(requests).gen)),
                    UNCHANGED seekTimers
             PROVE AskServed
  BY DEF ServeEdit
<1>1. Taking /\ Head(requests).gen \in Generations
  BY Takes
<1>2. session'.id = session.id /\ session'.cursor = session.cursor
  BY WithdrawnTyped DEF WorkerInv
<1>3. PICK k \in {"prepared", "exported", "input-error"} :
        responses' = Append(responses, Answer(k, Head(requests).gen))
  BY DEF Respond
<1> QED
  BY <1>1, <1>2, <1>3, Plainly DEF AskServed

LEMMA NextServed == WorkerInv /\ ServeNext => AskServed
<1> SUFFICES ASSUME WorkerInv, ServeNext PROVE AskServed
  OBVIOUS
<1> DEFINE h == Head(requests)
           s == Withdrawn("next")
           refused == s.id = 0 \/ s.next \/ s.seek # NoSeek
<1>1. Admit("next") /\ UNCHANGED seekTimers
  BY DEF ServeNext
<1>2. Taking /\ h.kind = "next" /\ h.gen \in Generations /\ h.gen # 0 /\ activeGeneration' = h.gen
  BY <1>1, Takes DEF Navigation
<1>3. /\ s \in Sessions /\ s.id = session.id /\ s.cursor = session.cursor
      /\ s.next = FALSE /\ s.seek = NoSeek
  <2>1. /\ s \in Sessions /\ s.id = session.id /\ s.cursor = session.cursor
        /\ s.next \in {session.next, FALSE}
    BY WithdrawnTyped DEF WorkerInv
  <2> QED
    BY <2>1 DEF Withdrawn, WorkerInv, OneCandidate, TypeOK, Sessions
<1>4. \/ /\ session' = s
         /\ \E k \in {"engine-error", "ended", "input-error"} :
              /\ Respond(Answer(k, h.gen))
              /\ k = "engine-error" => s.id = 0
      \/ /\ s.id # 0 /\ s.cursor # ItemCount
         /\ session' = [s EXCEPT !.next = TRUE] /\ stagedNext' = h.gen
         /\ Respond(Packet("commit", h.gen, [session |-> s.id, cursor |-> s.cursor + 1], s.cursor))
  <2>1. CASE refused \/ s.cursor = ItemCount
    <3>1. session' = s /\ Respond(Answer(IF refused THEN "engine-error" ELSE "ended", h.gen))
      BY <2>1 DEF ServeNext
    <3>2. refused => s.id = 0
      BY <1>3
    <3> QED
      BY <3>1, <3>2
  <2>2. CASE ~(refused \/ s.cursor = ItemCount)
    <3>1. \/ /\ session' = [s EXCEPT !.next = TRUE] /\ stagedNext' = h.gen
             /\ Respond(Packet("commit", h.gen, [session |-> s.id, cursor |-> s.cursor + 1], s.cursor))
          \/ session' = s /\ Respond(Answer("input-error", h.gen))
      BY <2>2 DEF ServeNext
    <3> QED
      BY <2>2, <3>1
  <2> QED
    BY <2>1, <2>2
<1> HIDE DEF s, h
<1>5. session'.id = session.id /\ session'.cursor = session.cursor
  BY <1>3, <1>4 DEF Sessions
<1>6. CASE \E k \in {"engine-error", "ended", "input-error"} :
              /\ Respond(Answer(k, h.gen))
              /\ k = "engine-error" => s.id = 0
  <2>1. PICK k \in {"engine-error", "ended", "input-error"} :
          responses' = Append(responses, Answer(k, h.gen)) /\ (k = "engine-error" => s.id = 0)
    BY <1>6 DEF Respond
  <2>2. \E r \in Responses : responses' = Append(responses, r) /\ Fits(r, h) /\ Matches(r)'
    BY <1>2, <1>3, <2>1, Plainly DEF Navigation
  <2> QED
    BY <1>1, <1>2, <1>5, <2>1, <2>2 DEF AskServed, h
<1>7. CASE /\ s.id # 0 /\ s.cursor # ItemCount
           /\ session' = [s EXCEPT !.next = TRUE] /\ stagedNext' = h.gen
           /\ Respond(Packet("commit", h.gen, [session |-> s.id, cursor |-> s.cursor + 1], s.cursor))
  <2>1. s.id \in Generations /\ s.cursor \in 0 .. ItemCount
    BY <1>3 DEF Sessions
  <2>2. [session |-> s.id, cursor |-> s.cursor + 1] \in Views
    BY <1>7, <2>1, ProtocolAssumption DEF Views
  <2>3. PICK p \in Responses :
          p = Packet("commit", h.gen, [session |-> s.id, cursor |-> s.cursor + 1], s.cursor)
    BY <1>2, <2>1, <2>2, Values DEF Packets
  <2>. /\ p.kind = "commit" /\ p.gen = h.gen /\ p.base = s.cursor
       /\ p.view = [session |-> s.id, cursor |-> s.cursor + 1]
    BY <2>3 DEF Packet
  <2>4. Fits(p, h)
    BY <1>2, <1>7, <2>3 DEF Fits
  <2>5. Matches(p)'
    BY <1>2, <1>3, <1>5, <1>7, <2>3 DEF Matches
  <2> QED
    BY <1>1, <1>2, <1>5, <1>7, <2>3, <2>4, <2>5 DEF AskServed, h, Respond
<1> QED
  BY <1>4, <1>6, <1>7

LEMMA SeekServed == WorkerInv /\ ServeSeek => AskServed
<1> SUFFICES ASSUME WorkerInv, ServeSeek PROVE AskServed
  OBVIOUS
<1> DEFINE h == Head(requests)
           s == Withdrawn("seek")
<1>1. Admit("seek")
  BY DEF ServeSeek
<1>2. /\ Taking /\ h.kind = "seek" /\ h.gen \in Generations /\ h.gen # 0 /\ activeGeneration' = h.gen
      /\ h \in Requests
  BY <1>1, Takes DEF Navigation
<1>3. /\ s \in Sessions /\ s.id = session.id /\ s.cursor = session.cursor
  BY WithdrawnTyped DEF WorkerInv
<1>4. s.next = FALSE
  <2>1. s.next \in {session.next, FALSE}
    BY WithdrawnTyped DEF WorkerInv
  <2> QED
    BY <2>1 DEF Withdrawn, WorkerInv, OneCandidate, TypeOK, Sessions
<1>5. CASE s.id = 0
  <2>1. Respond(Answer("engine-error", h.gen)) /\ session' = s /\ UNCHANGED seekTimers
    BY <1>5 DEF ServeSeek
  <2>2. \E r \in Responses : responses' = Append(responses, r) /\ Fits(r, h) /\ Matches(r)'
    BY <1>2, <1>3, <1>5, <2>1, Plainly DEF Navigation, Respond
  <2> QED
    BY <1>2, <1>3, <2>1, <2>2 DEF AskServed, Respond
<1>6. CASE s.id # 0
  <2>1. PICK turns \in 1 .. MaxTurns :
          SeekTurn([s EXCEPT !.seek = [target |-> h.target, left |-> turns]], h.gen, NoCandidate)
    BY <1>6 DEF ServeSeek
  <2> DEFINE u == [s EXCEPT !.seek = [target |-> h.target, left |-> turns]]
  <2>2. /\ u \in Sessions /\ u.id = s.id /\ u.cursor = s.cursor /\ u.next = FALSE
        /\ u.seek.target \in 0 .. ItemCount /\ u.id # 0
    BY <1>2, <1>3, <1>4, <1>6, ProtocolAssumption DEF Sessions, Seeks, Requests
  <2>3. SeekTurn(u, h.gen, NoCandidate)
    BY <2>1
  <2> HIDE DEF u, s, h
  <2>9. u.id \in Generations /\ u.seek.target \in 0 .. ItemCount
    BY <2>2 DEF Sessions
  <2>4. /\ session'.id = u.id /\ session'.cursor = u.cursor
        /\ \/ /\ UNCHANGED responses
              /\ seekTimers' = seekTimers \cup {h.gen}
           \/ /\ seekTimers' = seekTimers \ {h.gen}
              /\ \/ Respond(Answer("input-error", h.gen))
                 \/ /\ stagedCurrent' = [kind |-> "seek", gen |-> h.gen, session |-> u.id]
                    /\ session'.seek.target = u.seek.target
                    /\ Respond(Packet("seeked", h.gen, [session |-> u.id, cursor |-> u.seek.target], 0))
    BY <1>2, <2>2, <2>3, TurnKeeps
  <2>5. session'.id = session.id /\ session'.cursor = session.cursor
    BY <1>3, <2>2, <2>4
  <2>6. CASE UNCHANGED responses /\ seekTimers' = seekTimers \cup {h.gen}
    BY <1>2, <2>5, <2>6 DEF AskServed, h
  <2>7. CASE seekTimers' = seekTimers \ {h.gen} /\ Respond(Answer("input-error", h.gen))
    BY <1>2, <2>5, <2>7, Plainly DEF AskServed, Respond, h
  <2>8. CASE /\ seekTimers' = seekTimers \ {h.gen}
             /\ stagedCurrent' = [kind |-> "seek", gen |-> h.gen, session |-> u.id]
             /\ session'.seek.target = u.seek.target
             /\ Respond(Packet("seeked", h.gen, [session |-> u.id, cursor |-> u.seek.target], 0))
    <3>1. [session |-> u.id, cursor |-> u.seek.target] \in Views /\ 0 \in 0 .. ItemCount
      BY <2>9, ProtocolAssumption DEF Views
    <3>2. PICK p \in Responses :
            p = Packet("seeked", h.gen, [session |-> u.id, cursor |-> u.seek.target], 0)
      BY <1>2, <3>1, Values DEF Packets
    <3>. /\ p.kind = "seeked" /\ p.gen = h.gen
         /\ p.view = [session |-> u.id, cursor |-> u.seek.target]
      BY <3>2 DEF Packet
    <3>3. responses' = Append(responses, p)
      BY <2>8, <3>2 DEF Respond
    <3>4. Fits(p, h)
      BY <1>2, <2>2, <3>2 DEF Fits
    <3>5. Matches(p)'
      BY <2>4, <2>8, <3>2 DEF Matches
    <3> QED
      BY <1>2, <2>5, <2>8, <3>2, <3>3, <3>4, <3>5 DEF AskServed, h
  <2> QED
    BY <2>4, <2>6, <2>7, <2>8
<1> QED
  BY <1>5, <1>6

(***************************************************************************)
(* Both sides, one step of the Worker at a time                             *)
(***************************************************************************)
\* The head of the port is served, before anything else happens to it.
LEMMA HeadServed ==
    ASSUME WorkerInv, Both, requests # <<>>, requests' = Tail(requests)
    PROVE  /\ requests \in Seq(Requests) /\ Head(requests) \in Requests
           /\ Head(requests) = requests[1] /\ 1 \in 1 .. Len(requests)
           /\ activeGeneration \in Generations /\ generation \in Generations
           /\ Len(requests') \in Nat
           /\ \A i \in 1 .. Len(requests') : i + 1 \in 1 .. Len(requests) /\ requests'[i] = requests[i + 1]
           /\ Asks(Head(requests)) => NoVerdict(requests', Head(requests).gen)
           /\ IsAck(Head(requests)) => NoVerdict(requests', Head(requests).gen)
<1>1. requests \in Seq(Requests) /\ activeGeneration \in Generations /\ generation \in Generations
  BY DEF WorkerInv, TypeOK
<1>2. /\ Len(requests) \in Nat /\ 1 <= Len(requests)
      /\ Head(requests) = requests[1] /\ Head(requests) \in Requests
      /\ Len(requests') = Len(requests) - 1
      /\ \A i \in 1 .. Len(requests') : requests'[i] = requests[i + 1]
  BY <1>1, Popped
<1>3. /\ Asks(Head(requests)) => NoVerdict(requests', Head(requests).gen)
      /\ IsAck(Head(requests)) => NoVerdict(requests', Head(requests).gen)
  BY <1>1, PopRequest DEF Both, OneOutstanding
<1> QED
  BY <1>1, <1>2, <1>3

\* Every message that is left was there before.
LEMMA FewerFrames ==
    ASSUME FramesExist, NothingFails, UNCHANGED <<generation, frame, fatal, decoding>>,
           \/ UNCHANGED requests
           \/ \A i \in 1 .. Len(requests') : i + 1 \in 1 .. Len(requests) /\ requests'[i] = requests[i + 1],
           \/ UNCHANGED responses
           \/ \E r : /\ \A k \in 1 .. Len(responses') :
                            \/ responses'[k] = r
                            \/ k \in 1 .. Len(responses) /\ responses'[k] = responses[k]
                     /\ r.kind \in Packets => r.view.session # 0
                     /\ r.kind = "commit" /\ r.gen = generation => frame # NoView
                     /\ r.kind # "engine-error"
    PROVE  FramesExist' /\ NothingFails'
<1>1. \A i \in 1 .. Len(requests') :
        requests'[i].kind = "next" /\ requests'[i].gen = generation => frame # NoView
  BY DEF FramesExist
<1>2. \A k \in 1 .. Len(responses') :
        /\ responses'[k].kind \in Packets => responses'[k].view.session # 0
        /\ responses'[k].kind = "commit" /\ responses'[k].gen = generation => frame # NoView
        /\ responses'[k].kind # "engine-error"
  BY DEF FramesExist, NothingFails
<1> QED
  BY <1>1, <1>2 DEF FramesExist, NothingFails, NoFault

LEMMA AskKeeps ==
    ASSUME WorkerInv, WorkerInv', Both, AskServed
    PROVE  Both'
<1> DEFINE h == Head(requests)
           G == activeGeneration
<1>1. /\ requests # <<>> /\ Asks(h) /\ ~Stale(h) /\ requests' = Tail(requests)
      /\ G' = h.gen /\ deferred' \in {deferred, NoRequest}
      /\ UNCHANGED <<generation, requestPending, frame, decoding, fatal>>
      /\ session'.id = session.id /\ session'.cursor = session.cursor
  BY DEF AskServed, Taking, clientVars
<1>2. /\ requests \in Seq(Requests) /\ h \in Requests /\ h = requests[1] /\ 1 \in 1 .. Len(requests)
      /\ \A i \in 1 .. Len(requests') : i + 1 \in 1 .. Len(requests) /\ requests'[i] = requests[i + 1]
      /\ NoVerdict(requests', h.gen) /\ responses \in Seq(Responses)
  BY <1>1, HeadServed DEF WorkerInv, TypeOK
<1>3. OneOutstanding /\ PendingKnown /\ PacketsMatch /\ FramesExist /\ SessionFirst /\ NothingFails /\ Agreement
  BY DEF Both
<1>4. \A kind \in Verdicts : ~Accepted(requests, kind, G)
  BY <1>1, <1>3, NothingAccepted
<1>5. /\ OneAtATime(requests', deferred, seekTimers, responses, decoding)
      /\ Idle(requests', deferred, seekTimers, responses, decoding, h.gen)
      /\ \A g : Idle(requests, deferred, seekTimers, responses, decoding, g)
                    => Idle(requests', deferred, seekTimers, responses, decoding, g)
  BY <1>1, <1>2, <1>3, PopRequest DEF OneOutstanding
<1>6. /\ OneAtATime(requests', deferred', seekTimers, responses, decoding)
      /\ Idle(requests', deferred', seekTimers, responses, decoding, h.gen)
      /\ \A g : Idle(requests, deferred, seekTimers, responses, decoding, g)
                    => Idle(requests', deferred', seekTimers, responses, decoding, g)
  <2>1. CASE deferred' = deferred
    BY <1>5, <2>1
  <2>2. CASE deferred' = NoRequest
    BY <1>5, <2>2, OtherPlaces
  <2> QED
    BY <1>1, <2>1, <2>2
<1>7. ~requestPending => Idle(requests, deferred, seekTimers, responses, decoding, generation) /\ h.gen # generation
  BY <1>1, <1>2, <1>3 DEF PendingKnown, Idle
<1> HIDE DEF h, G
<1>8. session.id # 0 \/ h.kind \notin Navigation
  <2>1. \A j \in 1 .. (1 - 1) : FALSE
    OBVIOUS
  <2> QED
    BY <1>2, <1>3, <2>1 DEF SessionFirst
<1>9. SessionFirst'
  <2> SUFFICES ASSUME NEW i \in 1 .. Len(requests'), requests'[i].kind \in Navigation
               PROVE  session'.id # 0
    BY DEF SessionFirst
  <2>1. i + 1 \in 1 .. Len(requests) /\ requests[i + 1].kind \in Navigation
    BY <1>2
  <2>2. ~\E j \in 1 .. i : Yes(requests[j], "current-ack", G)
    <3>1. \A j \in 1 .. Len(requests) : ~Yes(requests[j], "current-ack", G)
      BY <1>4 DEF Verdicts, Accepted
    <3>2. Len(requests) \in Nat
      BY <1>2
    <3> QED
      BY <2>1, <3>1, <3>2
  <2>3. (i + 1) - 1 = i
    OBVIOUS
  <2> QED
    BY <1>1, <1>3, <2>1, <2>2, <2>3 DEF SessionFirst, G
<1>10. Agreement'
  <2>1. Settled = View(session)
    BY <1>3, <1>4, SettledIs, SettledPlain DEF WorkerInv, OneCandidate, G
  <2>2. SettledAt(session', stagedNext', stagedCurrent', requests') = View(session')
    <3>1. \A kind \in Verdicts : ~Accepted(requests', kind, G')
      BY <1>1, <1>2, NotAccepted
    <3>2. stagedNext' \in {0, G'} /\ (stagedCurrent' = NoCandidate \/ stagedCurrent'.gen = G')
      BY DEF WorkerInv, OneCandidate, G
    <3> QED
      BY <3>1, <3>2, SettledPlain
  <2>3. Settled' = SettledAt(session', stagedNext', stagedCurrent', requests')
    BY DEF Settled, SettledAt, Accepting, Accepted, Yes
  <2> QED
    BY <1>1, <1>3, <2>1, <2>2, <2>3 DEF Agreement, View
<1>11. \A k \in 1 .. Len(responses) : responses[k].gen # h.gen
  BY <1>5 DEF Idle
<1>12. \A d \in decoding : d.packet.gen # h.gen
  BY <1>5 DEF Idle
<1>13. \A i \in 1 .. Len(requests') : IsAck(requests'[i]) => requests'[i].gen # h.gen
  BY <1>2 DEF NoVerdict
<1>14. CASE UNCHANGED responses /\ seekTimers' = seekTimers \cup {h.gen}
  <2>1. OneOutstanding' /\ PendingKnown'
    BY <1>1, <1>2, <1>6, <1>7, <1>14, OtherPlaces DEF OneOutstanding, PendingKnown
  <2>2. PacketsMatch'
    BY <1>1, <1>11, <1>12, <1>13, <1>14 DEF PacketsMatch, G, IsAck
  <2>3. FramesExist' /\ NothingFails'
    BY <1>1, <1>2, <1>3, <1>14, FewerFrames
  <2> QED
    BY <1>9, <1>10, <2>1, <2>2, <2>3 DEF Both
<1>15. CASE /\ \E r \in Responses :
                /\ responses' = Append(responses, r) /\ Fits(r, h)
                /\ Matches(r)'
            /\ seekTimers' \in SUBSET seekTimers
  <2>1. PICK r \in Responses : responses' = Append(responses, r) /\ Fits(r, h) /\ Matches(r)'
    BY <1>15
  <2>2. /\ r.gen = h.gen
        /\ r.kind \in Packets => r.view.session # 0
        /\ r.kind = "commit" => h.kind = "next" 
        /\ r.kind # "engine-error"
    BY <1>8, <2>1 DEF Fits
  <2>3. \A k \in 1 .. Len(responses') :
            responses'[k] = r \/ (k \in 1 .. Len(responses) /\ responses'[k] = responses[k])
    BY <1>2, <2>1, Appended
  <2>4. OneOutstanding' /\ PendingKnown'
    <3>1. /\ OneAtATime(requests', deferred', seekTimers', responses, decoding)
          /\ Idle(requests', deferred', seekTimers', responses, decoding, h.gen)
          /\ \A g : Idle(requests, deferred, seekTimers, responses, decoding, g)
                       => Idle(requests', deferred', seekTimers', responses, decoding, g)
      BY <1>6, <1>15, OtherPlaces
    <3>2. /\ OneAtATime(requests', deferred', seekTimers', responses', decoding)
          /\ \A g : Idle(requests', deferred', seekTimers', responses, decoding, g) /\ g # r.gen
                       => Idle(requests', deferred', seekTimers', responses', decoding, g)
      BY <1>2, <2>1, <2>2, <3>1, PostAnswer
    <3>3. ~requestPending' => Idle(requests', deferred', seekTimers', responses', decoding, generation)
      BY <1>1, <1>6, <1>7, <2>2, <3>1, <3>2
    <3> QED
      BY <1>1, <3>2, <3>3 DEF OneOutstanding, PendingKnown
  <2>5. PacketsMatch'
    <3>1. \A k \in 1 .. Len(responses') : responses'[k].gen = G' => Matches(responses[k])'
      <4> SUFFICES ASSUME NEW k \in 1 .. Len(responses'), responses'[k].gen = G'
                   PROVE  Matches(responses[k])'
        OBVIOUS
      <4>1. responses'[k] = r
        BY <1>1, <1>11, <2>3 DEF G
      <4> QED
        BY <2>1, <4>1 DEF Matches
    <3> QED
      BY <1>1, <1>12, <1>13, <3>1 DEF PacketsMatch, G, IsAck
  <2>6. FramesExist' /\ NothingFails'
    <3>1. r.kind = "commit" /\ r.gen = generation => frame # NoView
      BY <1>2, <1>3, <2>2 DEF FramesExist, h
    <3> QED
      BY <1>1, <1>2, <1>3, <2>2, <2>3, <3>1, FewerFrames
  <2> QED
    BY <1>9, <1>10, <2>4, <2>5, <2>6 DEF Both
<1> QED
  BY <1>14, <1>15 DEF AskServed, h

(***************************************************************************)
(* A verdict reaches the Worker                                             *)
(***************************************************************************)

\* An acceptance moves the session to what the Worker was to settle at, a refusal
\* leaves it where it was; nothing is answered.
VerdictServed ==
    /\ requests # <<>> /\ IsAck(Head(requests)) /\ Head(requests).gen = activeGeneration
    /\ requests' = Tail(requests)
    /\ UNCHANGED <<clientVars, responses, activeGeneration, deferred, seekTimers>>
    /\ View(session') = IF Head(requests).accepted THEN Settled ELSE View(session)

LEMMA VerdictAdmitted ==
    ASSUME WorkerInv, Both, NEW kind \in Verdicts, Admit(kind)
    PROVE  /\ requests # <<>> /\ IsAck(Head(requests)) /\ Head(requests).gen = activeGeneration
           /\ Head(requests).kind = kind /\ Head(requests).accepted \in BOOLEAN
           /\ Head(requests) = requests[1] /\ 1 \in 1 .. Len(requests)
           /\ requests' = Tail(requests)
           /\ UNCHANGED <<clientVars, activeGeneration, deferred>>
           /\ activeGeneration \in Generations /\ activeGeneration # 0
           /\ session \in Sessions /\ stagedCurrent \in Candidates
<1>1. /\ requests # <<>> /\ Head(requests).kind = kind /\ requests' = Tail(requests)
      /\ deferred' = IF Keeps(Head(requests)) THEN deferred ELSE NoRequest
      /\ UNCHANGED clientVars
  BY DEF Admit, Arrived
<1>2. /\ Head(requests) \in Requests /\ Head(requests) = requests[1] /\ 1 \in 1 .. Len(requests)
  BY <1>1, HeadServed
<1>3. IsAck(Head(requests)) /\ kind \in {"current-ack", "commit-ack"}
  BY <1>1 DEF IsAck, Verdicts
<1>4. /\ activeGeneration' = Head(requests).gen /\ Head(requests).gen \in 1 .. generation
      /\ activeGeneration' = activeGeneration
  BY <1>3, Admitted
<1>5. activeGeneration \in Generations /\ session \in Sessions /\ stagedCurrent \in Candidates
  BY DEF WorkerInv, TypeOK
<1>6. Head(requests).accepted \in BOOLEAN
  BY <1>2 DEF Requests
<1>7. activeGeneration # 0
  BY <1>4
<1> QED
  BY <1>1, <1>2, <1>3, <1>4, <1>5, <1>6, <1>7 DEF Keeps

LEMMA CurrentAckServed == WorkerInv /\ Both /\ ServeCurrentAck => VerdictServed
<1> SUFFICES ASSUME WorkerInv, Both, ServeCurrentAck PROVE VerdictServed
  OBVIOUS
<1> DEFINE ack == Head(requests)
           s == Withdrawn("current-ack")
           mine == stagedCurrent.kind # "none" /\ stagedCurrent.gen = ack.gen
           create == stagedCurrent.kind = "create"
           owned == stagedCurrent.session = s.id
<1>1. /\ Admit("current-ack") /\ UNCHANGED seekTimers
      /\ session' = CASE ~mine -> s
                      [] mine /\ ack.accepted /\ create -> [NoSession EXCEPT !.id = stagedCurrent.session]
                      [] mine /\ ~create /\ owned ->
                            [s EXCEPT !.cursor = IF ack.accepted THEN s.seek.target ELSE @, !.seek = NoSeek]
                      [] OTHER -> s
      /\ ~(mine /\ ack.accepted /\ ~create /\ ~owned) => UNCHANGED responses
  BY DEF ServeCurrentAck
<1>2. /\ requests # <<>> /\ IsAck(ack) /\ ack.gen = activeGeneration
      /\ ack.kind = "current-ack" /\ ack.accepted \in BOOLEAN
      /\ ack = requests[1] /\ 1 \in 1 .. Len(requests)
      /\ requests' = Tail(requests)
      /\ UNCHANGED <<clientVars, activeGeneration, deferred>>
      /\ session \in Sessions /\ stagedCurrent \in Candidates
  BY <1>1, VerdictAdmitted DEF Verdicts
<1>3. stagedCurrent # NoCandidate
  BY <1>2 DEF Both, PacketsMatch
<1>4. /\ stagedCurrent.kind \in {"create", "seek"} /\ stagedCurrent.gen = activeGeneration
      /\ stagedNext = 0 /\ (stagedCurrent.kind = "seek" => stagedCurrent.session = session.id)
  BY <1>2, <1>3 DEF WorkerInv, SessionShape, OneCandidate, Candidates
<1>5. s = session
  BY <1>4 DEF Withdrawn
<1>6. mine /\ (create \/ owned)
  BY <1>2, <1>4, <1>5
<1>7. UNCHANGED responses
  BY <1>1, <1>6
<1>8. ack.accepted => Accepted(requests, "current-ack", stagedCurrent.gen)
  BY <1>2, <1>4 DEF Accepted, Yes
<1>9. Settled = SettledAt(session, stagedNext, stagedCurrent, requests)
  BY SettledIs
<1>10. CASE ack.accepted /\ create
  <2>1. session' = [NoSession EXCEPT !.id = stagedCurrent.session]
    BY <1>1, <1>6, <1>10
  <2>2. View(session') = [session |-> stagedCurrent.session, cursor |-> 0]
    BY <2>1 DEF View, NoSession
  <2>3. Settled = [session |-> stagedCurrent.session, cursor |-> 0]
    BY <1>4, <1>8, <1>9, <1>10 DEF SettledAt
  <2> QED
    BY <1>1, <1>2, <1>7, <1>10, <2>2, <2>3 DEF VerdictServed
<1>11. CASE ack.accepted /\ ~create
  <2>1. session' = [session EXCEPT !.cursor = session.seek.target, !.seek = NoSeek]
    BY <1>1, <1>5, <1>6, <1>11
  <2>2. View(session') = [session |-> session.id, cursor |-> session.seek.target]
    BY <1>2, <2>1 DEF View, Sessions
  <2>3. Settled = [session |-> session.id, cursor |-> session.seek.target]
    BY <1>4, <1>8, <1>9, <1>11 DEF SettledAt
  <2> QED
    BY <1>1, <1>2, <1>7, <1>11, <2>2, <2>3 DEF VerdictServed
<1>12. CASE ~ack.accepted
  <2>1. session' = session \/ session' = [session EXCEPT !.cursor = session.cursor, !.seek = NoSeek]
    BY <1>1, <1>5, <1>6, <1>12
  <2>2. View(session') = View(session)
    BY <1>2, <2>1 DEF View, Sessions
  <2> QED
    BY <1>1, <1>2, <1>7, <1>12, <2>2 DEF VerdictServed
<1> QED
  BY <1>2, <1>10, <1>11, <1>12

LEMMA CommitAckServed == WorkerInv /\ Both /\ ServeCommitAck => VerdictServed
<1> SUFFICES ASSUME WorkerInv, Both, ServeCommitAck PROVE VerdictServed
  OBVIOUS
<1> DEFINE ack == Head(requests)
           s == Withdrawn("commit-ack")
           mine == stagedNext # 0 /\ stagedNext = ack.gen
<1>1. /\ Admit("commit-ack") /\ UNCHANGED seekTimers
      /\ s.id # 0 =>
            /\ session' = IF ~mine THEN s
                          ELSE [s EXCEPT !.next = FALSE,
                                         !.cursor = IF ack.accepted /\ s.next THEN @ + 1 ELSE @]
            /\ UNCHANGED responses
  BY DEF ServeCommitAck
<1>2. /\ requests # <<>> /\ IsAck(ack) /\ ack.gen = activeGeneration
      /\ ack.kind = "commit-ack" /\ ack.accepted \in BOOLEAN
      /\ ack = requests[1] /\ 1 \in 1 .. Len(requests)
      /\ requests' = Tail(requests)
      /\ UNCHANGED <<clientVars, activeGeneration, deferred>>
      /\ session \in Sessions /\ activeGeneration # 0
  BY <1>1, VerdictAdmitted DEF Verdicts
<1>3. stagedNext = activeGeneration
  BY <1>2 DEF Both, PacketsMatch
<1>4. session.next /\ session.id # 0 /\ stagedCurrent.kind = "none"
  BY <1>2, <1>3 DEF WorkerInv, OneCandidate, SessionShape, NoSession, NoCandidate
<1>5. s = [session EXCEPT !.seek = NoSeek]
  BY DEF Withdrawn
<1>6. s.id = session.id /\ s.cursor = session.cursor /\ s.next = session.next /\ s \in Sessions
  BY <1>2, <1>5, Values DEF Sessions
<1> HIDE DEF s
<1>7. /\ session' = [s EXCEPT !.next = FALSE, !.cursor = IF ack.accepted THEN s.cursor + 1 ELSE s.cursor]
      /\ UNCHANGED responses
  BY <1>1, <1>2, <1>3, <1>4, <1>6
<1>8. View(session') = [session |-> session.id, cursor |-> IF ack.accepted THEN session.cursor + 1 ELSE session.cursor]
  BY <1>6, <1>7 DEF View, Sessions
<1>9. ack.accepted => Accepted(requests, "commit-ack", stagedNext)
  BY <1>2, <1>3 DEF Accepted, Yes
<1>10. Settled = SettledAt(session, stagedNext, stagedCurrent, requests)
  BY SettledIs
<1>11. ASSUME ack.accepted PROVE Settled = [session |-> session.id, cursor |-> session.cursor + 1]
  <2>1. stagedNext # 0 /\ Accepted(requests, "commit-ack", stagedNext)
    BY <1>2, <1>3, <1>9, <1>11
  <2> QED
    BY <1>4, <1>10, <2>1 DEF SettledAt
<1>12. View(session') = IF ack.accepted THEN Settled ELSE View(session)
  BY <1>8, <1>11 DEF View
<1> QED
  BY <1>1, <1>2, <1>7, <1>12 DEF VerdictServed

LEMMA VerdictKeeps ==
    ASSUME WorkerInv, WorkerInv', Both, VerdictServed
    PROVE  Both' /\ (View(session') # View(session) => frame = View(session'))
<1> DEFINE h == Head(requests)
           G == activeGeneration
<1>1. /\ requests # <<>> /\ IsAck(h) /\ h.gen = G /\ requests' = Tail(requests)
      /\ UNCHANGED <<generation, requestPending, frame, decoding, fatal, responses, deferred, seekTimers>>
      /\ G' = G
      /\ View(session') = IF h.accepted THEN Settled ELSE View(session)
  BY DEF VerdictServed, clientVars
<1>2. /\ requests \in Seq(Requests) /\ h \in Requests /\ h = requests[1] /\ 1 \in 1 .. Len(requests)
      /\ \A i \in 1 .. Len(requests') : i + 1 \in 1 .. Len(requests) /\ requests'[i] = requests[i + 1]
      /\ NoVerdict(requests', G)
  BY <1>1, HeadServed
<1>3. OneOutstanding /\ PendingKnown /\ PacketsMatch /\ FramesExist /\ SessionFirst /\ NothingFails /\ Agreement
  BY DEF Both
<1>4. /\ OneAtATime(requests', deferred, seekTimers, responses, decoding)
      /\ \A g : Idle(requests, deferred, seekTimers, responses, decoding, g)
                    => Idle(requests', deferred, seekTimers, responses, decoding, g)
  BY <1>1, <1>2, <1>3, PopRequest DEF OneOutstanding
<1>5. OneOutstanding' /\ PendingKnown'
  BY <1>1, <1>3, <1>4 DEF OneOutstanding, PendingKnown
<1>6. /\ \A k \in 1 .. Len(responses) : responses[k].gen # G
      /\ \A d \in decoding : d.packet.gen # G
  BY <1>1, <1>2, <1>3 DEF OneOutstanding, OneAtATime
<1>7. PacketsMatch'
  BY <1>1, <1>2, <1>6 DEF PacketsMatch, NoVerdict, IsAck
<1>8. FramesExist' /\ NothingFails'
  BY <1>1, <1>2, <1>3, FewerFrames
<1>9. h.accepted => frame # NoView
  BY <1>1, <1>2, <1>3 DEF PacketsMatch
<1>10. h.accepted => frame = View(session') /\ session'.id # 0
  BY <1>1, <1>3, <1>9 DEF Agreement, FramesExist, View
<1> HIDE DEF h, G
<1>11. ~h.accepted => \A kind \in Verdicts : ~Accepted(requests, kind, G)
  <2> SUFFICES ASSUME ~h.accepted, NEW kind \in Verdicts, NEW i \in 1 .. Len(requests), Yes(requests[i], kind, G)
               PROVE  FALSE
    BY DEF Accepted
  <2>1. IsAck(requests[i]) /\ requests[i].gen = G /\ requests[i].accepted
    BY DEF Yes, Verdicts, IsAck
  <2>2. i = 1
    BY <1>1, <1>2, <1>3, <2>1 DEF OneOutstanding, OneAtATime
  <2> QED
    BY <1>2, <2>1, <2>2
<1>12. ~h.accepted => Settled = View(session)
  BY <1>3, <1>11, SettledIs, SettledPlain DEF WorkerInv, OneCandidate, G
<1>13. SettledAt(session', stagedNext', stagedCurrent', requests') = View(session')
  <2>1. \A kind \in Verdicts : ~Accepted(requests', kind, G')
    BY <1>1, <1>2, NotAccepted
  <2>2. stagedNext' \in {0, G'} /\ (stagedCurrent' = NoCandidate \/ stagedCurrent'.gen = G')
    BY DEF WorkerInv, OneCandidate, G
  <2> QED
    BY <2>1, <2>2, SettledPlain
<1>14. Settled' = SettledAt(session', stagedNext', stagedCurrent', requests')
  BY DEF Settled, SettledAt, Accepting, Accepted, Yes
<1>15. Agreement'
  BY <1>1, <1>3, <1>12, <1>13, <1>14 DEF Agreement
<1>16. SessionFirst'
  <2>1. CASE h.accepted
    BY <1>10, <2>1 DEF SessionFirst
  <2>2. CASE ~h.accepted
    <3> SUFFICES ASSUME NEW i \in 1 .. Len(requests'), requests'[i].kind \in Navigation
                 PROVE  session'.id # 0
      BY DEF SessionFirst
    <3>1. i + 1 \in 1 .. Len(requests) /\ requests[i + 1].kind \in Navigation /\ (i + 1) - 1 = i
      BY <1>2
    <3>2. ~\E j \in 1 .. i : Yes(requests[j], "current-ack", G)
      <4>1. \A j \in 1 .. Len(requests) : ~Yes(requests[j], "current-ack", G)
        BY <1>11, <2>2 DEF Verdicts, Accepted
      <4>2. Len(requests) \in Nat
        BY <1>2
      <4> QED
        BY <3>1, <4>1, <4>2
    <3>3. session.id # 0
      BY <1>3, <3>1, <3>2 DEF SessionFirst, G
    <3> QED
      BY <1>1, <2>2, <3>3 DEF View
  <2> QED
    BY <2>1, <2>2
<1> QED
  BY <1>1, <1>5, <1>7, <1>8, <1>10, <1>15, <1>16 DEF Both

(***************************************************************************)
(* A request that is dropped or parked, and the timer of a seek             *)
(***************************************************************************)
LEMMA PassedKeeps ==
    ASSUME WorkerInv, WorkerInv', Both, requests # <<>>, requests' = Tail(requests),
           ~(IsAck(Head(requests)) /\ Head(requests).gen = activeGeneration),
           UNCHANGED <<clientVars, responses, activeGeneration, session, stagedNext, stagedCurrent, seekTimers>>,
           deferred' = deferred \/ (deferred' = Head(requests) /\ Asks(Head(requests)))
    PROVE  Both'
<1> DEFINE h == Head(requests)
           G == activeGeneration
<1>1. /\ UNCHANGED <<generation, requestPending, frame, decoding, fatal>>
      /\ UNCHANGED <<responses, activeGeneration, session, stagedNext, stagedCurrent, seekTimers>>
  BY DEF clientVars
<1>2. /\ requests \in Seq(Requests) /\ h \in Requests /\ h = requests[1] /\ 1 \in 1 .. Len(requests)
      /\ \A i \in 1 .. Len(requests') : i + 1 \in 1 .. Len(requests) /\ requests'[i] = requests[i + 1]
      /\ (Asks(h) => NoVerdict(requests', h.gen)) /\ Len(requests) \in Nat
      /\ Len(requests') \in Nat
  BY HeadServed
<1>3. OneOutstanding /\ PendingKnown /\ PacketsMatch /\ FramesExist /\ SessionFirst /\ NothingFails /\ Agreement
  BY DEF Both
<1>4. /\ OneAtATime(requests', deferred, seekTimers, responses, decoding)
      /\ Asks(h) => Idle(requests', deferred, seekTimers, responses, decoding, h.gen)
      /\ \A g : Idle(requests, deferred, seekTimers, responses, decoding, g)
                    => Idle(requests', deferred, seekTimers, responses, decoding, g)
  BY <1>2, <1>3, PopRequest DEF OneOutstanding
<1>5. OneOutstanding' /\ PendingKnown'
  <2>1. CASE deferred' = deferred
    BY <1>1, <1>3, <1>4, <2>1 DEF OneOutstanding, PendingKnown
  <2>2. CASE deferred' = h /\ Asks(h)
    <3>1. /\ OneAtATime(requests', h, seekTimers, responses, decoding)
          /\ \A g : Idle(requests', deferred, seekTimers, responses, decoding, g) /\ g # h.gen
                       => Idle(requests', h, seekTimers, responses, decoding, g)
      BY <1>2, <1>4, <2>2, OtherPlaces
    <3>2. \A g : Idle(requests, deferred, seekTimers, responses, decoding, g) => g # h.gen
      BY <1>2, <2>2 DEF Idle
    <3>3. ~requestPending' => Idle(requests', h, seekTimers, responses, decoding, generation)
      BY <1>1, <1>3, <1>4, <3>1, <3>2 DEF PendingKnown
    <3> QED
      BY <1>1, <2>2, <3>1, <3>3 DEF OneOutstanding, PendingKnown
  <2> QED
    BY <2>1, <2>2
<1>6. PacketsMatch'
  <2>1. \A k \in 1 .. Len(responses') : responses'[k].gen = G' => Matches(responses[k])'
    BY <1>1, <1>3 DEF PacketsMatch, Matches
  <2>2. \A d \in decoding' : d.packet.gen = G' => Matches(d.packet)'
    BY <1>1, <1>3 DEF PacketsMatch, Matches
  <2> QED
    BY <1>1, <1>2, <1>3, <2>1, <2>2 DEF PacketsMatch
<1>7. FramesExist' /\ NothingFails'
  BY <1>1, <1>2, <1>3, FewerFrames
<1>8. \A kind \in Verdicts : /\ ~Yes(h, kind, G)
                             /\ Accepted(requests, kind, G) <=> Accepted(requests', kind, G)
  <2>1. \A kind \in Verdicts : ~Yes(h, kind, G)
    BY DEF Verdicts, Yes, IsAck
  <2> QED
    BY <1>2, <2>1, AcceptedBehind
<1>9. Agreement'
  <2>1. Settled' = Settled
    BY <1>1, <1>8, SettledStill
  <2> QED
    BY <1>1, <1>3, <2>1 DEF Agreement
<1>10. SessionFirst'
  <2> SUFFICES ASSUME NEW i \in 1 .. Len(requests'), requests'[i].kind \in Navigation, session.id = 0
               PROVE  /\ stagedCurrent.kind = "create"
                      /\ \E j \in 1 .. (i - 1) : Yes(requests'[j], "current-ack", G)
    BY <1>1 DEF SessionFirst, G
  <2>1. i + 1 \in 1 .. Len(requests) /\ requests[i + 1].kind \in Navigation /\ (i + 1) - 1 = i
    BY <1>2
  <2>2. stagedCurrent.kind = "create" /\ \E j \in 1 .. i : Yes(requests[j], "current-ack", G)
    BY <1>3, <2>1 DEF SessionFirst
  <2>3. PICK j \in 1 .. i : Yes(requests[j], "current-ack", G)
    BY <2>2
  <2>4. j # 1
    BY <1>2, <1>8, <2>3 DEF Verdicts
  <2>5. j - 1 \in 1 .. (i - 1) /\ requests'[j - 1] = requests[j]
    <3>1. i \in Nat /\ j \in Nat /\ j <= i /\ i <= Len(requests')
      BY <1>2
    <3>2. j - 1 \in 1 .. (i - 1) /\ j - 1 \in 1 .. Len(requests') /\ (j - 1) + 1 = j
      BY <1>2, <2>3, <2>4, <3>1
    <3> QED
      BY <1>2, <3>2
  <2> QED
    BY <2>2, <2>3, <2>5
<1> QED
  BY <1>5, <1>6, <1>7, <1>9, <1>10 DEF Both

LEMMA DropPasses == WorkerInv /\ WorkerInv' /\ Both /\ DropStale => Both'
<1> SUFFICES ASSUME WorkerInv, WorkerInv', Both, DropStale PROVE Both'
  OBVIOUS
<1>1. /\ requests # <<>> /\ Head(requests).gen < activeGeneration /\ requests' = Tail(requests)
      /\ UNCHANGED <<clientVars, responses, workerVars>>
  BY DEF DropStale, Stale
<1>2. Head(requests) \in Requests /\ activeGeneration \in Generations
  BY <1>1, HeadServed
<1>3. Head(requests).gen # activeGeneration
  BY <1>1, <1>2 DEF Requests, Generations
<1> QED
  BY <1>1, <1>3, PassedKeeps DEF workerVars

LEMMA DeferPasses == WorkerInv /\ WorkerInv' /\ Both /\ Defer => Both'
<1> SUFFICES ASSUME WorkerInv, WorkerInv', Both, Defer PROVE Both'
  OBVIOUS
<1>1. Asks(Head(requests))
  BY DEF Defer, Blocked, Asks, IsAck, Navigation
<1> QED
  BY <1>1, PassedKeeps DEF Defer, Asks

TimerFired(g) ==
    /\ g \in seekTimers
    /\ UNCHANGED <<clientVars, requests, activeGeneration, stagedNext, deferred>>
    /\ session'.id = session.id /\ session'.cursor = session.cursor
    /\ \/ /\ UNCHANGED <<session, stagedCurrent, responses>>
          /\ seekTimers' = seekTimers \ {g}
       \/ /\ g = activeGeneration /\ stagedCurrent.kind = "none"
          /\ \/ UNCHANGED <<responses, seekTimers>>
             \/ /\ seekTimers' = seekTimers \ {g}
                /\ \E r \in Responses :
                    /\ responses' = Append(responses, r) /\ r.gen = g /\ Matches(r)'
                    /\ r.kind \in Packets => r.view.session # 0
                    /\ r.kind \notin {"commit", "engine-error"}

LEMMA TimerFires ==
    ASSUME NEW g \in Generations, WorkerInv, SeekTimer(g)
    PROVE  TimerFired(g)
<1>1. /\ g \in seekTimers /\ UNCHANGED <<clientVars, requests, activeGeneration, stagedNext, deferred>>
  BY DEF SeekTimer
<1>2. CASE g # activeGeneration \/ session.id = 0
  BY <1>1, <1>2 DEF SeekTimer, TimerFired
<1>3. CASE g = activeGeneration /\ session.id # 0
  <2>1. session \in Sessions /\ stagedCurrent \in Candidates /\ session.seek.left > 0
    BY <1>1, <1>3 DEF WorkerInv, TypeOK, OneSeekLoop
  <2>2. session.seek # NoSeek /\ session.seek.left # 0
    BY <2>1 DEF NoSeek, Sessions, Seeks
  <2>3. /\ ~session.next /\ session.next \in BOOLEAN /\ session.seek.target \in -1 .. ItemCount
        /\ session.seek.target # -1
        /\ stagedCurrent = NoCandidate
    BY <2>1, <2>2 DEF WorkerInv, OneCandidate, SessionShape, Sessions, Seeks, Candidates
  <2>4. SeekTurn(session, g, NoCandidate)
    BY <1>3, <2>2, <2>3 DEF SeekTimer
  <2>5. /\ session'.id = session.id /\ session'.cursor = session.cursor
        /\ \/ UNCHANGED responses /\ seekTimers' = seekTimers \cup {g}
           \/ /\ seekTimers' = seekTimers \ {g}
              /\ \/ Respond(Answer("input-error", g))
                 \/ /\ stagedCurrent' = [kind |-> "seek", gen |-> g, session |-> session.id]
                    /\ session'.seek.target = session.seek.target
                    /\ Respond(Packet("seeked", g, [session |-> session.id, cursor |-> session.seek.target], 0))
    <3>1. session.next = FALSE /\ session.seek.target \in 0 .. ItemCount
      BY <2>3, ProtocolAssumption
    <3> QED
      BY <1>3, <2>1, <2>4, <3>1, TurnKeeps
  <2>6. stagedCurrent.kind = "none"
    BY <2>3 DEF NoCandidate
  <2>7. CASE UNCHANGED responses /\ seekTimers' = seekTimers \cup {g}
    BY <1>1, <1>3, <2>5, <2>6, <2>7 DEF TimerFired
  <2>8. CASE seekTimers' = seekTimers \ {g} /\ Respond(Answer("input-error", g))
    <3>1. PICK r \in Responses : r = Answer("input-error", g)
      BY Values
    <3>2. r.kind = "input-error" /\ r.gen = g /\ "input-error" \notin Packets
      BY <3>1 DEF Answer, Packets
    <3>3. Matches(r)'
      BY <3>2 DEF Matches
    <3> QED
      BY <1>1, <1>3, <2>5, <2>6, <2>8, <3>1, <3>2, <3>3 DEF TimerFired, Respond
  <2>9. CASE /\ seekTimers' = seekTimers \ {g}
             /\ stagedCurrent' = [kind |-> "seek", gen |-> g, session |-> session.id]
             /\ session'.seek.target = session.seek.target
             /\ Respond(Packet("seeked", g, [session |-> session.id, cursor |-> session.seek.target], 0))
    <3>1. [session |-> session.id, cursor |-> session.seek.target] \in Views /\ 0 \in 0 .. ItemCount
      BY <2>1, <2>3, ProtocolAssumption DEF Views, Sessions
    <3>2. PICK r \in Responses : r = Packet("seeked", g, [session |-> session.id, cursor |-> session.seek.target], 0)
      BY <3>1, Values DEF Packets
    <3>3. r.kind = "seeked" /\ r.gen = g /\ r.view = [session |-> session.id, cursor |-> session.seek.target]
      BY <3>2 DEF Packet
    <3>4. Matches(r)'
      BY <2>5, <2>9, <3>3 DEF Matches
    <3> QED
      BY <1>1, <1>3, <2>5, <2>6, <2>9, <3>2, <3>3, <3>4 DEF TimerFired, Respond
  <2> QED
    BY <2>5, <2>7, <2>8, <2>9
<1> QED
  BY <1>2, <1>3

LEMMA TimerBoth ==
    ASSUME NEW g \in Generations, WorkerInv, WorkerInv', Both, TimerFired(g)
    PROVE  Both'
<1> DEFINE G == activeGeneration
<1>1. /\ g \in seekTimers
      /\ UNCHANGED <<generation, requestPending, frame, decoding, fatal>>
      /\ UNCHANGED <<requests, activeGeneration, stagedNext, deferred>>
      /\ session'.id = session.id /\ session'.cursor = session.cursor
      /\ responses \in Seq(Responses)
  BY DEF TimerFired, clientVars, WorkerInv, TypeOK
<1>2. OneOutstanding /\ PendingKnown /\ PacketsMatch /\ FramesExist /\ SessionFirst /\ NothingFails /\ Agreement
  BY DEF Both
<1>3. ~requestPending => Idle(requests, deferred, seekTimers, responses, decoding, generation) /\ g # generation
  BY <1>1, <1>2 DEF PendingKnown, Idle
<1>4. /\ OneAtATime(requests, deferred, seekTimers \ {g}, responses, decoding)
      /\ Idle(requests, deferred, seekTimers \ {g}, responses, decoding, g) /\ NoVerdict(requests, g)
      /\ \A i : Idle(requests, deferred, seekTimers, responses, decoding, i)
                   => Idle(requests, deferred, seekTimers \ {g}, responses, decoding, i)
  <2>1. seekTimers \ {g} \in SUBSET seekTimers
    OBVIOUS
  <2>2. /\ OneAtATime(requests, deferred, seekTimers \ {g}, responses, decoding)
        /\ \A i : Idle(requests, deferred, seekTimers, responses, decoding, i)
                   => Idle(requests, deferred, seekTimers \ {g}, responses, decoding, i)
    BY <1>2, <2>1, OtherPlaces DEF OneOutstanding
  <2>3. Idle(requests, deferred, seekTimers \ {g}, responses, decoding, g) /\ NoVerdict(requests, g)
    BY <1>1, <1>2, OtherPlaces DEF OneOutstanding
  <2> QED
    BY <2>2, <2>3
<1>5. CASE UNCHANGED <<session, stagedCurrent, responses>> /\ seekTimers' = seekTimers \ {g}
  <2>1. OneOutstanding' /\ PendingKnown'
    BY <1>1, <1>3, <1>4, <1>5 DEF OneOutstanding, PendingKnown
  <2>2. PacketsMatch'
    <3>1. \A k \in 1 .. Len(responses') : responses'[k].gen = G' => Matches(responses[k])'
      BY <1>1, <1>2, <1>5 DEF PacketsMatch, Matches
    <3>2. \A d \in decoding' : d.packet.gen = G' => Matches(d.packet)'
      BY <1>1, <1>2, <1>5 DEF PacketsMatch, Matches
    <3> QED
      BY <1>1, <1>2, <1>5, <3>1, <3>2 DEF PacketsMatch
  <2>3. FramesExist' /\ NothingFails'
    BY <1>1, <1>2, <1>5, FewerFrames
  <2>4. Agreement' /\ SessionFirst'
    BY <1>1, <1>2, <1>5 DEF Agreement, SessionFirst, Settled, Accepting
  <2> QED
    BY <2>1, <2>2, <2>3, <2>4 DEF Both
<1>6. CASE /\ g = G /\ stagedCurrent.kind = "none"
           /\ \/ UNCHANGED <<responses, seekTimers>>
              \/ /\ seekTimers' = seekTimers \ {g}
                 /\ \E r \in Responses :
                     /\ responses' = Append(responses, r) /\ r.gen = g /\ Matches(r)'
                     /\ r.kind \in Packets => r.view.session # 0
                     /\ r.kind \notin {"commit", "engine-error"}
  <2>1. /\ \A k \in 1 .. Len(responses) : responses[k].gen # G
        /\ \A d \in decoding : d.packet.gen # G
        /\ \A i \in 1 .. Len(requests) : requests[i].gen # G
    BY <1>1, <1>2, <1>6 DEF OneOutstanding, OneAtATime
  <2>2. SessionFirst'
    BY <1>1, <1>2, <1>6 DEF SessionFirst
  <2>3. Agreement'
    <3>1. \A kind \in Verdicts : ~Accepted(requests, kind, G)
      BY <1>4, <1>6, NotAccepted
    <3>2. Settled = View(session)
      BY <3>1, SettledIs, SettledPlain DEF WorkerInv, OneCandidate
    <3>3. SettledAt(session', stagedNext', stagedCurrent', requests') = View(session')
      <4>1. stagedNext' \in {0, G'} /\ (stagedCurrent' = NoCandidate \/ stagedCurrent'.gen = G')
        BY DEF WorkerInv, OneCandidate
      <4>2. \A kind \in Verdicts : ~Accepted(requests', kind, G')
        BY <1>1, <3>1
      <4> HIDE DEF G
      <4> QED
        BY <4>1, <4>2, SettledPlain
    <3>4. Settled' = SettledAt(session', stagedNext', stagedCurrent', requests')
      BY DEF Settled, SettledAt, Accepting, Accepted, Yes
    <3> QED
      BY <1>1, <1>2, <3>2, <3>3, <3>4 DEF Agreement, View
  <2>4. CASE UNCHANGED <<responses, seekTimers>>
    <3>1. OneOutstanding' /\ PendingKnown'
      BY <1>1, <1>2, <2>4 DEF OneOutstanding, PendingKnown
    <3>2. PacketsMatch'
      BY <1>1, <2>1, <2>4 DEF PacketsMatch
    <3>3. FramesExist' /\ NothingFails'
      BY <1>1, <1>2, <2>4, FewerFrames
    <3> QED
      BY <2>2, <2>3, <3>1, <3>2, <3>3 DEF Both
  <2>5. ASSUME NEW r \in Responses, seekTimers' = seekTimers \ {g},
               responses' = Append(responses, r), r.gen = g, Matches(r)',
               r.kind \in Packets => r.view.session # 0,
               r.kind \notin {"commit", "engine-error"}
        PROVE  Both'
    <3>1. \A k \in 1 .. Len(responses') :
            responses'[k] = r \/ (k \in 1 .. Len(responses) /\ responses'[k] = responses[k])
      BY <1>1, <2>5, Appended
    <3>2. /\ OneAtATime(requests, deferred, seekTimers', responses', decoding)
          /\ \A i : Idle(requests, deferred, seekTimers', responses, decoding, i) /\ i # g
                       => Idle(requests, deferred, seekTimers', responses', decoding, i)
      BY <1>1, <1>4, <2>5, PostAnswer
    <3>3. ~requestPending => Idle(requests, deferred, seekTimers', responses', decoding, generation)
      BY <1>3, <1>4, <2>5, <3>2
    <3>4. OneOutstanding' /\ PendingKnown'
      BY <1>1, <3>2, <3>3 DEF OneOutstanding, PendingKnown
    <3>5. PacketsMatch'
      <4>1. \A k \in 1 .. Len(responses') : responses'[k].gen = G' => Matches(responses[k])'
        <5> SUFFICES ASSUME NEW k \in 1 .. Len(responses'), responses'[k].gen = G'
                     PROVE  Matches(responses[k])'
          OBVIOUS
        <5>1. responses'[k] = r
          BY <1>1, <2>1, <3>1
        <5> QED
          BY <2>5, <5>1 DEF Matches
      <4> QED
        BY <1>1, <2>1, <4>1 DEF PacketsMatch
    <3>6. FramesExist' /\ NothingFails'
      BY <1>1, <1>2, <2>5, <3>1, FewerFrames
    <3> QED
      BY <2>2, <2>3, <3>4, <3>5, <3>6 DEF Both
  <2> QED
    BY <1>6, <2>4, <2>5
<1> QED
  BY <1>5, <1>6 DEF TimerFired

(***************************************************************************)
(* The client                                                               *)
(***************************************************************************)
AskPosted(r) ==
    /\ Asks(r) /\ requests' = Append(requests, r)
    /\ UNCHANGED <<frame, decoding, fatal, responses, workerVars>>
    /\ requestPending' /\ r.gen = generation'
    /\ \/ Opens(r) /\ generation' = generation + 1
       \/ r.kind = "next" /\ generation' = generation /\ ~requestPending
    /\ r.kind \in Navigation => frame # NoView

LEMMA UserPosts == WorkerInv /\ User => \E r \in Requests : AskPosted(r)
<1> SUFFICES ASSUME WorkerInv, User PROVE \E r \in Requests : AskPosted(r)
  OBVIOUS
<1>1. generation \in Generations
  BY DEF WorkerInv, TypeOK
<1>2. ASSUME NEW r \in Requests, OpenGeneration(r), r.gen = generation + 1,
             r.kind \in Edits \cup {"create", "seek"}, r.kind = "seek" => frame # NoView
      PROVE  AskPosted(r)
  BY <1>2 DEF AskPosted, OpenGeneration, Post, Opens, Asks, IsAck, Edits, Navigation
<1>3. CASE Load \/ Edit
  <2>1. PICK kind \in Edits \cup {"create"} : OpenGeneration(Plain(kind, generation + 1))
    BY <1>3 DEF Load, Edit
  <2>2. generation + 1 \in Generations
    BY <1>1, <2>1, ProtocolAssumption DEF OpenGeneration, Generations
  <2>3. PICK r \in Requests : r = Plain(kind, generation + 1)
    BY <2>2, Values DEF Edits
  <2>4. r.kind = kind /\ r.gen = generation + 1
    BY <2>3 DEF Plain
  <2>5. OpenGeneration(r)
    BY <2>1, <2>3
  <2>6. AskPosted(r)
    BY <1>2, <2>4, <2>5 DEF Edits
  <2> QED
    BY <2>6
<1>4. CASE Seek
  <2>1. PICK t \in 0 .. ItemCount : frame # NoView /\ OpenGeneration(SeekRequest(generation + 1, t))
    BY <1>4 DEF Seek
  <2>2. generation + 1 \in Generations
    BY <1>1, <2>1, ProtocolAssumption DEF OpenGeneration, Generations
  <2>3. PICK r \in Requests : r = SeekRequest(generation + 1, t)
    BY <2>2, Values
  <2>4. r.kind = "seek" /\ r.gen = generation + 1
    BY <2>3 DEF SeekRequest, Plain
  <2>5. OpenGeneration(r)
    BY <2>1, <2>3
  <2>6. AskPosted(r)
    BY <1>2, <2>1, <2>4, <2>5
  <2> QED
    BY <2>6
<1>5. CASE StepForward
  <2>1. PICK r \in Requests : r = Plain("next", generation)
    BY <1>1, Values
  <2>2. r.kind = "next" /\ r.gen = generation
    BY <2>1 DEF Plain
  <2>3. AskPosted(r)
    BY <1>5, <2>1, <2>2 DEF StepForward, AskPosted, Post, Asks, IsAck
  <2> QED
    BY <2>3
<1> QED
  BY <1>3, <1>4, <1>5 DEF User

\* A frame on screen is a session of the Worker, or one it is about to have.
LEMMA FrameIsSession ==
    ASSUME WorkerInv, Both, frame # NoView
    PROVE  \/ session.id # 0
           \/ stagedCurrent.kind = "create" /\ Accepted(requests, "current-ack", activeGeneration)
<1> SUFFICES ASSUME session.id = 0
             PROVE  stagedCurrent.kind = "create" /\ Accepted(requests, "current-ack", activeGeneration)
  OBVIOUS
<1>1. session = NoSession
  BY DEF WorkerInv, SessionShape
<1>2. ~session.next /\ session.seek = NoSeek
  BY <1>1 DEF NoSession
<1>3. stagedNext = 0 /\ stagedCurrent.kind # "seek" /\ (stagedCurrent.kind = "create" => stagedCurrent.gen = activeGeneration)
  BY <1>2 DEF WorkerInv, OneCandidate, NoCandidate
<1>4. frame = SettledAt(session, stagedNext, stagedCurrent, requests) /\ frame.session # 0
  BY SettledIs DEF Both, Agreement, FramesExist
<1>5. CASE ~(stagedCurrent.kind = "create" /\ Accepted(requests, "current-ack", activeGeneration))
  <2>1. frame = View(session)
    BY <1>3, <1>4, <1>5 DEF SettledAt
  <2> QED
    BY <1>4, <2>1 DEF View
<1> QED
  BY <1>5

LEMMA AskBoth ==
    ASSUME WorkerInv, WorkerInv', Both, NEW r \in Requests, AskPosted(r)
    PROVE  Both'
<1> DEFINE n == Len(requests) + 1
           G == activeGeneration
<1>1. /\ Asks(r) /\ requests' = Append(requests, r)
      /\ UNCHANGED <<frame, decoding, fatal, responses>>
      /\ UNCHANGED <<activeGeneration, session, stagedNext, stagedCurrent, navigating, deferred, seekTimers>>
      /\ requestPending' /\ r.gen = generation'
      /\ \/ Opens(r) /\ generation' = generation + 1
         \/ r.kind = "next" /\ generation' = generation /\ ~requestPending
      /\ r.kind \in Navigation => frame # NoView
  BY DEF AskPosted, workerVars
<1>2. OneOutstanding /\ PendingKnown /\ PacketsMatch /\ FramesExist /\ SessionFirst /\ NothingFails /\ Agreement
  BY DEF Both
<1>3. /\ requests \in Seq(Requests) /\ responses \in Seq(Responses) /\ generation \in Nat /\ G \in Nat
      /\ decoding \subseteq [packet : Responses, base : Views] /\ seekTimers \subseteq Generations
      /\ deferred \in Requests
  BY DEF WorkerInv, TypeOK, Generations
<1>4. /\ Len(requests) \in Nat /\ Len(requests') = n /\ requests'[n] = r
      /\ \A i \in 1 .. Len(requests) : requests'[i] = requests[i]
      /\ \A i \in 1 .. Len(requests') : i = n \/ i \in 1 .. Len(requests)
  BY <1>1, <1>3, Appended
<1> HIDE DEF n
<1>5. /\ \A i \in 1 .. Len(requests) : requests[i].gen <= generation /\ requests[i].gen \in Nat
      /\ deferred # NoRequest => deferred.gen <= generation /\ deferred.gen \in Nat
      /\ \A g \in seekTimers : g <= generation /\ g \in Nat
      /\ \A k \in 1 .. Len(responses) : responses[k].gen <= generation /\ responses[k].gen \in Nat
      /\ \A d \in decoding : d.packet.gen <= generation /\ d.packet.gen \in Nat
  <2>1. G <= generation /\ \A g \in Generations : g \in Nat
    BY DEF WorkerInv, AnswersServed, Generations
  <2>2. \A i \in 1 .. Len(requests) : requests[i].gen <= generation /\ requests[i].gen \in Nat
    <3> SUFFICES ASSUME NEW i \in 1 .. Len(requests) PROVE requests[i].gen <= generation /\ requests[i].gen \in Nat
      OBVIOUS
    <3>1. requests[i] \in Requests
      BY <1>3
    <3> QED
      BY <2>1, <3>1 DEF WorkerInv, RequestsOrdered, Requests
  <2>3. deferred # NoRequest => deferred.gen <= generation /\ deferred.gen \in Nat
    BY <1>3, <2>1 DEF WorkerInv, ParkedBehindSeek
  <2>4. \A g \in seekTimers : g <= generation /\ g \in Nat
    BY <1>3, <2>1 DEF WorkerInv, AnswersServed
  <2>5. \A k \in 1 .. Len(responses) : responses[k].gen <= generation /\ responses[k].gen \in Nat
    <3> SUFFICES ASSUME NEW k \in 1 .. Len(responses) PROVE responses[k].gen <= generation /\ responses[k].gen \in Nat
      OBVIOUS
    <3>1. responses[k] \in Responses
      BY <1>3
    <3>3. responses[k].gen \in Nat
      BY <2>1, <3>1 DEF Responses
    <3>2. responses[k].gen <= G
      BY DEF WorkerInv, AnswersServed
    <3> QED
      BY <1>3, <2>1, <3>2, <3>3
  <2>6. \A d \in decoding : d.packet.gen <= generation /\ d.packet.gen \in Nat
    <3> SUFFICES ASSUME NEW d \in decoding PROVE d.packet.gen <= generation /\ d.packet.gen \in Nat
      OBVIOUS
    <3>1. d.packet.gen \in Nat
      BY <1>3, <2>1 DEF Responses
    <3>2. d.packet.gen <= G
      BY DEF WorkerInv, AnswersServed
    <3> QED
      BY <1>3, <2>1, <3>1, <3>2
  <2> QED
    BY <2>2, <2>3, <2>4, <2>5, <2>6
<1>6. Idle(requests, deferred, seekTimers, responses, decoding, r.gen)
  <2>1. CASE generation' = generation + 1
    BY <1>1, <1>3, <1>5, <2>1 DEF Idle
  <2>2. CASE generation' = generation /\ ~requestPending
    BY <1>1, <1>2, <2>2 DEF PendingKnown
  <2> QED
    BY <1>1, <2>1, <2>2
<1>7. OneOutstanding' /\ PendingKnown'
  <2>1. OneAtATime(requests', deferred, seekTimers, responses, decoding)
    BY <1>1, <1>2, <1>3, <1>6, PostRequest DEF OneOutstanding, Asks
  <2> QED
    BY <1>1, <2>1 DEF OneOutstanding, PendingKnown
<1>8. PacketsMatch'
  <2>1. \A k \in 1 .. Len(responses') : responses'[k].gen = G' => Matches(responses[k])'
    BY <1>1, <1>2 DEF PacketsMatch, Matches
  <2>2. \A d \in decoding' : d.packet.gen = G' => Matches(d.packet)'
    BY <1>1, <1>2 DEF PacketsMatch, Matches
  <2>3. \A i \in 1 .. Len(requests') : requests'[i].gen = G' =>
            /\ requests'[i].kind = "commit-ack" => stagedNext' = G'
            /\ requests'[i].kind = "current-ack" => stagedCurrent' # NoCandidate
            /\ IsAck(requests'[i]) /\ requests'[i].accepted => frame' # NoView
    <3> SUFFICES ASSUME NEW i \in 1 .. Len(requests'), requests'[i].gen = G'
                 PROVE  /\ requests'[i].kind = "commit-ack" => stagedNext' = G'
                        /\ requests'[i].kind = "current-ack" => stagedCurrent' # NoCandidate
                        /\ IsAck(requests'[i]) /\ requests'[i].accepted => frame' # NoView
      OBVIOUS
    <3>1. CASE i = n
      BY <1>1, <1>4, <3>1 DEF Asks, IsAck
    <3>2. CASE i \in 1 .. Len(requests)
      BY <1>1, <1>2, <1>4, <3>2 DEF PacketsMatch
    <3> QED
      BY <1>4, <3>1, <3>2
  <2> QED
    BY <2>1, <2>2, <2>3 DEF PacketsMatch
<1>9. FramesExist'
  <2>1. \A i \in 1 .. Len(requests') : requests'[i].kind = "next" /\ requests'[i].gen = generation' => frame # NoView
    <3> SUFFICES ASSUME NEW i \in 1 .. Len(requests'), requests'[i].kind = "next", requests'[i].gen = generation'
                 PROVE  frame # NoView
      OBVIOUS
    <3>1. CASE i = n
      BY <1>1, <1>4, <3>1 DEF Navigation
    <3>2. CASE i \in 1 .. Len(requests)
      BY <1>1, <1>2, <1>3, <1>4, <1>5, <3>2 DEF FramesExist
    <3> QED
      BY <1>4, <3>1, <3>2
  <2>2. \A k \in 1 .. Len(responses) :
          responses[k].kind = "commit" /\ responses[k].gen = generation' => frame # NoView
    BY <1>1, <1>2, <1>3, <1>5 DEF FramesExist
  <2>3. \A d \in decoding :
          d.packet.kind = "commit" /\ d.packet.gen = generation' => frame # NoView
    BY <1>1, <1>2, <1>3, <1>5 DEF FramesExist
  <2> QED
    BY <1>1, <1>2, <2>1, <2>2, <2>3 DEF FramesExist
<1>10. SessionFirst'
  <2> SUFFICES ASSUME NEW i \in 1 .. Len(requests'), requests'[i].kind \in Navigation, session.id = 0
               PROVE  /\ stagedCurrent.kind = "create"
                      /\ \E j \in 1 .. (i - 1) : Yes(requests'[j], "current-ack", G)
    BY <1>1 DEF SessionFirst, G
  <2>1. CASE i = n
    <3>1. stagedCurrent.kind = "create" /\ Accepted(requests, "current-ack", G)
      BY <1>1, <1>4, <2>1, FrameIsSession
    <3>2. PICK j \in 1 .. Len(requests) : Yes(requests[j], "current-ack", G)
      BY <3>1 DEF Accepted
    <3>3. j \in 1 .. (i - 1)
      BY <1>4, <2>1 DEF n
    <3> QED
      BY <1>4, <3>1, <3>2, <3>3
  <2>2. CASE i \in 1 .. Len(requests)
    <3>1. stagedCurrent.kind = "create" /\ \E j \in 1 .. (i - 1) : Yes(requests[j], "current-ack", G)
      BY <1>2, <1>4, <2>2 DEF SessionFirst
    <3>2. PICK j \in 1 .. (i - 1) : Yes(requests[j], "current-ack", G)
      BY <3>1
    <3>3. j \in 1 .. Len(requests)
      BY <1>4, <2>2, <3>2
    <3> QED
      BY <1>4, <3>1, <3>2, <3>3
  <2> QED
    BY <1>4, <2>1, <2>2
<1>11. NothingFails'
  BY <1>1, <1>2 DEF NothingFails, NoFault
<1>12. Agreement'
  <2>1. \A kind \in Verdicts : ~Yes(r, kind, G)
    BY <1>1 DEF Asks, IsAck, Yes, Verdicts
  <2>2. \A kind \in Verdicts : Accepted(requests, kind, G) <=> Accepted(requests', kind, G)
    BY <1>1, <1>3, <2>1, AcceptedLater
  <2>3. Settled' = Settled
    BY <1>1, <2>2, SettledStill
  <2> QED
    BY <1>1, <1>2, <2>3 DEF Agreement
<1> QED
  BY <1>7, <1>8, <1>9, <1>10, <1>11, <1>12 DEF Both

\* A packet has been removed from where it was, and its verdict is posted.
Removed(p) ==
    /\ OneAtATime(requests, deferred, seekTimers, responses', decoding')
    /\ Idle(requests, deferred, seekTimers, responses', decoding', p.gen) /\ NoVerdict(requests, p.gen)
    /\ \A g : Idle(requests, deferred, seekTimers, responses, decoding, g)
                 => Idle(requests, deferred, seekTimers, responses', decoding', g)
    /\ \A k \in 1 .. Len(responses') : \E l \in 1 .. Len(responses) : responses'[k] = responses[l]
    /\ \A d \in decoding' : d \in decoding

LEMMA VerdictBoth ==
    ASSUME WorkerInv, WorkerInv', Both, NEW p \in Responses, p.kind \in Packets,
           p.gen = activeGeneration => Matches(p), 1 <= p.gen, p.gen <= activeGeneration,
           NEW r \in Requests, r.kind = AckKind(p), r.gen = p.gen,
           requests' = Append(requests, r),
           UNCHANGED <<generation, workerVars>>, Removed(p),
           r.accepted => /\ p.gen = generation /\ p.view.session # 0
                         /\ frame' = p.view /\ fatal' = fatal,
           ~r.accepted => frame' = frame /\ fatal' \in {fatal, "packet"},
           requestPending' = requestPending \/ p.gen = generation
    PROVE  Both'
<1> DEFINE n == Len(requests) + 1
           G == activeGeneration
<1>1. /\ UNCHANGED <<generation, activeGeneration, session, stagedNext, stagedCurrent, deferred, seekTimers>>
      /\ r.kind \in {"commit-ack", "current-ack"} /\ IsAck(r)
      /\ r.kind = "commit-ack" <=> p.kind = "commit"
  BY DEF workerVars, AckKind, IsAck
<1>2. OneOutstanding /\ PendingKnown /\ PacketsMatch /\ FramesExist /\ SessionFirst /\ NothingFails /\ Agreement
  BY DEF Both
<1>3. /\ requests \in Seq(Requests) /\ generation \in Nat /\ G \in Nat /\ G <= generation
      /\ p.gen \in Nat
  BY DEF WorkerInv, TypeOK, Generations, AnswersServed, Responses
<1>4. /\ Len(requests) \in Nat /\ Len(requests') = n /\ requests'[n] = r
      /\ \A i \in 1 .. Len(requests) : requests'[i] = requests[i]
      /\ \A i \in 1 .. Len(requests') : i = n \/ i \in 1 .. Len(requests)
  BY <1>3, Appended
<1> HIDE DEF n
<1>5. r.accepted => \A i \in 1 .. Len(requests) : Asks(requests[i]) => requests[i].gen < r.gen
  <2> SUFFICES ASSUME r.accepted, NEW i \in 1 .. Len(requests), Asks(requests[i])
               PROVE  requests[i].gen < r.gen
    OBVIOUS
  <2>1. requests[i] \in Requests /\ requests[i].gen <= generation
    BY <1>3 DEF WorkerInv, RequestsOrdered
  <2>2. requests[i].gen # p.gen
    BY DEF Removed, Idle
  <2> QED
    BY <1>3, <2>1, <2>2 DEF Requests, Generations
<1>6. OneOutstanding' /\ PendingKnown'
  <2>1. /\ OneAtATime(requests', deferred, seekTimers, responses', decoding')
        /\ \A g : Idle(requests, deferred, seekTimers, responses', decoding', g)
                    => Idle(requests', deferred, seekTimers, responses', decoding', g)
    <3>1. /\ OneAtATime(requests, deferred, seekTimers, responses', decoding')
          /\ Idle(requests, deferred, seekTimers, responses', decoding', r.gen) /\ NoVerdict(requests, r.gen)
      BY DEF Removed
    <3> QED
      BY <1>1, <1>3, <1>5, <3>1, PostRequest
  <2>2. ~requestPending' => Idle(requests, deferred, seekTimers, responses', decoding', generation)
    BY <1>2 DEF PendingKnown, Removed
  <2> QED
    BY <1>1, <2>1, <2>2 DEF OneOutstanding, PendingKnown
<1>7. r.accepted => frame' # NoView
  BY DEF NoView
<1>8. frame # NoView => frame' # NoView
  BY <1>7
<1>9. PacketsMatch'
  <2>1. \A k \in 1 .. Len(responses') : responses'[k].gen = G' => Matches(responses[k])'
    <3> SUFFICES ASSUME NEW k \in 1 .. Len(responses'), responses'[k].gen = G'
                 PROVE  Matches(responses[k])'
      OBVIOUS
    <3>1. PICK l \in 1 .. Len(responses) : responses'[k] = responses[l]
      BY DEF Removed
    <3> QED
      BY <1>1, <1>2, <3>1 DEF PacketsMatch, Matches
  <2>2. \A d \in decoding' : d.packet.gen = G' => Matches(d.packet)'
    BY <1>1, <1>2 DEF PacketsMatch, Matches, Removed
  <2>3. \A i \in 1 .. Len(requests') : requests'[i].gen = G' =>
            /\ requests'[i].kind = "commit-ack" => stagedNext' = G'
            /\ requests'[i].kind = "current-ack" => stagedCurrent' # NoCandidate
            /\ IsAck(requests'[i]) /\ requests'[i].accepted => frame' # NoView
    <3> SUFFICES ASSUME NEW i \in 1 .. Len(requests'), requests'[i].gen = G'
                 PROVE  /\ requests'[i].kind = "commit-ack" => stagedNext' = G'
                        /\ requests'[i].kind = "current-ack" => stagedCurrent' # NoCandidate
                        /\ IsAck(requests'[i]) /\ requests'[i].accepted => frame' # NoView
      OBVIOUS
    <3>1. CASE i = n
      <4>1. p.gen = G /\ Matches(p)
        BY <1>1, <1>4, <3>1
      <4>2. p.kind \in {"ready", "seeked", "commit"}
        BY DEF Packets
      <4>3. p.kind # "commit" => stagedCurrent # NoCandidate
        BY <4>1, <4>2 DEF Matches, NoCandidate
      <4>4. p.kind = "commit" => stagedNext = G
        BY <4>1 DEF Matches
      <4> QED
        BY <1>1, <1>4, <1>7, <3>1, <4>3, <4>4
    <3>2. CASE i \in 1 .. Len(requests)
      BY <1>1, <1>2, <1>4, <1>8, <3>2 DEF PacketsMatch
    <3> QED
      BY <1>4, <3>1, <3>2
  <2> QED
    BY <2>1, <2>2, <2>3 DEF PacketsMatch
<1>10. FramesExist' /\ NothingFails'
  <2>1. \A i \in 1 .. Len(requests') : requests'[i].kind = "next" /\ requests'[i].gen = generation' => frame' # NoView
    <3> SUFFICES ASSUME NEW i \in 1 .. Len(requests'), requests'[i].kind = "next", requests'[i].gen = generation'
                 PROVE  frame' # NoView
      OBVIOUS
    <3>1. i # n
      BY <1>1, <1>4
    <3> QED
      BY <1>1, <1>2, <1>4, <1>8, <3>1 DEF FramesExist
  <2>2. \A k \in 1 .. Len(responses') :
          /\ responses'[k].kind \in Packets => responses'[k].view.session # 0
          /\ responses'[k].kind = "commit" /\ responses'[k].gen = generation => frame' # NoView
          /\ responses'[k].kind # "engine-error"
    BY <1>2, <1>8 DEF Removed, FramesExist, NothingFails
  <2>3. frame' # NoView => frame'.session # 0
    BY <1>2 DEF FramesExist
  <2>4. fatal' # "fault"
    BY <1>2 DEF NothingFails, NoFault
  <2> QED
    BY <1>1, <1>2, <1>8, <2>1, <2>2, <2>3, <2>4 DEF FramesExist, NothingFails, NoFault, Removed
<1>11. SessionFirst'
  <2> SUFFICES ASSUME NEW i \in 1 .. Len(requests'), requests'[i].kind \in Navigation, session.id = 0
               PROVE  /\ stagedCurrent.kind = "create"
                      /\ \E j \in 1 .. (i - 1) : Yes(requests'[j], "current-ack", G)
    BY <1>1 DEF SessionFirst, G
  <2>1. i \in 1 .. Len(requests)
    BY <1>1, <1>4 DEF Navigation
  <2>2. stagedCurrent.kind = "create" /\ \E j \in 1 .. (i - 1) : Yes(requests[j], "current-ack", G)
    BY <1>2, <1>4, <2>1 DEF SessionFirst
  <2>3. PICK j \in 1 .. (i - 1) : Yes(requests[j], "current-ack", G)
    BY <2>2
  <2>4. j \in 1 .. Len(requests)
    BY <1>4, <2>1, <2>3
  <2> QED
    BY <1>4, <2>2, <2>3, <2>4
<1>12. Agreement'
  <2>1. CASE ~r.accepted
    <3>1. \A kind \in Verdicts : ~Yes(r, kind, G)
      BY <2>1 DEF Yes
    <3>2. \A kind \in Verdicts : Accepted(requests, kind, G) <=> Accepted(requests', kind, G)
      BY <1>3, <3>1, AcceptedLater
    <3>3. Settled' = Settled
      BY <1>1, <3>2, SettledStill
    <3> QED
      BY <1>2, <2>1, <3>3 DEF Agreement
  <2>2. CASE r.accepted
    <3>1. p.gen = G /\ Matches(p) /\ frame' = p.view
      BY <1>3, <2>2
    <3>2. Yes(requests'[n], r.kind, G) /\ n \in 1 .. Len(requests')
      BY <1>4, <2>2, <3>1 DEF Yes, n
    <3>3. Accepted(requests', r.kind, G)
      BY <3>2 DEF Accepted
    <3>4. /\ session.next <=> stagedNext # 0
          /\ session.next => stagedCurrent.kind = "none"
          /\ stagedNext \in {0, G}
          /\ stagedCurrent.kind # "none" => stagedCurrent.gen = G
      BY DEF WorkerInv, OneCandidate, NoCandidate
    <3>5. Settled' = SettledAt(session, stagedNext, stagedCurrent, requests')
      BY <1>1 DEF Settled, SettledAt, Accepting, Accepted, Yes
    <3>6. CASE p.kind = "commit"
      <4>1. /\ r.kind = "commit-ack" /\ stagedNext = G
            /\ p.view = [session |-> session.id, cursor |-> session.cursor + 1]
        BY <1>1, <3>1, <3>6 DEF Matches
      <4>2. stagedNext # 0 /\ stagedCurrent.kind = "none"
        BY <1>3, <3>1, <3>4, <4>1
      <4> QED
        BY <3>1, <3>3, <3>5, <4>1, <4>2 DEF SettledAt, Agreement
    <3>7. CASE p.kind = "ready"
      <4>1. /\ r.kind = "current-ack" /\ stagedCurrent = [kind |-> "create", gen |-> G, session |-> G]
            /\ p.view = [session |-> G, cursor |-> 0]
        BY <1>1, <3>1, <3>7 DEF Matches
      <4>2. stagedNext = 0 /\ stagedCurrent.kind = "create" /\ stagedCurrent.gen = G /\ stagedCurrent.session = G
        BY <3>4, <4>1
      <4> QED
        BY <3>1, <3>3, <3>5, <4>1, <4>2 DEF SettledAt, Agreement
    <3>8. CASE p.kind = "seeked"
      <4>1. /\ r.kind = "current-ack" /\ stagedCurrent.kind = "seek"
            /\ p.view = [session |-> session.id, cursor |-> session.seek.target]
        BY <1>1, <3>1, <3>8 DEF Matches
      <4>2. stagedNext = 0 /\ stagedCurrent.gen = G
        BY <3>4, <4>1
      <4> QED
        BY <3>1, <3>3, <3>5, <4>1, <4>2 DEF SettledAt, Agreement
    <3> QED
      BY <3>6, <3>7, <3>8 DEF Packets
  <2> QED
    BY <2>1, <2>2
<1> QED
  BY <1>6, <1>9, <1>10, <1>11, <1>12 DEF Both

\* The first answer leaves its port.
LEMMA AnswerTaken ==
    ASSUME WorkerInv, Both, responses # <<>>, responses' = Tail(responses)
    PROVE  /\ Head(responses) \in Responses
           /\ 1 <= Head(responses).gen /\ Head(responses).gen <= activeGeneration
           /\ activeGeneration <= generation
           /\ Head(responses).kind # "engine-error"
           /\ Head(responses).gen = activeGeneration => Matches(Head(responses))
           /\ Head(responses).kind \in Packets => Head(responses).view.session # 0
           /\ Head(responses).kind = "commit" /\ Head(responses).gen = generation => frame # NoView
           /\ \A k \in 1 .. Len(responses') : \E l \in 1 .. Len(responses) : responses'[k] = responses[l]
           /\ OneAtATime(requests, deferred, seekTimers, responses', decoding)
           /\ Idle(requests, deferred, seekTimers, responses', decoding, Head(responses).gen)
           /\ NoVerdict(requests, Head(responses).gen)
           /\ \A g : Idle(requests, deferred, seekTimers, responses, decoding, g)
                        => Idle(requests, deferred, seekTimers, responses', decoding, g)
<1>1. responses \in Seq(Responses)
  BY DEF WorkerInv, TypeOK
<1>2. /\ Len(responses) \in Nat /\ 1 <= Len(responses)
      /\ Head(responses) = responses[1] /\ Head(responses) \in Responses
      /\ Len(responses') = Len(responses) - 1
      /\ \A k \in 1 .. Len(responses') : responses'[k] = responses[k + 1]
  BY <1>1, Popped
<1>3. 1 \in 1 .. Len(responses)
  BY <1>2
<1>4. \A k \in 1 .. Len(responses') : \E l \in 1 .. Len(responses) : responses'[k] = responses[l]
  <2> SUFFICES ASSUME NEW k \in 1 .. Len(responses')
               PROVE  \E l \in 1 .. Len(responses) : responses'[k] = responses[l]
    OBVIOUS
  <2>1. k + 1 \in 1 .. Len(responses) /\ responses'[k] = responses[k + 1]
    BY <1>2
  <2> QED
    BY <2>1
<1>5. /\ OneAtATime(requests, deferred, seekTimers, responses', decoding)
      /\ Idle(requests, deferred, seekTimers, responses', decoding, Head(responses).gen)
      /\ NoVerdict(requests, Head(responses).gen)
      /\ \A g : Idle(requests, deferred, seekTimers, responses, decoding, g)
                   => Idle(requests, deferred, seekTimers, responses', decoding, g)
  BY <1>1, PopAnswer DEF Both, OneOutstanding
<1>6. /\ Head(responses).kind # "engine-error"
      /\ Head(responses).gen = activeGeneration => Matches(Head(responses))
      /\ Head(responses).kind \in Packets => Head(responses).view.session # 0
      /\ Head(responses).kind = "commit" /\ Head(responses).gen = generation => frame # NoView
  BY <1>2, <1>3 DEF Both, PacketsMatch, FramesExist, NothingFails
<1>7. /\ 1 <= Head(responses).gen /\ Head(responses).gen <= activeGeneration
      /\ activeGeneration <= generation
  BY <1>2, <1>3 DEF WorkerInv, AnswersServed
<1> QED
  BY <1>2, <1>4, <1>5, <1>6, <1>7

\* An answer without a frame, of this generation or of an older one.
LEMMA PlainBoth ==
    ASSUME WorkerInv, WorkerInv', Both, responses # <<>>, responses' = Tail(responses),
           UNCHANGED <<generation, decoding, fatal, requests, workerVars>>,
           \/ UNCHANGED <<frame, requestPending>>
           \/ frame' \in {frame, NoView} /\ Head(responses).gen = generation
    PROVE  Both'
<1> DEFINE h == Head(responses)
           G == activeGeneration
<1>1. UNCHANGED <<activeGeneration, session, stagedNext, stagedCurrent, navigating, deferred, seekTimers>>
  BY DEF workerVars
<1>2. OneOutstanding /\ PendingKnown /\ PacketsMatch /\ FramesExist /\ SessionFirst /\ NothingFails /\ Agreement
  BY DEF Both
<1>3. /\ h \in Responses /\ 1 <= h.gen /\ h.gen <= G /\ G <= generation
      /\ \A k \in 1 .. Len(responses') : \E l \in 1 .. Len(responses) : responses'[k] = responses[l]
      /\ OneAtATime(requests, deferred, seekTimers, responses', decoding)
      /\ Idle(requests, deferred, seekTimers, responses', decoding, h.gen)
      /\ NoVerdict(requests, h.gen)
      /\ \A g : Idle(requests, deferred, seekTimers, responses, decoding, g)
                   => Idle(requests, deferred, seekTimers, responses', decoding, g)
      /\ G \in Nat /\ generation \in Nat
  BY AnswerTaken DEF WorkerInv, TypeOK, Generations
<1> HIDE DEF h
<1>4. OneOutstanding' /\ PendingKnown'
  <2>1. ~requestPending' => Idle(requests, deferred, seekTimers, responses', decoding, generation)
    BY <1>2, <1>3 DEF PendingKnown, h
  <2> QED
    BY <1>1, <1>3, <2>1 DEF OneOutstanding, PendingKnown
<1>5. frame' = frame \/ (frame' = NoView /\ h.gen = generation)
  BY DEF h
<1>6. h.gen = generation => G = generation
  BY <1>3 DEF Responses, Generations
<1>7. PacketsMatch'
  <2>1. \A k \in 1 .. Len(responses') : responses'[k].gen = G' => Matches(responses[k])'
    <3> SUFFICES ASSUME NEW k \in 1 .. Len(responses'), responses'[k].gen = G'
                 PROVE  Matches(responses[k])'
      OBVIOUS
    <3>1. PICK l \in 1 .. Len(responses) : responses'[k] = responses[l]
      BY <1>3
    <3> QED
      BY <1>1, <1>2, <3>1 DEF PacketsMatch, Matches
  <2>2. \A d \in decoding' : d.packet.gen = G' => Matches(d.packet)'
    BY <1>1, <1>2 DEF PacketsMatch, Matches
  <2>3. \A i \in 1 .. Len(requests) : requests[i].gen = G /\ IsAck(requests[i]) /\ requests[i].accepted
            => frame' # NoView
    BY <1>2, <1>3, <1>5, <1>6 DEF PacketsMatch, NoVerdict
  <2> QED
    BY <1>1, <1>2, <2>1, <2>2, <2>3 DEF PacketsMatch
<1>8. FramesExist' /\ NothingFails'
  <2>1. \A i \in 1 .. Len(requests) : requests[i].kind = "next" /\ requests[i].gen = generation => frame' # NoView
    BY <1>2, <1>3, <1>5 DEF FramesExist, Idle, Asks, IsAck
  <2>2. \A k \in 1 .. Len(responses') :
          /\ responses'[k].kind \in Packets => responses'[k].view.session # 0
          /\ responses'[k].kind = "commit" /\ responses'[k].gen = generation => frame' # NoView
          /\ responses'[k].kind # "engine-error"
    <3> SUFFICES ASSUME NEW k \in 1 .. Len(responses')
                 PROVE  /\ responses'[k].kind \in Packets => responses'[k].view.session # 0
                        /\ responses'[k].kind = "commit" /\ responses'[k].gen = generation => frame' # NoView
                        /\ responses'[k].kind # "engine-error"
      OBVIOUS
    <3>1. PICK l \in 1 .. Len(responses) : responses'[k] = responses[l]
      BY <1>3
    <3>2. h.gen = generation => responses'[k].gen # generation
      BY <1>3 DEF Idle
    <3> QED
      BY <1>2, <1>5, <3>1, <3>2 DEF FramesExist, NothingFails
  <2>3. \A d \in decoding : d.packet.kind = "commit" /\ d.packet.gen = generation => frame' # NoView
    BY <1>2, <1>3, <1>5 DEF FramesExist, Idle
  <2> QED
    BY <1>1, <1>2, <1>5, <2>1, <2>2, <2>3 DEF FramesExist, NothingFails, NoFault
<1>9. Agreement' /\ SessionFirst'
  <2>1. Settled' = Settled
    BY <1>1, SettledStill
  <2> QED
    BY <1>1, <1>2, <1>5, <2>1 DEF Agreement, SessionFirst
<1> QED
  BY <1>4, <1>7, <1>8, <1>9 DEF Both

\* A packet moves on: from its port to the decoder, or from there to the replay.
LEMMA MovesOn ==
    ASSUME WorkerInv, WorkerInv', Both, NEW d, d.packet.kind \in Packets, d.packet.view.session # 0,
           NEW D, D \subseteq decoding, decoding' = D \cup {d},
           UNCHANGED <<generation, requestPending, frame, fatal, requests, workerVars>>,
           d.packet.kind = "commit" /\ d.packet.gen = generation => frame # NoView,
           d.packet.gen = activeGeneration => Matches(d.packet),
           d.base # NoView => d.base.cursor = d.packet.base /\ d.packet.kind = "commit",
           OneAtATime(requests, deferred, seekTimers, responses', D),
           Idle(requests, deferred, seekTimers, responses', D, d.packet.gen),
           NoVerdict(requests, d.packet.gen),
           ~requestPending => /\ Idle(requests, deferred, seekTimers, responses', D, generation)
                              /\ d.packet.gen # generation,
           \A k \in 1 .. Len(responses') : \E l \in 1 .. Len(responses) : responses'[k] = responses[l]
    PROVE  Both'
<1> DEFINE G == activeGeneration
<1>1. UNCHANGED <<activeGeneration, session, stagedNext, stagedCurrent, navigating, deferred, seekTimers>>
  BY DEF workerVars
<1>2. OneOutstanding /\ PendingKnown /\ PacketsMatch /\ FramesExist /\ SessionFirst /\ NothingFails /\ Agreement
  BY DEF Both
<1>3. OneOutstanding' /\ PendingKnown'
  <2>1. /\ OneAtATime(requests, deferred, seekTimers, responses', decoding')
        /\ \A g : Idle(requests, deferred, seekTimers, responses', D, g) /\ g # d.packet.gen
                    => Idle(requests, deferred, seekTimers, responses', decoding', g)
    BY OtherPlaces
  <2>2. ~requestPending => Idle(requests, deferred, seekTimers, responses', decoding', generation)
    BY <2>1
  <2> QED
    BY <1>1, <2>1, <2>2 DEF OneOutstanding, PendingKnown
<1>4. \A e \in decoding' : e \in decoding \/ e = d
  OBVIOUS
<1>5. PacketsMatch'
  <2>1. \A k \in 1 .. Len(responses') : responses'[k].gen = G' => Matches(responses[k])'
    <3> SUFFICES ASSUME NEW k \in 1 .. Len(responses'), responses'[k].gen = G'
                 PROVE  Matches(responses[k])'
      OBVIOUS
    <3>1. PICK l \in 1 .. Len(responses) : responses'[k] = responses[l]
      OBVIOUS
    <3> QED
      BY <1>1, <1>2, <3>1 DEF PacketsMatch, Matches
  <2>2. \A e \in decoding' : e.packet.gen = G' => Matches(e.packet)'
    <3> SUFFICES ASSUME NEW e \in decoding', e.packet.gen = G' PROVE Matches(e.packet)'
      OBVIOUS
    <3>1. Matches(e.packet)
      BY <1>1, <1>2, <1>4 DEF PacketsMatch
    <3> QED
      BY <1>1, <3>1 DEF Matches
  <2> QED
    BY <1>1, <1>2, <2>1, <2>2 DEF PacketsMatch
<1>6. FramesExist' /\ NothingFails'
  <2>1. \A k \in 1 .. Len(responses') :
          /\ responses'[k].kind \in Packets => responses'[k].view.session # 0
          /\ responses'[k].kind = "commit" /\ responses'[k].gen = generation => frame # NoView
          /\ responses'[k].kind # "engine-error"
    BY <1>2 DEF FramesExist, NothingFails
  <2>2. \A e \in decoding' :
          /\ e.packet.view.session # 0
          /\ e.packet.kind = "commit" /\ e.packet.gen = generation => frame # NoView
          /\ e.base # NoView => e.base.cursor = e.packet.base /\ e.packet.kind = "commit"
          /\ e.packet.kind # "engine-error"
    BY <1>2, <1>4 DEF FramesExist, NothingFails, Packets
  <2> QED
    BY <1>1, <1>2, <2>1, <2>2 DEF FramesExist, NothingFails, NoFault
<1>7. Agreement' /\ SessionFirst'
  <2>1. Settled' = Settled
    BY <1>1, SettledStill
  <2> QED
    BY <1>1, <1>2, <2>1 DEF Agreement, SessionFirst
<1> QED
  BY <1>3, <1>5, <1>6, <1>7 DEF Both

LEMMA ReceiveBoth == WorkerInv /\ WorkerInv' /\ Both /\ Receive => Both'
<1> SUFFICES ASSUME WorkerInv, WorkerInv', Both, Receive PROVE Both'
  OBVIOUS
<1> DEFINE h == Head(responses)
<1>1. responses # <<>> /\ responses' = Tail(responses)
  BY DEF Receive, DropAnswer, ReceivePacket, ReceiveAnswer
<1>2. /\ h \in Responses /\ 1 <= h.gen /\ h.gen <= activeGeneration /\ activeGeneration <= generation
      /\ h.kind # "engine-error"
      /\ h.gen = activeGeneration => Matches(h)
      /\ h.kind \in Packets => h.view.session # 0
      /\ h.kind = "commit" /\ h.gen = generation => frame # NoView
      /\ \A k \in 1 .. Len(responses') : \E l \in 1 .. Len(responses) : responses'[k] = responses[l]
      /\ OneAtATime(requests, deferred, seekTimers, responses', decoding)
      /\ Idle(requests, deferred, seekTimers, responses', decoding, h.gen)
      /\ NoVerdict(requests, h.gen)
      /\ \A g : Idle(requests, deferred, seekTimers, responses, decoding, g)
                   => Idle(requests, deferred, seekTimers, responses', decoding, g)
  BY <1>1, AnswerTaken
<1>3. CASE DropAnswer
  <2>1. h.gen # generation /\ UNCHANGED <<clientVars, workerVars>>
    BY <1>3 DEF DropAnswer, Current
  <2>2. CASE h.kind \in Packets
    <3>1. \E verdict \in BOOLEAN : ~verdict /\ requests' = Append(requests, Ack(AckKind(h), h.gen, verdict))
      BY <1>3, <2>2 DEF DropAnswer, Verdict, Post
    <3>2. PICK verdict \in BOOLEAN : ~verdict /\ requests' = Append(requests, Ack(AckKind(h), h.gen, verdict))
      BY <3>1
    <3>3. h.gen \in Generations /\ AckKind(h) \in {"current-ack", "commit-ack"}
      BY <1>2 DEF Responses, AckKind
    <3>4. PICK r \in Requests : r = Ack(AckKind(h), h.gen, verdict)
      BY <3>3, Values
    <3>5. r.kind = AckKind(h) /\ r.gen = h.gen /\ r.accepted = verdict
      BY <3>4, AckRecord
    <3>6. Removed(h)
      BY <1>2, <2>1 DEF Removed, clientVars
    <3> HIDE DEF h
    <3> QED
      BY <1>2, <2>1, <2>2, <3>2, <3>4, <3>5, <3>6, VerdictBoth DEF clientVars
  <2>3. CASE h.kind \notin Packets
    <3>1. UNCHANGED requests
      BY <1>3, <2>3 DEF DropAnswer
    <3> QED
      BY <1>1, <2>1, <3>1, PlainBoth DEF clientVars
  <2> QED
    BY <2>2, <2>3
<1>4. CASE ReceiveAnswer
  <2>1. /\ h.gen = generation /\ frame' \in {frame, NoView} /\ fatal' = fatal
        /\ UNCHANGED <<generation, decoding, requests, workerVars>>
    BY <1>2, <1>4 DEF ReceiveAnswer, Current
  <2> QED
    BY <1>1, <2>1, PlainBoth
<1>5. CASE ReceivePacket
  <2>1. /\ h.gen = generation /\ h.kind \in Packets
        /\ decoding' = decoding \cup {[packet |-> h, base |-> NoView]}
        /\ UNCHANGED <<generation, requestPending, frame, fatal, requests, workerVars>>
    BY <1>5 DEF ReceivePacket, Current
  <2>2. PICK d : d = [packet |-> h, base |-> NoView]
    OBVIOUS
  <2>3. d.packet = h /\ d.base = NoView
    BY <2>2
  <2>4. ~requestPending => FALSE
    <3>1. responses \in Seq(Responses) /\ h = responses[1] /\ 1 \in 1 .. Len(responses)
      BY <1>1, Popped DEF WorkerInv, TypeOK
    <3> QED
      BY <2>1, <3>1 DEF Both, PendingKnown, Idle
  <2> HIDE DEF h
  <2> QED
    BY <1>2, <2>1, <2>2, <2>3, <2>4, MovesOn
<1> QED
  BY <1>3, <1>4, <1>5 DEF Receive

LEMMA FinishBoth ==
    ASSUME WorkerInv, WorkerInv', Both, NEW d \in decoding, Finish(d) \/ Invalid(d)
    PROVE  Both'
<1> DEFINE p == d.packet
           G == activeGeneration
           D == decoding \ {d}
<1>1. OneOutstanding /\ PendingKnown /\ PacketsMatch /\ FramesExist /\ SessionFirst /\ NothingFails /\ Agreement
  BY DEF Both
<1>2. /\ p \in Responses /\ d = [packet |-> p, base |-> d.base] /\ frame \in Views
      /\ p.gen \in Generations /\ generation \in Nat /\ G \in Nat /\ p.gen \in Nat
  BY DEF WorkerInv, TypeOK, Responses, Generations
<1>3. /\ p.kind \in Packets /\ 1 <= p.gen /\ p.gen <= G /\ G <= generation
      /\ p.view.session # 0
      /\ p.gen = G => Matches(p)
      /\ p.kind = "commit" /\ p.gen = generation => frame # NoView
      /\ d.base # NoView => d.base.cursor = p.base /\ p.kind = "commit"
  BY <1>1 DEF WorkerInv, AnswersServed, FramesExist, PacketsMatch, NothingFails
<1>4. /\ OneAtATime(requests, deferred, seekTimers, responses, D)
      /\ Idle(requests, deferred, seekTimers, responses, D, p.gen) /\ NoVerdict(requests, p.gen)
      /\ \A g : Idle(requests, deferred, seekTimers, responses, decoding, g)
                   => Idle(requests, deferred, seekTimers, responses, D, g)
  BY <1>1, OtherPlaces DEF OneOutstanding
<1>5. UNCHANGED <<generation, responses, workerVars>>
  BY DEF Finish, Decoded, Replayed, Invalid
<1>6. Current(p) <=> p.gen = generation
  BY DEF Current
<1> HIDE DEF p, D
<1>7. \/ /\ p.gen = generation /\ p.kind = "commit" /\ frame # NoView /\ d.base = NoView
         /\ decoding' = D \cup {[d EXCEPT !.base = frame]}
         /\ UNCHANGED <<frame, requestPending, fatal, requests>>
      \/ /\ decoding' = D
         /\ \E verdict \in BOOLEAN :
             /\ requests' = Append(requests, Ack(AckKind(p), p.gen, verdict))
             /\ verdict => p.gen = generation /\ frame' = p.view /\ fatal' = fatal
             /\ ~verdict => frame' = frame /\ fatal' \in {fatal, "packet"}
             /\ requestPending' = requestPending \/ p.gen = generation
  <2>1. ASSUME Show(d), p.gen = generation, decoding' = D
        PROVE  /\ decoding' = D
               /\ \E verdict \in BOOLEAN :
                   /\ requests' = Append(requests, Ack(AckKind(p), p.gen, verdict))
                   /\ verdict => p.gen = generation /\ frame' = p.view /\ fatal' = fatal
                   /\ ~verdict => frame' = frame /\ fatal' \in {fatal, "packet"}
                   /\ requestPending' = requestPending \/ p.gen = generation
    <3>1. \E verdict \in BOOLEAN : verdict /\ requests' = Append(requests, Ack(AckKind(p), p.gen, verdict))
      BY <2>1, Zenon DEF Show, Verdict, Post, p
    <3>2. frame' = p.view /\ fatal' = fatal
      BY <2>1 DEF Show, p
    <3> QED
      BY <2>1, <3>1, <3>2
  <2>2. ASSUME NEW reason, Refuse(d, reason), p.gen # generation \/ reason = "packet", decoding' = D
        PROVE  /\ decoding' = D
               /\ \E verdict \in BOOLEAN :
                   /\ requests' = Append(requests, Ack(AckKind(p), p.gen, verdict))
                   /\ verdict => p.gen = generation /\ frame' = p.view /\ fatal' = fatal
                   /\ ~verdict => frame' = frame /\ fatal' \in {fatal, "packet"}
                   /\ requestPending' = requestPending \/ p.gen = generation
    <3>1. \E verdict \in BOOLEAN : ~verdict /\ requests' = Append(requests, Ack(AckKind(p), p.gen, verdict))
      BY <2>2, Zenon DEF Refuse, Verdict, Post, p
    <3>2. frame' = frame /\ fatal' \in {fatal, "packet"} /\ (requestPending' = requestPending \/ p.gen = generation)
      BY <1>6, <2>2 DEF Refuse, p
    <3> QED
      BY <2>2, <3>1, <3>2
  <2>3. CASE Decoded(d)
    <3>1. CASE p.gen = generation /\ p.kind = "commit" /\ frame # NoView
      BY <1>6, <2>3, <3>1 DEF Decoded, p, D
    <3>2. CASE p.gen = generation /\ p.kind # "commit"
      <4>1. Show(d) /\ decoding' = D
        BY <1>6, <2>3, <3>2 DEF Decoded, p, D
      <4> QED
        BY <2>1, <3>2, <4>1
    <3>3. CASE p.gen # generation
      <4>1. Refuse(d, "fault") /\ decoding' = D
        BY <1>6, <2>3, <3>3 DEF Decoded, p, D
      <4> QED
        BY <2>2, <3>3, <4>1
    <3> QED
      BY <1>3, <3>1, <3>2, <3>3
  <2>4. CASE Replayed(d)
    <3>1. decoding' = D /\ (IF p.gen = generation THEN Show(d) ELSE Refuse(d, "fault"))
      BY <1>3, <1>6, <2>4 DEF Replayed, p, D
    <3> QED
      BY <2>1, <2>2, <3>1
  <2>5. CASE Invalid(d)
    <3>1. decoding' = D /\ Refuse(d, "packet")
      BY <2>5 DEF Invalid, D
    <3> QED
      BY <2>2, <3>1
  <2> QED
    BY <2>3, <2>4, <2>5 DEF Finish
<1>8. \A k \in 1 .. Len(responses') : \E l \in 1 .. Len(responses) : responses'[k] = responses[l]
  BY <1>5
<1>9. \A e \in D : e \in decoding
  BY DEF D
<1>10. CASE /\ p.gen = generation /\ p.kind = "commit" /\ frame # NoView /\ d.base = NoView
            /\ decoding' = D \cup {[d EXCEPT !.base = frame]}
            /\ UNCHANGED <<frame, requestPending, fatal, requests>>
  <2>1. PICK e : e = [d EXCEPT !.base = frame]
    OBVIOUS
  <2>2. e.packet = p /\ e.base = frame
    BY <1>2, <2>1
  <2>3. p.gen = G /\ Matches(p)
    BY <1>2, <1>3, <1>10
  <2>4. frame.cursor = p.base
    <3>1. \A kind \in Verdicts : ~Accepted(requests, kind, G)
      BY <1>4, <2>3, NotAccepted
    <3>2. Settled = View(session)
      BY <3>1, SettledIs, SettledPlain DEF WorkerInv, OneCandidate
    <3> QED
      BY <1>1, <1>10, <2>3, <3>2 DEF Agreement, Matches, View
  <2>5. requestPending
    BY <1>1, <1>10 DEF PendingKnown, Idle, p
  <2>6. decoding' = D \cup {e} /\ D \subseteq decoding
    BY <1>9, <1>10, <2>1
  <2> QED
    BY <1>3, <1>4, <1>5, <1>8, <1>10, <2>2, <2>3, <2>4, <2>5, <2>6, MovesOn
<1>11. CASE /\ decoding' = D
            /\ \E verdict \in BOOLEAN :
                /\ requests' = Append(requests, Ack(AckKind(p), p.gen, verdict))
                /\ verdict => p.gen = generation /\ frame' = p.view /\ fatal' = fatal
                /\ ~verdict => frame' = frame /\ fatal' \in {fatal, "packet"}
                /\ requestPending' = requestPending \/ p.gen = generation
  <2>1. PICK verdict \in BOOLEAN :
                /\ requests' = Append(requests, Ack(AckKind(p), p.gen, verdict))
                /\ verdict => p.gen = generation /\ frame' = p.view /\ fatal' = fatal
                /\ ~verdict => frame' = frame /\ fatal' \in {fatal, "packet"}
                /\ requestPending' = requestPending \/ p.gen = generation
    BY <1>11
  <2>2. AckKind(p) \in {"current-ack", "commit-ack"}
    BY DEF AckKind
  <2>3. PICK r \in Requests : r = Ack(AckKind(p), p.gen, verdict)
    BY <1>2, <2>2, Values
  <2>4. r.kind = AckKind(p) /\ r.gen = p.gen /\ r.accepted = verdict
    BY <2>3, AckRecord
  <2>5. Removed(p)
    BY <1>4, <1>5, <1>8, <1>9, <1>11 DEF Removed
  <2> QED
    BY <1>2, <1>3, <1>5, <2>1, <2>3, <2>4, <2>5, VerdictBoth
<1> QED
  BY <1>7, <1>10, <1>11

LEMMA InitiallyBoth == Init => Both
<1> SUFFICES ASSUME Init PROVE Both
  OBVIOUS
<1> USE DEF Init
<1>1. OneOutstanding /\ PendingKnown
  BY DEF OneOutstanding, OneAtATime, PendingKnown, Idle, NoRequest
<1>2. PacketsMatch /\ FramesExist /\ SessionFirst /\ NothingFails /\ Agreement
  BY DEF PacketsMatch, FramesExist, SessionFirst, NothingFails, NoFault, Agreement
<1> QED
  BY <1>1, <1>2 DEF Both

LEMMA StutterBoth == Both /\ UNCHANGED vars => Both'
  BY DEF Both, OneOutstanding, PendingKnown, PacketsMatch, FramesExist, SessionFirst, NothingFails,
         Agreement, NoFault, Matches, Settled, Accepting, View, vars, clientVars, workerVars

\* The Worker serves a request without moving its session, or a verdict.
LEMMA Serves ==
    WorkerInv /\ Both /\ Serve => DropStale \/ Defer \/ AskServed \/ VerdictServed
  BY CreateServed, EditServed, NextServed, SeekServed, CurrentAckServed, CommitAckServed DEF Serve

LEMMA BothStep == WorkerInv /\ WorkerInv' /\ Both /\ [Next]_vars => Both'
<1> SUFFICES ASSUME WorkerInv, WorkerInv', Both, [Next]_vars PROVE Both'
  OBVIOUS
<1>1. CASE User
  BY <1>1, UserPosts, AskBoth
<1>2. CASE Serve
  BY <1>2, Serves, DropPasses, DeferPasses, AskKeeps, VerdictKeeps
<1>3. CASE \E g \in Generations : SeekTimer(g)
  BY <1>3, TimerFires, TimerBoth
<1>4. CASE Receive
  BY <1>4, ReceiveBoth
<1>5. CASE \E d \in decoding : Finish(d) \/ Invalid(d)
  BY <1>5, FinishBoth
<1>6. CASE UNCHANGED vars
  BY <1>6, StutterBoth
<1> QED
  BY <1>1, <1>2, <1>3, <1>4, <1>5, <1>6 DEF Next

LEMMA BothInvariant == Spec => [](WorkerInv /\ Both)
<1>1. Init => WorkerInv /\ Both
  BY Initially, InitiallyBoth
<1>2. WorkerInv /\ Both /\ [Next]_vars => (WorkerInv /\ Both)'
  BY WorkerStep, BothStep
<1> QED
  BY <1>1, <1>2, PTL DEF Spec

\* Whatever the order of requests, verdicts and answers, a frame on screen is the
\* boundary of the Worker's session, up to the acceptances under way.
THEOREM AgreementAlways == Spec => []Agreement
<1>1. WorkerInv /\ Both => Agreement
  BY DEF Both
<1> QED
  BY <1>1, BothInvariant, PTL

\* No handler of either side ever finds a state it reports as an engine fault.
THEOREM NoFaultAlways == Spec => []NoFault
<1>1. WorkerInv /\ Both => NoFault
  BY DEF Both, NothingFails
<1> QED
  BY <1>1, BothInvariant, PTL

\* The session moves only when a verdict is served.
LEMMA MovesByVerdict ==
    WorkerInv /\ Both /\ WorkerInv' /\ [Next]_vars => (View(session') # View(session) => frame = View(session'))
<1> SUFFICES ASSUME WorkerInv, Both, WorkerInv', [Next]_vars, View(session') # View(session)
             PROVE  frame = View(session')
  OBVIOUS
<1>1. session' # session
  OBVIOUS
<1>2. Serve \/ \E g \in Generations : SeekTimer(g)
  BY <1>1 DEF Next, User, Load, Edit, Seek, StepForward, OpenGeneration, Receive, DropAnswer, ReceivePacket,
              ReceiveAnswer, Finish, Decoded, Replayed, Invalid, vars, workerVars
<1>3. CASE Serve
  <2>1. ~DropStale /\ ~Defer
    BY <1>1 DEF DropStale, Defer, workerVars
  <2>2. ~AskServed
    BY DEF AskServed, View
  <2>3. VerdictServed
    BY <1>3, <2>1, <2>2, Serves
  <2> QED
    BY <2>3, VerdictKeeps
<1>4. CASE \E g \in Generations : SeekTimer(g)
  BY <1>4, TimerFires DEF TimerFired, View
<1> QED
  BY <1>2, <1>3, <1>4

\* A session is never moved, by an acceptance, a cancelled seek or a withdrawn step,
\* to a boundary that is not already on screen.
THEOREM PublishedFirstAlways == Spec => PublishedFirst
<1>1. WorkerInv /\ Both /\ (WorkerInv /\ Both)' /\ [Next]_vars
        => [View(session') # View(session) => frame = View(session')]_vars
  BY MovesByVerdict
<1> QED
  BY <1>1, BothInvariant, PTL DEF Spec, PublishedFirst
=================================================================================
