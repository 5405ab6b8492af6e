------------------------- MODULE FlowPublicationProofs -------------------------
(***************************************************************************)
(* The scene on screen and the session in the Worker agree, one candidate   *)
(* at most is staged, and no parked navigation is forgotten, for every       *)
(* bound on the generations, the serials and the events: FlowInv is          *)
(* inductive for the specification in which the user does not edit during a  *)
(* request.                                                                  *)
(*                                                                          *)
(* FlowInv has three parts.  Joint relates the requests q, the Worker w, the *)
(* publications being decoded dec and the generation g and serial s of the   *)
(* client: every job is in one place, what the client still takes is still   *)
(* offered by the Worker, and nothing in the port would withdraw it.         *)
(* Controlled says what the status and the timer know of the jobs under way. *)
(* Sees says that the scene is what the Worker settles on.                   *)
(***************************************************************************)
EXTENDS FlowPublication, TLAPS

(***************************************************************************)
(* The Worker                                                               *)
(***************************************************************************)
Workers ==
    [activeGeneration : Generations, session : Sessions, stagedFlowCurrent : Ids,
     stagedFlowEvent : Owners, stagedFlowSeek : Owners, seekOperation : Ids,
     navigation : Ids, deferred : Requests, encodings : SUBSET Encodings,
     answers : Seq(Answers)]

IsNav(r) == r.kind \in Navigation
IsAck(r) == r.kind = "ack"

\* Names of requests of a generation up to g and a serial up to s.
Named(i, g, s) == 1 <= i.gen /\ i.gen <= g /\ i.serial <= s

\* The status of the client while such an answer is under way.
AnsJob(a) ==
    IF a.kind = "ready" \/ a.source = "create" THEN "loading"
    ELSE IF a.kind \in {"update", "ended"} \/ a.source = "input" THEN "solving"
    ELSE IF a.kind = "prepared" \/ a.source = "configure" THEN "configuring" ELSE "none"

RequestForm(r) ==
    /\ r.kind # "none"
    /\ IsNav(r) => r.id.serial > 0
    /\ ~IsNav(r) /\ ~IsAck(r) => r.id.serial = 0
    /\ IsAck(r) /\ r.accepted => r = Ack(r.id, TRUE)
EncodingForm(e) ==
    /\ e.kind = "create" => e.id.serial = 0 /\ e.view = View(e.id.gen, 0, FALSE)
    /\ e.kind # "create" => e.id.serial > 0 /\ e.view.session # 0
    /\ e.kind = "next" => e.view.prepared
AnswerForm(a) ==
    /\ AnsJob(a) = "solving" => a.id.serial > 0
    /\ AnsJob(a) \in {"loading", "configuring"} => a.id.serial = 0
    /\ a.kind = "error" <=> a.source # "none"

WorkerForm(w, s) ==
    /\ \A k \in 1 .. Len(w.answers) :
        Named(w.answers[k].id, w.activeGeneration, s) /\ AnswerForm(w.answers[k])
    /\ \A e \in w.encodings :
        Named(e.id, w.activeGeneration, s) /\ EncodingForm(e) /\ e.view.session <= w.activeGeneration
    /\ w.deferred # NoRequest =>
        IsNav(w.deferred) /\ RequestForm(w.deferred) /\ Named(w.deferred.id, w.activeGeneration, s)
    /\ w.session.id <= w.activeGeneration
    /\ w.session.id = 0 => w.session = NoSession

\* A navigation of the active generation that is being encoded is the only one. A
\* scenario being encoded is newer than every session and has its generation to
\* itself.
EncodingInv(w) ==
    /\ \A e \in w.encodings : e.kind # "create" /\ e.id.gen = w.activeGeneration =>
        /\ w.navigation = e.id
        /\ \A f \in w.encodings : f.kind # "create" /\ f.id.gen = w.activeGeneration => e = f
    /\ \A e \in w.encodings : e.kind = "create" =>
        /\ w.session.id # e.id.gen
        /\ w.stagedFlowCurrent # e.id
        /\ w.deferred = NoRequest \/ w.deferred.id.gen # e.id.gen
        /\ \A f \in w.encodings : f.kind # "create" => f.view.session # e.id.gen
        /\ e.id.gen = w.activeGeneration => ~Blocked(w)

\* One publication awaits its verdict, and its session is the one at hand.
StagedInv(w) ==
    /\ w.navigation # NoId => ~Pending(w)
    /\ w.stagedFlowCurrent # NoId =>
        /\ w.stagedFlowCurrent = Id(w.activeGeneration, 0)
        /\ w.session.id # w.activeGeneration
        /\ \A f \in w.encodings : f.kind # "create" => f.view.session # w.activeGeneration
        /\ w.stagedFlowEvent = Nobody /\ w.stagedFlowSeek = Nobody
    /\ w.stagedFlowEvent # Nobody =>
        /\ w.stagedFlowEvent.session = w.session.id /\ w.session.next # Nothing
        /\ w.stagedFlowEvent.id.gen = w.activeGeneration /\ w.stagedFlowEvent.id.serial > 0
        /\ w.stagedFlowSeek = Nobody
    /\ w.stagedFlowSeek # Nobody =>
        /\ w.stagedFlowSeek.session = w.session.id /\ w.session.seek # Nothing
        /\ w.stagedFlowSeek.id.gen = w.activeGeneration /\ w.stagedFlowSeek.id.serial > 0
        /\ w.session.next = Nothing

\* A staged step is held by its coordinator or by its suspended handler, and by one
\* of them.
StepInv(w) ==
    /\ w.session.next # Nothing =>
        \/ w.stagedFlowEvent # Nobody
        \/ \E e \in w.encodings :
              e.kind = "next" /\ e.view.session = w.session.id /\ e.view.cursor = w.session.next
    /\ \A e \in w.encodings : e.kind = "next" /\ e.view.session = w.session.id =>
        /\ w.session.next = e.view.cursor /\ w.stagedFlowEvent = Nobody
        /\ \A f \in w.encodings : f.kind = "next" /\ f.view.session = w.session.id => f = e

\* The handler of the seek in hand.
SeeksFor(w, e) ==
    /\ e.kind = "seek" /\ e.view.session = w.session.id
    /\ e.id = w.seekOperation /\ e.id.gen = w.activeGeneration
SeekInv(w) ==
    /\ w.session.seek # Nothing =>
        \/ w.stagedFlowSeek # Nobody
        \/ \E e \in w.encodings : SeeksFor(w, e) /\ e.view.cursor = w.session.seek
    /\ \A e \in w.encodings : SeeksFor(w, e) =>
        /\ w.session.seek = e.view.cursor /\ w.session.prepared = e.view.prepared
        /\ w.session.next = Nothing

WorkerInv(w, s) ==
    /\ w \in Workers
    /\ WorkerForm(w, s) /\ EncodingInv(w) /\ StagedInv(w) /\ StepInv(w) /\ SeekInv(w)

(***************************************************************************)
(* Launching a navigation                                                   *)
(***************************************************************************)

\* What the Worker and the navigation are when it is launched.
LaunchReady(w, r, s) ==
    /\ w \in Workers /\ r \in Requests /\ s \in Nat
    /\ IsNav(r) /\ RequestForm(r) /\ Named(r.id, w.activeGeneration, s)
    /\ r.id.gen = w.activeGeneration
    /\ WorkerForm(w, s) /\ EncodingInv(w) /\ StepInv(w)
    /\ w.navigation = NoId /\ w.stagedFlowCurrent = NoId /\ w.stagedFlowEvent = Nobody
    /\ \A e \in w.encodings : e.kind = "create" => e.id.gen # w.activeGeneration
    /\ r.kind = "next" => w.stagedFlowSeek = Nobody /\ SeekInv(w)
    /\ w.session.id = 0 => w.stagedFlowSeek = Nobody

Standing(w) == View(w.session.id, w.session.cursor, w.session.prepared)

\* A launched navigation is answered at once or being encoded.
Launched(w, r, o) ==
    LET x == o.worker
    IN /\ x.activeGeneration = w.activeGeneration /\ x.deferred = w.deferred
       /\ ~Pending(x) /\ Standing(x) = Standing(w)
       /\ \/ /\ x.encodings = w.encodings /\ x.answers = w.answers
             /\ o.raised \in {"input", "refused"} /\ x.navigation = NoId
          \/ /\ x.encodings = w.encodings /\ o.raised = "none" /\ x.navigation = NoId
             /\ \E a \in {Answer("ended", r.id), Failure(r.id, "input")} :
                  x.answers = Append(w.answers, a)
          \/ /\ x.answers = w.answers /\ o.raised = "none" /\ x.navigation = r.id
             /\ \E e \in Encodings :
                  e.kind # "create" /\ e.id = r.id /\ x.encodings = w.encodings \cup {e}

\* One more answer, named and formed as the others are.
LEMMA AppendedForms ==
    ASSUME NEW seq \in Seq(Answers), NEW a \in Answers, NEW g, NEW s,
           \A k \in 1 .. Len(seq) : Named(seq[k].id, g, s) /\ AnswerForm(seq[k]),
           Named(a.id, g, s), AnswerForm(a)
    PROVE  /\ Append(seq, a) \in Seq(Answers)
           /\ \A k \in 1 .. Len(Append(seq, a)) :
                Named(Append(seq, a)[k].id, g, s) /\ AnswerForm(Append(seq, a)[k])
OBVIOUS

\* How a navigation that staged nothing is answered.
LEMMA NavigationAnswers ==
    ASSUME NEW r \in Requests, IsNav(r), RequestForm(r),
           NEW a \in {Answer("ended", r.id), Failure(r.id, "input")}
    PROVE  a \in Answers /\ AnswerForm(a) /\ a.id = r.id
<1>1. \/ a = [kind |-> "ended", id |-> r.id, view |-> NoView, source |-> "none"]
      \/ a = [kind |-> "error", id |-> r.id, view |-> NoView, source |-> "input"]
  BY DEF Failure, Answer, Packet
<1>2. NoView \in Views /\ r.id \in Ids /\ r.id.serial > 0
  BY FlowAssumption DEF NoView, View, Views, Cursors, Generations, Requests, RequestForm
<1> QED
  BY <1>1, <1>2 DEF Answers, AnswerForm, AnsJob

\* runNext up to its await.
LEMMA NextLaunches ==
    ASSUME NEW w, NEW r, NEW s, LaunchReady(w, r, s), r.kind = "next",
           NEW o \in LaunchNext(w, r)
    PROVE  WorkerInv(o.worker, s) /\ Launched(w, r, o)
<1> USE FlowAssumption
<1> DEFINE x == o.worker
           over == [w EXCEPT !.navigation = NoId]
           target == w.session.cursor + 1
<1>0. w \in Workers /\ r \in Requests /\ s \in Nat /\ w.session \in Sessions
      /\ w.session.cursor \in Cursors
  BY DEF LaunchReady, Workers, Sessions
<1>a. over = w
  BY <1>0 DEF LaunchReady, Workers
<1>1. CASE w.session.id = 0 \/ w.session.next # Nothing
  <2>1. o = Outcome(w, "refused")
    BY <1>1, <1>a DEF LaunchNext
  <2>2. x = w /\ o.raised = "refused"
    BY <2>1 DEF Outcome
  <2>3. StagedInv(w)
    BY DEF LaunchReady, StagedInv
  <2> QED
    BY <2>2, <2>3 DEF LaunchReady, WorkerInv, Launched, Pending
<1>2. CASE ~(w.session.id = 0 \/ w.session.next # Nothing) /\ target > EventCount
  <2> DEFINE a == Answer("ended", r.id)
  <2>1. o = Outcome(Respond(w, a), "none")
    BY <1>2, <1>a DEF LaunchNext
  <2>2. /\ a \in Answers /\ AnswerForm(a) /\ Named(a.id, w.activeGeneration, s)
    <3>1. a \in {Answer("ended", r.id), Failure(r.id, "input")}
      OBVIOUS
    <3> HIDE DEF a
    <3> QED
      BY <1>0, <3>1, NavigationAnswers DEF LaunchReady
  <2>3. /\ Append(w.answers, a) \in Seq(Answers)
        /\ \A k \in 1 .. Len(Append(w.answers, a)) :
             Named(Append(w.answers, a)[k].id, w.activeGeneration, s) /\ AnswerForm(Append(w.answers, a)[k])
    BY <1>0, <2>2, AppendedForms DEF LaunchReady, WorkerForm, Workers
  <2>4. /\ x = [w EXCEPT !.answers = Append(w.answers, a)] /\ o.raised = "none"
    BY <2>1 DEF Outcome, Respond
  <2> HIDE DEF a, x
  <2>5. /\ x \in Workers
        /\ x.activeGeneration = w.activeGeneration /\ x.session = w.session
        /\ x.stagedFlowCurrent = w.stagedFlowCurrent
        /\ x.stagedFlowEvent = w.stagedFlowEvent /\ x.stagedFlowSeek = w.stagedFlowSeek
        /\ x.seekOperation = w.seekOperation /\ x.navigation = w.navigation
        /\ x.deferred = w.deferred /\ x.encodings = w.encodings /\ x.answers = Append(w.answers, a)
    BY <1>0, <2>3, <2>4 DEF Workers
  <2>6. WorkerForm(x, s)
    BY <2>3, <2>5 DEF LaunchReady, WorkerForm
  <2>7. EncodingInv(x) /\ StepInv(x) /\ SeekInv(x)
    BY <1>2, <2>5 DEF LaunchReady, EncodingInv, StepInv, SeekInv, SeeksFor, Blocked, Pending
  <2>8. StagedInv(x) /\ ~Pending(x)
    BY <2>5 DEF LaunchReady, StagedInv, Pending
  <2>9. Launched(w, r, o)
    BY <2>4, <2>5, <2>8 DEF Launched, Standing, x, a, LaunchReady
  <2> QED
    BY <2>5, <2>6, <2>7, <2>8, <2>9 DEF WorkerInv, x
<1>3. CASE ~(w.session.id = 0 \/ w.session.next # Nothing) /\ ~(target > EventCount)
  <2> DEFINE v == View(w.session.id, target, TRUE)
             e == Encoding("next", r.id, v)
             y == [Suspend(w, r, v) EXCEPT !.session.next = target]
  <2>1. o = Outcome(w, "input") \/ o = Outcome(y, "none")
    BY <1>3, <1>a DEF LaunchNext
  <2>2. CASE o = Outcome(w, "input")
    <3>1. x = w /\ o.raised = "input"
      BY <2>2 DEF Outcome
    <3>2. StagedInv(w)
      BY DEF LaunchReady, StagedInv
    <3> QED
      BY <3>1, <3>2 DEF LaunchReady, WorkerInv, Launched, Pending
  <2>3. CASE o = Outcome(y, "none")
    <3>1. /\ v.session = w.session.id /\ v.cursor = target /\ v.prepared = TRUE
          /\ target \in Cursors /\ v \in Views /\ r.id \in Ids
      BY <1>0, <1>3 DEF View, Views, Sessions, Cursors, Requests
    <3>2. e \in Encodings /\ e.kind = "next" /\ e.id = r.id /\ e.view = v
      BY <3>1 DEF Encoding, Encodings, Navigation
    <3>3. x = y /\ o.raised = "none"
      BY <2>3 DEF Outcome
    <3>4. y = [w EXCEPT !.navigation = r.id, !.encodings = w.encodings \cup {e},
                        !.session = [w.session EXCEPT !.next = target]]
      BY <1>0, LaunchReady(w, r, s) DEF Suspend, LaunchReady
    <3> HIDE DEF x, y, e, v
    <3>5. /\ x.session = [w.session EXCEPT !.next = target]
          /\ x.session \in Sessions
          /\ x.session.id = w.session.id /\ x.session.cursor = w.session.cursor
          /\ x.session.prepared = w.session.prepared /\ x.session.seek = w.session.seek
          /\ x.session.next = target
      BY <1>0, <3>1, <3>3, <3>4 DEF Workers, Sessions
    <3>6. /\ x \in Workers
          /\ x.activeGeneration = w.activeGeneration
          /\ x.stagedFlowCurrent = w.stagedFlowCurrent
          /\ x.stagedFlowEvent = w.stagedFlowEvent /\ x.stagedFlowSeek = w.stagedFlowSeek
          /\ x.seekOperation = w.seekOperation /\ x.navigation = r.id
          /\ x.deferred = w.deferred /\ x.encodings = w.encodings \cup {e}
          /\ x.answers = w.answers
      BY <1>0, <3>1, <3>2, <3>3, <3>4, <3>5 DEF Workers
    <3>7. w.session.id # 0 /\ w.session.next = Nothing /\ target # Nothing /\ target > 0
      BY <1>0, <1>3 DEF Nothing, Cursors
    <3>8. EncodingForm(e) /\ Named(e.id, w.activeGeneration, s)
      BY <3>1, <3>2, <3>7 DEF EncodingForm, LaunchReady, RequestForm
    <3>9. WorkerForm(x, s)
      BY <3>1, <3>2, <3>5, <3>6, <3>7, <3>8 DEF LaunchReady, WorkerForm
    <3>10. /\ \A f \in w.encodings : f.kind # "create" => f.id.gen # w.activeGeneration
           /\ r.id # NoId
      <4>1. \A f \in w.encodings : f.id # NoId
        BY <1>0 DEF LaunchReady, WorkerForm, Named, NoId, Id
      <4> QED
        BY <1>0, <4>1 DEF LaunchReady, EncodingInv, Named, NoId, Id
    <3>11. EncodingInv(x)
      BY <3>1, <3>2, <3>5, <3>6, <3>10 DEF LaunchReady, EncodingInv
    <3>12. w.stagedFlowSeek = Nobody /\ StagedInv(x) /\ ~Pending(x)
      BY <3>6 DEF LaunchReady, StagedInv, Pending
    <3>13. \A f \in w.encodings : ~(f.kind = "next" /\ f.view.session = w.session.id)
      <4>1. \A f \in w.encodings : f.view.cursor # Nothing
        BY <1>0 DEF Workers, Encodings, Views, Cursors, Nothing
      <4> QED
        BY <3>7, <4>1 DEF LaunchReady, StepInv
    <3>14. StepInv(x)
      BY <3>1, <3>2, <3>5, <3>6, <3>13 DEF LaunchReady, StepInv
    <3>15. SeekInv(x)
      BY <3>2, <3>5, <3>6, <3>10, <3>12 DEF LaunchReady, SeekInv, SeeksFor
    <3>16. Launched(w, r, o)
      BY <3>2, <3>3, <3>5, <3>6, <3>12 DEF Launched, Standing, x
    <3> QED
      BY <3>6, <3>9, <3>11, <3>12, <3>14, <3>15, <3>16 DEF WorkerInv, x
  <2> QED
    BY <2>1, <2>2, <2>3
<1> QED
  BY <1>1, <1>2, <1>3

\* runSeek and runFlowSeek up to their await.
LEMMA SeekLaunches ==
    ASSUME NEW w, NEW r, NEW s, LaunchReady(w, r, s), r.kind = "seek",
           NEW o \in LaunchSeek(w, r)
    PROVE  WorkerInv(o.worker, s) /\ Launched(w, r, o)
<1> USE FlowAssumption
<1> DEFINE x == o.worker
           n == WithoutSeek(w.session)
           begun == [w EXCEPT !.seekOperation = r.id, !.stagedFlowSeek = Nobody, !.session = n]
           over == [begun EXCEPT !.navigation = NoId]
           v == View(n.id, r.target, n.prepared)
           e == Encoding("seek", r.id, v)
           a == Failure(r.id, "input")
           failed1 == Respond([over EXCEPT !.seekOperation = NoId], a)
           sent == [Suspend(begun, r, v) EXCEPT !.session.seek = r.target]
<1>0. /\ w \in Workers /\ r \in Requests /\ s \in Nat /\ w.session \in Sessions
      /\ w.session.cursor \in Cursors /\ r.id \in Ids /\ r.target \in Cursors
  BY DEF LaunchReady, Workers, Sessions, Requests
<1>1. /\ n \in Sessions /\ n.id = w.session.id /\ n.cursor = w.session.cursor
      /\ n.prepared = w.session.prepared /\ n.next = w.session.next /\ n.seek = Nothing
  BY <1>0 DEF WithoutSeek, Sessions
<1>2. [w EXCEPT !.navigation = NoId] = w
  BY <1>0 DEF LaunchReady, Workers
<1>3. /\ Nobody \in Owners /\ NoId \in Ids
  BY DEF Nobody, Owners, NoId, Ids, Id, Generations
<1>4. \/ w.session.id = 0 /\ o = Outcome(w, "refused")
      \/ w.session.id # 0 /\ o = Outcome(over, "refused")
      \/ w.session.id # 0 /\ n.next = Nothing /\ o = Outcome(failed1, "none")
      \/ w.session.id # 0 /\ n.next = Nothing /\ o = Outcome(sent, "none")
  BY <1>1, <1>2 DEF LaunchSeek
<1>5. CASE w.session.id = 0 /\ o = Outcome(w, "refused")
  <2>1. x = w /\ o.raised = "refused"
    BY <1>5 DEF Outcome
  <2>2. StagedInv(w) /\ ~Pending(w)
    BY <1>5 DEF LaunchReady, StagedInv, Pending
  <2>3. SeekInv(w)
    <3>1. w.session.seek = Nothing
      BY <1>5 DEF LaunchReady, WorkerForm, NoSession, NewSession
    <3>2. \A f \in w.encodings : f.kind = "seek" => f.view.session # 0
      BY DEF LaunchReady, WorkerForm, EncodingForm
    <3> QED
      BY <1>5, <3>1, <3>2 DEF SeekInv, SeeksFor
  <2> QED
    BY <2>1, <2>2, <2>3 DEF LaunchReady, WorkerInv, Launched
<1> HIDE DEF n
<1>6. /\ \A f \in w.encodings : f.kind # "create" => f.id.gen # w.activeGeneration
      /\ \A f \in w.encodings : f.kind = "create" => f.id.gen # w.activeGeneration
      /\ r.id # NoId
  BY <1>0 DEF LaunchReady, EncodingInv, WorkerForm, Named, NoId, Id
\* Nothing but a message is added: the Worker without its seek.
<1>7. ASSUME x \in Workers, x.session = n,
             x.activeGeneration = w.activeGeneration,
             x.stagedFlowCurrent = w.stagedFlowCurrent,
             x.stagedFlowEvent = w.stagedFlowEvent, x.stagedFlowSeek = Nobody,
             x.navigation = w.navigation, x.deferred = w.deferred,
             x.encodings = w.encodings,
             \A k \in 1 .. Len(x.answers) :
                Named(x.answers[k].id, w.activeGeneration, s) /\ AnswerForm(x.answers[k]),
             w.session.id # 0
      PROVE  WorkerInv(x, s) /\ ~Pending(x) /\ Standing(x) = Standing(w)
  <2>1. WorkerForm(x, s)
    BY <1>1, <1>7 DEF LaunchReady, WorkerForm
  <2>2. EncodingInv(x)
    BY <1>1, <1>6, <1>7 DEF LaunchReady, EncodingInv
  <2>3. StagedInv(x) /\ ~Pending(x)
    BY <1>7 DEF LaunchReady, StagedInv, Pending
  <2>4. StepInv(x)
    BY <1>1, <1>7 DEF LaunchReady, StepInv
  <2>5. SeekInv(x)
    BY <1>1, <1>6, <1>7 DEF SeekInv, SeeksFor
  <2> QED
    BY <1>1, <1>7, <2>1, <2>2, <2>3, <2>4, <2>5 DEF WorkerInv, Standing
<1>8. CASE w.session.id # 0 /\ o = Outcome(over, "refused")
  <2>1. x = over /\ o.raised = "refused"
    BY <1>8 DEF Outcome
  <2>2. /\ x \in Workers /\ x.session = n
        /\ x.activeGeneration = w.activeGeneration
        /\ x.stagedFlowCurrent = w.stagedFlowCurrent
        /\ x.stagedFlowEvent = w.stagedFlowEvent /\ x.stagedFlowSeek = Nobody
        /\ x.navigation = NoId /\ x.deferred = w.deferred
        /\ x.encodings = w.encodings /\ x.answers = w.answers
    BY <1>0, <1>1, <1>3, <2>1 DEF Workers
  <2> HIDE DEF x
  <2>3. WorkerInv(x, s) /\ ~Pending(x) /\ Standing(x) = Standing(w)
    BY <1>7, <1>8, <2>2 DEF LaunchReady, WorkerForm
  <2> QED
    BY <2>1, <2>2, <2>3 DEF Launched, x
<1>9. CASE w.session.id # 0 /\ n.next = Nothing /\ o = Outcome(failed1, "none")
  <2>1. /\ a \in Answers /\ AnswerForm(a) /\ Named(a.id, w.activeGeneration, s)
    <3>1. a \in {Answer("ended", r.id), Failure(r.id, "input")}
      OBVIOUS
    <3> HIDE DEF a
    <3> QED
      BY <1>0, <3>1, NavigationAnswers DEF LaunchReady
  <2>2. /\ Append(w.answers, a) \in Seq(Answers)
        /\ \A k \in 1 .. Len(Append(w.answers, a)) :
             Named(Append(w.answers, a)[k].id, w.activeGeneration, s) /\ AnswerForm(Append(w.answers, a)[k])
    BY <1>0, <2>1, AppendedForms DEF LaunchReady, WorkerForm, Workers
  <2> HIDE DEF a
  <2>3. /\ x = failed1 /\ o.raised = "none"
    BY <1>9 DEF Outcome
  <2>4. /\ x \in Workers /\ x.session = n
        /\ x.activeGeneration = w.activeGeneration
        /\ x.stagedFlowCurrent = w.stagedFlowCurrent
        /\ x.stagedFlowEvent = w.stagedFlowEvent /\ x.stagedFlowSeek = Nobody
        /\ x.navigation = NoId /\ x.deferred = w.deferred
        /\ x.encodings = w.encodings /\ x.answers = Append(w.answers, a)
    BY <1>0, <1>1, <1>3, <2>2, <2>3, ZenonT(60) DEF Workers, Respond
  <2> HIDE DEF x
  <2>5. WorkerInv(x, s) /\ ~Pending(x) /\ Standing(x) = Standing(w)
    BY <1>7, <1>9, <2>2, <2>4 DEF LaunchReady
  <2> QED
    BY <2>3, <2>4, <2>5 DEF Launched, x, a
<1>10. CASE w.session.id # 0 /\ n.next = Nothing /\ o = Outcome(sent, "none")
  <2>1. /\ v.session = w.session.id /\ v.cursor = r.target /\ v.prepared = w.session.prepared
        /\ v \in Views
    BY <1>0, <1>1 DEF View, Views, Sessions
  <2>2. e \in Encodings /\ e.kind = "seek" /\ e.id = r.id /\ e.view = v
    BY <1>0, <2>1 DEF Encoding, Encodings, Navigation
  <2>3. x = sent /\ o.raised = "none"
    BY <1>10 DEF Outcome
  <2>4. r.kind = "seek" /\ e = Encoding(r.kind, r.id, v)
    OBVIOUS
  <2> HIDE DEF v, e
  <2>5. x.session = [n EXCEPT !.seek = r.target]
    BY <1>0, <1>1, <2>3 DEF Suspend, Workers
  <2>6. /\ x.session \in Sessions
        /\ x.session.id = w.session.id /\ x.session.cursor = w.session.cursor
        /\ x.session.prepared = w.session.prepared /\ x.session.seek = r.target
        /\ x.session.next = Nothing
    BY <1>0, <1>1, <1>10, <2>5 DEF Sessions
  <2>7. /\ x.activeGeneration = w.activeGeneration
        /\ x.stagedFlowCurrent = w.stagedFlowCurrent
        /\ x.stagedFlowEvent = w.stagedFlowEvent /\ x.stagedFlowSeek = Nobody
        /\ x.seekOperation = r.id /\ x.navigation = r.id
        /\ x.deferred = w.deferred /\ x.encodings = w.encodings \cup {e}
        /\ x.answers = w.answers
    BY <1>0, <1>1, <2>3, <2>4 DEF Suspend, Workers
  <2>8. x \in Workers
    <3> DEFINE t == [n EXCEPT !.seek = r.target]
               coded == w.encodings \cup {e}
    <3>1. x = [w EXCEPT !.seekOperation = r.id, !.stagedFlowSeek = Nobody, !.session = t,
                        !.navigation = r.id, !.encodings = coded]
      BY <1>0, <1>1, <2>3, <2>4 DEF Suspend, Workers
    <3>2. t \in Sessions /\ coded \in SUBSET Encodings
      BY <1>0, <2>2, <2>5, <2>6 DEF Workers
    <3> HIDE DEF x, t, coded
    <3> QED
      BY <1>0, <1>3, <3>1, <3>2 DEF Workers
  <2> HIDE DEF x
  <2>9. EncodingForm(e) /\ Named(e.id, w.activeGeneration, s)
    BY <1>10, <2>1, <2>2 DEF EncodingForm, LaunchReady, RequestForm
  <2>10. WorkerForm(x, s)
    BY <1>10, <2>1, <2>2, <2>6, <2>7, <2>9 DEF LaunchReady, WorkerForm
  <2>11. EncodingInv(x)
    BY <1>6, <2>1, <2>2, <2>6, <2>7 DEF LaunchReady, EncodingInv
  <2>12. StagedInv(x) /\ ~Pending(x)
    BY <2>7 DEF LaunchReady, StagedInv, Pending
  <2>13. StepInv(x)
    BY <1>1, <1>10, <2>2, <2>6, <2>7 DEF LaunchReady, StepInv
  <2>14. SeekInv(x)
    BY <1>6, <2>1, <2>2, <2>6, <2>7 DEF SeekInv, SeeksFor, LaunchReady
  <2>15. Launched(w, r, o)
    BY <2>2, <2>3, <2>6, <2>7, <2>12 DEF Launched, Standing, x
  <2> QED
    BY <2>8, <2>10, <2>11, <2>12, <2>13, <2>14, <2>15 DEF WorkerInv, x
<1> QED
  BY <1>4, <1>5, <1>8, <1>9, <1>10

\* Whichever navigation it is.
LEMMA Launches ==
    ASSUME NEW w, NEW r, NEW s, LaunchReady(w, r, s), NEW o \in Launch(w, r)
    PROVE  WorkerInv(o.worker, s) /\ Launched(w, r, o)
BY NextLaunches, SeekLaunches DEF Launch, LaunchReady, Navigation, IsNav

(***************************************************************************)
(* What the client waits for                                                *)
(***************************************************************************)

\* The status of the client while such a message is under way.
Jobs == {"loading", "solving", "configuring"}
ReqJob(r) ==
    IF r.kind = "create" THEN "loading"
    ELSE IF r.kind \in Navigation THEN "solving"
    ELSE IF r.kind = "configure" THEN "configuring" ELSE "none"
EncJob(e) == IF e.kind = "create" THEN "loading" ELSE "solving"

Parked(w, job, i) == ReqJob(w.deferred) = job /\ w.deferred.id = i
Encoded(w, job, i) == \E e \in w.encodings : EncJob(e) = job /\ e.id = i
Answered(w, job, i) ==
    \E k \in 1 .. Len(w.answers) : AnsJob(w.answers[k]) = job /\ w.answers[k].id = i
InWorker(w, job, i) == Parked(w, job, i) \/ Encoded(w, job, i) \/ Answered(w, job, i)
OnceInWorker(w, job, i) ==
    /\ Parked(w, job, i) => ~Encoded(w, job, i) /\ ~Answered(w, job, i)
    /\ Encoded(w, job, i) => ~Answered(w, job, i)
    /\ \A k, l \in 1 .. Len(w.answers) :
        /\ AnsJob(w.answers[k]) = job /\ w.answers[k].id = i
        /\ AnsJob(w.answers[l]) = job /\ w.answers[l].id = i
        => k = l

\* From w to x the jobs of the Worker move on or are dropped, and one may arrive.
Tokens(w, x, j0, i0) == \A job \in Jobs, i \in Ids :
    /\ InWorker(x, job, i) => InWorker(w, job, i) \/ (job = j0 /\ i = i0)
    /\ OnceInWorker(w, job, i) /\ ~(job = j0 /\ i = i0 /\ InWorker(w, job, i))
        => OnceInWorker(x, job, i)

\* A job may arrive, then jobs move on.
LEMMA TokensTransitive ==
    ASSUME NEW w, NEW y, NEW x, NEW j0, NEW i0, Tokens(w, y, j0, i0), Tokens(y, x, "none", NoId)
    PROVE  Tokens(w, x, j0, i0)
<1> SUFFICES ASSUME NEW job \in Jobs, NEW i \in Ids
             PROVE  /\ InWorker(x, job, i) => InWorker(w, job, i) \/ (job = j0 /\ i = i0)
                    /\ OnceInWorker(w, job, i) /\ ~(job = j0 /\ i = i0 /\ InWorker(w, job, i))
                        => OnceInWorker(x, job, i)
    BY DEF Tokens
<1>1. job # "none"
    BY DEF Jobs
<1>2. /\ InWorker(x, job, i) => InWorker(y, job, i)
      /\ OnceInWorker(y, job, i) => OnceInWorker(x, job, i)
    BY <1>1 DEF Tokens
<1>3. /\ InWorker(y, job, i) => InWorker(w, job, i) \/ (job = j0 /\ i = i0)
      /\ OnceInWorker(w, job, i) /\ ~(job = j0 /\ i = i0 /\ InWorker(w, job, i))
            => OnceInWorker(y, job, i)
    BY DEF Tokens
<1> QED
    BY <1>2, <1>3

\* Encodings end, the parked request goes: no job arrives.
LEMMA TokensSame ==
    ASSUME NEW w, NEW x, x.encodings \subseteq w.encodings, x.answers = w.answers,
           x.deferred = w.deferred \/ x.deferred = NoRequest
    PROVE  Tokens(w, x, "none", NoId)
<1>1. \A job \in Jobs : ReqJob(NoRequest) # job
    BY DEF ReqJob, NoRequest, Plain, Navigation, Jobs
<1>2. \A job \in Jobs, i \in Ids :
        /\ Parked(x, job, i) => Parked(w, job, i)
        /\ Encoded(x, job, i) => Encoded(w, job, i)
        /\ Answered(x, job, i) <=> Answered(w, job, i)
    BY <1>1 DEF Parked, Encoded, Answered
<1> QED
    BY <1>2 DEF Tokens, InWorker, OnceInWorker

\* An answer brings its own job.
LEMMA TokensAnswered ==
    ASSUME NEW w, NEW x, NEW a \in Answers, w.answers \in Seq(Answers),
           x.encodings = w.encodings, x.answers = Append(w.answers, a), x.deferred = w.deferred
    PROVE  Tokens(w, x, AnsJob(a), a.id)
<1>1. \A job \in Jobs, i \in Ids :
        /\ Parked(x, job, i) <=> Parked(w, job, i)
        /\ Encoded(x, job, i) <=> Encoded(w, job, i)
    BY DEF Parked, Encoded
<1>2. /\ Len(x.answers) = Len(w.answers) + 1 /\ Len(w.answers) \in Nat
      /\ x.answers[Len(w.answers) + 1] = a
      /\ \A k \in 1 .. Len(w.answers) : x.answers[k] = w.answers[k]
    OBVIOUS
<1>3. \A job \in Jobs, i \in Ids :
        Answered(x, job, i) <=> Answered(w, job, i) \/ (AnsJob(a) = job /\ a.id = i)
    <2>1. \A k : k \in 1 .. Len(x.answers) <=> k \in 1 .. Len(w.answers) \/ k = Len(w.answers) + 1
        BY <1>2
    <2> QED
        BY <1>2, <2>1 DEF Answered
<1>4. ASSUME NEW job \in Jobs, NEW i \in Ids,
             \A k, l \in 1 .. Len(w.answers) :
                /\ AnsJob(w.answers[k]) = job /\ w.answers[k].id = i
                /\ AnsJob(w.answers[l]) = job /\ w.answers[l].id = i
                => k = l,
             ~(job = AnsJob(a) /\ i = a.id /\ Answered(w, job, i))
      PROVE  \A k, l \in 1 .. Len(x.answers) :
                /\ AnsJob(x.answers[k]) = job /\ x.answers[k].id = i
                /\ AnsJob(x.answers[l]) = job /\ x.answers[l].id = i
                => k = l
    <2>1. \A k : k \in 1 .. Len(x.answers) <=> k \in 1 .. Len(w.answers) \/ k = Len(w.answers) + 1
        BY <1>2
    <2> QED
        BY <1>2, <1>4, <2>1 DEF Answered
<1> SUFFICES ASSUME NEW job \in Jobs, NEW i \in Ids
             PROVE  /\ InWorker(x, job, i) => InWorker(w, job, i) \/ (job = AnsJob(a) /\ i = a.id)
                    /\ OnceInWorker(w, job, i) /\ ~(job = AnsJob(a) /\ i = a.id /\ InWorker(w, job, i))
                        => OnceInWorker(x, job, i)
    BY DEF Tokens
<1>5. InWorker(x, job, i) => InWorker(w, job, i) \/ (job = AnsJob(a) /\ i = a.id)
    BY <1>1, <1>3 DEF InWorker
<1>6. ASSUME OnceInWorker(w, job, i), ~(job = AnsJob(a) /\ i = a.id /\ InWorker(w, job, i))
      PROVE  OnceInWorker(x, job, i)
    BY <1>1, <1>3, <1>4, <1>6, SMTT(30) DEF InWorker, OnceInWorker
<1> QED
    BY <1>5, <1>6

\* An encoding brings its own job.
LEMMA TokensEncoded ==
    ASSUME NEW w, NEW x, NEW e,
           x.encodings = w.encodings \cup {e}, x.answers = w.answers, x.deferred = w.deferred
    PROVE  Tokens(w, x, EncJob(e), e.id)
<1>1. \A job \in Jobs, i \in Ids :
        /\ Parked(x, job, i) <=> Parked(w, job, i)
        /\ Answered(x, job, i) <=> Answered(w, job, i)
        /\ Encoded(x, job, i) <=> Encoded(w, job, i) \/ (EncJob(e) = job /\ e.id = i)
    BY DEF Parked, Encoded, Answered
<1> QED
    BY <1>1 DEF Tokens, InWorker, OnceInWorker

(***************************************************************************)
(* Running what was parked                                                  *)
(***************************************************************************)

\* Publication i, of view v, awaits its verdict.
Offered(w, i, v) ==
    \/ w.stagedFlowCurrent # NoId /\ w.stagedFlowCurrent = i /\ v = View(i.gen, 0, FALSE)
    \/ /\ w.stagedFlowEvent # Nobody /\ w.stagedFlowEvent.id = i
       /\ v = View(w.session.id, w.session.next, TRUE)
    \/ /\ w.stagedFlowSeek # Nobody /\ w.stagedFlowSeek.id = i
       /\ v = View(w.session.id, w.session.seek, w.session.prepared)

\* What a continuation of the Worker leaves of it.
Grows(w, x) ==
    /\ x.activeGeneration = w.activeGeneration
    /\ Standing(x) = Standing(w)
    /\ Len(w.answers) <= Len(x.answers)
    /\ \A k \in 1 .. Len(w.answers) : x.answers[k] = w.answers[k]
    /\ \A k \in 1 .. Len(x.answers) : k > Len(w.answers) /\ x.answers[k].kind \in Publications
        => Offered(x, x.answers[k].id, x.answers[k].view)
    /\ \A e \in x.encodings : e.kind = "create" => e \in w.encodings
    /\ x.deferred = w.deferred \/ x.deferred = NoRequest
Keeps(w, x) == \A i, v : Offered(w, i, v) => Offered(x, i, v)
Awake(x) == x.deferred = NoRequest \/ Blocked(x)

\* Growth, then growth that keeps what is offered.
LEMMA GrowsTransitive ==
    ASSUME NEW w, NEW y, NEW x, Grows(w, y), Grows(y, x), Keeps(y, x),
           Len(w.answers) \in Nat, Len(y.answers) \in Nat, Len(x.answers) \in Nat
    PROVE  Grows(w, x)
<1>1. \A k \in 1 .. Len(x.answers) : k > Len(w.answers) /\ x.answers[k].kind \in Publications
        => Offered(x, x.answers[k].id, x.answers[k].view)
  <2> SUFFICES ASSUME NEW k \in 1 .. Len(x.answers), k > Len(w.answers),
                      x.answers[k].kind \in Publications
               PROVE  Offered(x, x.answers[k].id, x.answers[k].view)
    OBVIOUS
  <2>1. CASE k > Len(y.answers)
    BY <2>1 DEF Grows
  <2>2. CASE ~(k > Len(y.answers))
    <3>1. k \in 1 .. Len(y.answers) /\ x.answers[k] = y.answers[k]
      BY <2>2 DEF Grows
    <3>2. Offered(y, x.answers[k].id, x.answers[k].view)
      BY <3>1 DEF Grows
    <3> QED
      BY <3>2 DEF Keeps
  <2> QED
    BY <2>1, <2>2
<1>2. \A k \in 1 .. Len(w.answers) : x.answers[k] = w.answers[k]
  BY DEF Grows
<1> QED
  BY <1>1, <1>2 DEF Grows

\* The navigation that was launched is a job of the Worker now, unless it failed.
LEMMA LaunchedTokens ==
    ASSUME NEW w, w.answers \in Seq(Answers), NEW r \in Requests, IsNav(r), NEW o,
           Launched(w, r, o)
    PROVE  /\ Tokens(w, o.worker, "solving", r.id)
           /\ Grows(w, o.worker)
           /\ o.raised # "none" => Tokens(w, o.worker, "none", NoId)
<1> DEFINE x == o.worker
<1>1. CASE x.encodings = w.encodings /\ x.answers = w.answers
  <2>1. Tokens(w, x, "none", NoId)
    BY <1>1, TokensSame DEF Launched
  <2>2. Tokens(w, x, "solving", r.id)
    BY <2>1 DEF Tokens, Jobs
  <2>3. Grows(w, x)
    BY <1>1 DEF Grows, Launched
  <2> QED
    BY <2>1, <2>2, <2>3
<1>2. ASSUME x.encodings = w.encodings, o.raised = "none",
             NEW a \in {Answer("ended", r.id), Failure(r.id, "input")},
             x.answers = Append(w.answers, a)
      PROVE  Tokens(w, x, "solving", r.id) /\ Grows(w, x)
  <2>1. a = [kind |-> "ended", id |-> r.id, view |-> NoView, source |-> "none"]
        \/ a = [kind |-> "error", id |-> r.id, view |-> NoView, source |-> "input"]
    BY <1>2 DEF Failure, Answer, Packet
  <2>2. NoView \in Views /\ r.id \in Ids
    BY FlowAssumption DEF NoView, View, Views, Cursors, Generations, Requests
  <2>3. a \in Answers /\ AnsJob(a) = "solving" /\ a.id = r.id /\ a.kind \notin Publications
    BY <2>1, <2>2 DEF Answers, AnsJob, Publications
  <2>4. Tokens(w, x, "solving", r.id)
    BY <1>2, <2>3, TokensAnswered, ZenonT(60) DEF Launched
  <2>5. /\ Len(x.answers) = Len(w.answers) + 1 /\ Len(w.answers) \in Nat
        /\ x.answers[Len(w.answers) + 1] = a
        /\ \A k \in 1 .. Len(w.answers) : x.answers[k] = w.answers[k]
    BY <1>2, <2>3
  <2>6. \A k \in 1 .. Len(x.answers) : k > Len(w.answers) => k = Len(w.answers) + 1
    BY <2>5
  <2>7. Grows(w, x)
    BY <1>2, <2>3, <2>5, <2>6 DEF Grows, Launched
  <2> QED
    BY <2>4, <2>7
<1>3. ASSUME x.answers = w.answers, o.raised = "none", NEW e \in Encodings,
             e.kind # "create", e.id = r.id, x.encodings = w.encodings \cup {e}
      PROVE  Tokens(w, x, "solving", r.id) /\ Grows(w, x)
  <2>1. Tokens(w, x, EncJob(e), e.id)
    BY <1>3, TokensEncoded DEF Launched
  <2>2. Grows(w, x)
    BY <1>3 DEF Grows, Launched
  <2> QED
    BY <1>3, <2>1, <2>2 DEF EncJob
<1> QED
  BY <1>1, <1>2, <1>3 DEF Launched

\* Jobs move on, then one may arrive.
LEMMA TokensThenOne ==
    ASSUME NEW w, NEW y, NEW x, NEW j0, NEW i0, Tokens(w, y, "none", NoId), Tokens(y, x, j0, i0)
    PROVE  Tokens(w, x, j0, i0)
<1> SUFFICES ASSUME NEW job \in Jobs, NEW i \in Ids
             PROVE  /\ InWorker(x, job, i) => InWorker(w, job, i) \/ (job = j0 /\ i = i0)
                    /\ OnceInWorker(w, job, i) /\ ~(job = j0 /\ i = i0 /\ InWorker(w, job, i))
                        => OnceInWorker(x, job, i)
    BY DEF Tokens
<1>1. job # "none"
    BY DEF Jobs
<1>2. /\ InWorker(y, job, i) => InWorker(w, job, i)
      /\ OnceInWorker(w, job, i) => OnceInWorker(y, job, i)
    BY <1>1 DEF Tokens
<1>3. /\ InWorker(x, job, i) => InWorker(y, job, i) \/ (job = j0 /\ i = i0)
      /\ OnceInWorker(y, job, i) /\ ~(job = j0 /\ i = i0 /\ InWorker(y, job, i))
            => OnceInWorker(x, job, i)
    BY DEF Tokens
<1> QED
    BY <1>2, <1>3

\* An answer that is no publication leaves everything else alone.
LEMMA AnswerKeeps ==
    ASSUME NEW s \in Nat, NEW w, WorkerInv(w, s), NEW a \in Answers, AnswerForm(a),
           Named(a.id, w.activeGeneration, s), a.kind \notin Publications
    PROVE  LET x == Respond(w, a)
           IN /\ WorkerInv(x, s) /\ Tokens(w, x, AnsJob(a), a.id)
              /\ Grows(w, x) /\ Keeps(w, x) /\ (Awake(w) => Awake(x))
              /\ x.deferred = w.deferred /\ x.encodings = w.encodings
              /\ Blocked(w) => Blocked(x)
<1> DEFINE x == Respond(w, a)
<1>0. w \in Workers /\ w.answers \in Seq(Answers)
  BY DEF WorkerInv, Workers
<1>1. /\ Append(w.answers, a) \in Seq(Answers)
      /\ \A k \in 1 .. Len(Append(w.answers, a)) :
           Named(Append(w.answers, a)[k].id, w.activeGeneration, s) /\ AnswerForm(Append(w.answers, a)[k])
  BY <1>0, AppendedForms DEF WorkerInv, WorkerForm
<1>2. /\ x \in Workers
      /\ x.activeGeneration = w.activeGeneration /\ x.session = w.session
      /\ x.stagedFlowCurrent = w.stagedFlowCurrent
      /\ x.stagedFlowEvent = w.stagedFlowEvent /\ x.stagedFlowSeek = w.stagedFlowSeek
      /\ x.seekOperation = w.seekOperation /\ x.navigation = w.navigation
      /\ x.deferred = w.deferred /\ x.encodings = w.encodings /\ x.answers = Append(w.answers, a)
  BY <1>0, <1>1 DEF Workers, Respond
<1> HIDE DEF x
<1>3. WorkerForm(x, s)
  BY <1>1, <1>2 DEF WorkerInv, WorkerForm
<1>4. Blocked(x) <=> Blocked(w)
  BY <1>2 DEF Blocked, Pending
<1>5. EncodingInv(x)
  BY <1>2, <1>4 DEF WorkerInv, EncodingInv
<1>6. StagedInv(x)
  BY <1>2 DEF WorkerInv, StagedInv, Pending
<1>7. StepInv(x) /\ SeekInv(x)
  BY <1>2 DEF WorkerInv, StepInv, SeekInv, SeeksFor
<1>8. Tokens(w, x, AnsJob(a), a.id)
  BY <1>0, <1>2, TokensAnswered
<1>9. Grows(w, x)
  <2>1. /\ Len(x.answers) = Len(w.answers) + 1 /\ Len(w.answers) \in Nat
        /\ x.answers[Len(w.answers) + 1] = a
        /\ \A k \in 1 .. Len(w.answers) : x.answers[k] = w.answers[k]
    BY <1>0, <1>2
  <2>2. \A k \in 1 .. Len(x.answers) : k > Len(w.answers) => k = Len(w.answers) + 1
    BY <2>1
  <2> QED
    BY <1>2, <2>1, <2>2 DEF Grows, Standing
<1>10. Keeps(w, x)
  BY <1>2 DEF Keeps, Offered
<1>11. Awake(w) => Awake(x)
  BY <1>2, <1>4 DEF Awake
<1> QED
  BY <1>2, <1>3, <1>4, <1>5, <1>6, <1>7, <1>8, <1>9, <1>10, <1>11 DEF WorkerInv, x

\* The Worker is left as it is.
LEMMA NothingHappens ==
    ASSUME NEW w
    PROVE  Tokens(w, w, "none", NoId) /\ Keeps(w, w)
<1>1. Tokens(w, w, "none", NoId)
  BY TokensSame
<1> QED
  BY <1>1 DEF Keeps

\* A Worker that is left as it is has grown by nothing.
LEMMA StaysGrown ==
    ASSUME NEW w, w.answers \in Seq(Answers)
    PROVE  Grows(w, w)
BY DEF Grows

\* An error that is reported leaves everything else alone.
LEMMA ReportKeeps ==
    ASSUME NEW s \in Nat, NEW w, WorkerInv(w, s), NEW i \in Ids,
           Named(i, w.activeGeneration, s), NEW source \in {"none", "input", "limit", "refused"},
           source = "input" => i.serial > 0
    PROVE  LET x == Reported(w, i, source)
           IN /\ WorkerInv(x, s)
              /\ source # "input" => Tokens(w, x, "none", NoId)
              /\ source = "input" => Tokens(w, x, "solving", i)
              /\ Grows(w, x) /\ Keeps(w, x) /\ (Awake(w) => Awake(x))
              /\ x.deferred = w.deferred /\ x.encodings = w.encodings
              /\ Blocked(w) => Blocked(x)
<1> DEFINE a == Failure(i, source)
           x == Respond(w, a)
<1>1. CASE source = "none"
  <2>1. Reported(w, i, source) = w
    BY <1>1 DEF Reported
  <2> QED
    BY <1>1, <2>1, NothingHappens, StaysGrown DEF WorkerInv, Workers
<1>2. CASE source # "none"
  <2>1. Reported(w, i, source) = x
    BY <1>2 DEF Reported
  <2>2. a = [kind |-> "error", id |-> i, view |-> NoView, source |-> source]
    BY DEF Failure, Answer, Packet
  <2>3. NoView \in Views
    BY FlowAssumption DEF NoView, View, Views, Cursors, Generations
  <2> HIDE DEF a
  <2>5. /\ source # "input" => AnsJob(a) = "none"
        /\ source = "input" => AnsJob(a) = "solving"
    BY <1>2, <2>2 DEF AnsJob
  <2>4. a \in Answers /\ AnswerForm(a) /\ a.kind \notin Publications /\ a.id = i
    BY <1>2, <2>2, <2>3, <2>5 DEF Answers, AnswerForm, Publications
  <2>6. /\ WorkerInv(x, s) /\ Tokens(w, x, AnsJob(a), a.id)
        /\ Grows(w, x) /\ Keeps(w, x) /\ (Awake(w) => Awake(x))
        /\ x.deferred = w.deferred /\ x.encodings = w.encodings
        /\ Blocked(w) => Blocked(x)
    BY <2>4, AnswerKeeps
  <2>7. Tokens(w, x, "none", i) => Tokens(w, x, "none", NoId)
    BY DEF Tokens, Jobs
  <2> HIDE DEF x
  <2> QED
    BY <2>1, <2>4, <2>5, <2>6, <2>7
<1> QED
  BY <1>1, <1>2

\* The parked request is taken, or dropped.
Unparked(w) == [w EXCEPT !.deferred = NoRequest]

\* Forgetting the parked request leaves everything else alone.
LEMMA UnparkedKeeps ==
    ASSUME NEW s \in Nat, NEW w, WorkerInv(w, s)
    PROVE  LET x == Unparked(w)
           IN /\ WorkerInv(x, s) /\ Tokens(w, x, "none", NoId) /\ Grows(w, x) /\ Keeps(w, x)
              /\ x.deferred = NoRequest /\ x.encodings = w.encodings
              /\ x.activeGeneration = w.activeGeneration /\ Standing(x) = Standing(w)
              /\ x.answers = w.answers /\ (Blocked(x) <=> Blocked(w))
<1> DEFINE x == Unparked(w)
<1>0. w \in Workers /\ w.answers \in Seq(Answers)
  BY DEF WorkerInv, Workers
<1>1. NoRequest \in Requests
  BY FlowAssumption DEF NoRequest, Plain, Requests, NoId, Id, Ids, Generations, Cursors
<1>2. /\ x \in Workers
      /\ x.activeGeneration = w.activeGeneration /\ x.session = w.session
      /\ x.stagedFlowCurrent = w.stagedFlowCurrent
      /\ x.stagedFlowEvent = w.stagedFlowEvent /\ x.stagedFlowSeek = w.stagedFlowSeek
      /\ x.seekOperation = w.seekOperation /\ x.navigation = w.navigation
      /\ x.deferred = NoRequest /\ x.encodings = w.encodings /\ x.answers = w.answers
  BY <1>0, <1>1 DEF Workers, Unparked
<1> HIDE DEF x
<1>3. WorkerInv(x, s)
  BY <1>2 DEF WorkerInv, WorkerForm, EncodingInv, StagedInv, StepInv, SeekInv, SeeksFor, Blocked, Pending
<1>4. Tokens(w, x, "none", NoId)
  BY <1>2, TokensSame
<1>5. Grows(w, x) /\ Keeps(w, x) /\ Standing(x) = Standing(w)
  <2>1. Standing(x) = Standing(w)
    BY <1>2 DEF Standing
  <2>2. Keeps(w, x)
    BY <1>2 DEF Keeps, Offered
  <2>3. Grows(w, x)
    BY <1>0, <1>2, <2>1 DEF Grows
  <2> QED
    BY <2>1, <2>2, <2>3
<1>6. Blocked(x) <=> Blocked(w)
  BY <1>2 DEF Blocked, Pending
<1> QED
  BY <1>2, <1>3, <1>4, <1>5, <1>6 DEF x

\* The parked request is launched: its job stays in the Worker or ends there.
LEMMA ParkedLaunches ==
    ASSUME NEW s \in Nat, NEW w, WorkerInv(w, s), ~Blocked(w), w.deferred # NoRequest,
           w.deferred.id.gen = w.activeGeneration,
           NEW o \in Launch(Unparked(w), w.deferred)
    PROVE  /\ WorkerInv(o.worker, s) /\ Tokens(w, o.worker, "none", NoId)
           /\ Grows(w, o.worker) /\ Keeps(w, o.worker) /\ o.worker.deferred = NoRequest
           /\ Launched(Unparked(w), w.deferred, o)
<1> DEFINE rest == Unparked(w)
           r == w.deferred
           x == o.worker
<1>0. w \in Workers /\ w.answers \in Seq(Answers) /\ r \in Requests
  BY DEF WorkerInv, Workers
<1>1. /\ WorkerInv(rest, s) /\ Tokens(w, rest, "none", NoId)
      /\ rest.deferred = NoRequest /\ rest.encodings = w.encodings
      /\ rest.activeGeneration = w.activeGeneration /\ Standing(rest) = Standing(w)
      /\ rest.answers = w.answers /\ ~Blocked(rest)
  BY UnparkedKeeps
<1> HIDE DEF rest
<1>2. /\ \A i, v : ~Offered(w, i, v)
      /\ IsNav(r) /\ RequestForm(r) /\ Named(r.id, w.activeGeneration, s)
  BY DEF Offered, Blocked, Pending, WorkerInv, WorkerForm
<1>3. \A e \in w.encodings : e.kind = "create" => e.id.gen # w.activeGeneration
  BY DEF WorkerInv, EncodingInv
<1>4. LaunchReady(rest, r, s)
  BY <1>0, <1>1, <1>2, <1>3 DEF LaunchReady, WorkerInv, Blocked, Pending
<1>5. o \in Launch(rest, r)
  BY DEF rest
<1>6. WorkerInv(x, s) /\ Launched(rest, r, o)
  BY <1>4, <1>5, Launches
<1>7. Tokens(rest, x, "solving", r.id) /\ Grows(rest, x)
  BY <1>0, <1>1, <1>2, <1>6, LaunchedTokens
<1>8. Tokens(w, x, "none", NoId)
  <2> SUFFICES ASSUME NEW job \in Jobs, NEW i \in Ids
               PROVE  /\ InWorker(x, job, i) => InWorker(w, job, i)
                      /\ OnceInWorker(w, job, i) => OnceInWorker(x, job, i)
    BY DEF Tokens
  <2>1. /\ InWorker(x, job, i) => InWorker(rest, job, i) \/ (job = "solving" /\ i = r.id)
        /\ OnceInWorker(rest, job, i) /\ ~(job = "solving" /\ i = r.id /\ InWorker(rest, job, i))
            => OnceInWorker(x, job, i)
    BY <1>7 DEF Tokens
  <2>2. /\ InWorker(rest, job, i) => InWorker(w, job, i)
        /\ OnceInWorker(w, job, i) => OnceInWorker(rest, job, i)
    BY <1>1 DEF Tokens, Jobs
  <2>3. Parked(w, "solving", r.id)
    BY <1>2 DEF Parked, ReqJob, IsNav, Navigation
  <2>4. ~Parked(rest, job, i)
    BY <1>1 DEF Parked, ReqJob, NoRequest, Plain, Navigation, Jobs
  <2>5. job = "solving" /\ i = r.id /\ OnceInWorker(w, job, i) => ~InWorker(rest, job, i)
    BY <1>1, <2>3, <2>4 DEF OnceInWorker, InWorker, Encoded, Answered
  <2> QED
    BY <2>1, <2>2, <2>3, <2>5 DEF InWorker
<1>9. Grows(w, x)
  BY <1>1, <1>6, <1>7 DEF Grows, Launched
<1>10. x.deferred = NoRequest
  BY <1>1, <1>6 DEF Launched
<1> QED
  BY <1>2, <1>6, <1>8, <1>9, <1>10 DEF Keeps, rest

\* runDeferredFlowNavigation, whatever is parked.
LEMMA DeferredRuns ==
    ASSUME NEW s \in Nat, NEW w, WorkerInv(w, s), NEW x \in RunDeferred(w)
    PROVE  /\ WorkerInv(x, s) /\ Tokens(w, x, "none", NoId)
           /\ Grows(w, x) /\ Keeps(w, x) /\ Awake(x)
<1>1. CASE Blocked(w) \/ w.deferred = NoRequest
  <2>1. x = w
    BY <1>1 DEF RunDeferred
  <2> QED
    BY <1>1, <2>1, NothingHappens, StaysGrown DEF Awake, WorkerInv, Workers
<1>2. CASE ~(Blocked(w) \/ w.deferred = NoRequest)
  <2>1. \/ /\ w.deferred.id.gen = w.activeGeneration
           /\ \E o \in Launch(Unparked(w), w.deferred) : x = o.worker
        \/ x = Unparked(w)
    BY <1>2 DEF RunDeferred, Unparked
  <2> QED
    BY <1>2, <2>1, ParkedLaunches, UnparkedKeeps DEF Awake
<1> QED
  BY <1>1, <1>2

(***************************************************************************)
(* A navigation is served                                                   *)
(***************************************************************************)
\* startFlowNavigation of a request that was admitted.
LEMMA NavigationServed ==
    ASSUME NEW s \in Nat, NEW w, NEW r, LaunchReady(w, r, s), NEW x \in StartFlowNavigation(w, r)
    PROVE  /\ WorkerInv(x, s) /\ Tokens(w, x, "solving", r.id) /\ Grows(w, x) /\ Awake(x)
<1>0. w.answers \in Seq(Answers) /\ r \in Requests /\ r.id \in Ids /\ IsNav(r)
      /\ Named(r.id, w.activeGeneration, s) /\ r.id # NoId /\ r.id.serial > 0
  BY DEF LaunchReady, Workers, Requests, Named, NoId, Id, RequestForm
<1>1. PICK o \in Launch(w, r) :
        \E y \in IF o.worker.navigation = NoId THEN RunDeferred(o.worker) ELSE {o.worker} :
            x = Reported(y, r.id, o.raised)
  BY DEF StartFlowNavigation
<1>2. PICK y \in IF o.worker.navigation = NoId THEN RunDeferred(o.worker) ELSE {o.worker} :
        x = Reported(y, r.id, o.raised)
  BY <1>1
<1> DEFINE z == o.worker
<1>3. WorkerInv(z, s) /\ Launched(w, r, o)
  BY Launches
<1>4. Tokens(w, z, "solving", r.id) /\ Grows(w, z)
      /\ (o.raised # "none" => Tokens(w, z, "none", NoId))
  BY <1>0, <1>3, LaunchedTokens
<1>5. /\ o.raised \in {"none", "input", "refused"} /\ z.activeGeneration = w.activeGeneration
  BY <1>3 DEF Launched
<1> HIDE DEF z
<1>6. /\ WorkerInv(y, s) /\ Tokens(z, y, "none", NoId) /\ Grows(z, y) /\ Keeps(z, y) /\ Awake(y)
  <2>1. CASE z.navigation = NoId
    <3>1. y \in RunDeferred(z)
      BY <1>2, <2>1 DEF z
    <3> QED
      BY <1>3, <3>1, DeferredRuns
  <2>2. CASE z.navigation # NoId
    <3>1. y = z
      BY <1>2, <2>2 DEF z
    <3>2. z.answers \in Seq(Answers)
      BY <1>3 DEF WorkerInv, Workers
    <3> QED
      BY <1>3, <2>2, <3>1, <3>2, NothingHappens, StaysGrown DEF Awake, Blocked
  <2> QED
    BY <2>1, <2>2
<1>7. y.activeGeneration = w.activeGeneration
  BY <1>5, <1>6 DEF Grows
<1>8. /\ WorkerInv(x, s)
      /\ o.raised # "input" => Tokens(y, x, "none", NoId)
      /\ o.raised = "input" => Tokens(y, x, "solving", r.id)
      /\ Grows(y, x) /\ Keeps(y, x) /\ Awake(x)
  BY <1>0, <1>2, <1>5, <1>6, <1>7, ReportKeeps
<1>9. Len(w.answers) \in Nat /\ Len(z.answers) \in Nat /\ Len(y.answers) \in Nat /\ Len(x.answers) \in Nat
  BY <1>0, <1>3, <1>6, <1>8 DEF WorkerInv, Workers
<1>10. Grows(w, x)
  <2>1. Grows(w, y)
    BY <1>4, <1>6, <1>9, GrowsTransitive
  <2> QED
    BY <1>8, <1>9, <2>1, GrowsTransitive
<1>11. Tokens(w, x, "solving", r.id)
  <2>1. CASE o.raised = "input"
    <3>1. Tokens(w, y, "none", NoId)
      BY <1>4, <1>6, <2>1, TokensTransitive
    <3> QED
      BY <1>8, <2>1, <3>1, TokensThenOne
  <2>2. CASE o.raised # "input"
    <3>1. Tokens(w, y, "solving", r.id)
      BY <1>4, <1>6, TokensTransitive
    <3>2. Tokens(y, x, "none", NoId)
      BY <1>5, <1>8, <2>2
    <3> QED
      BY <3>1, <3>2, TokensTransitive
  <2> QED
    BY <2>1, <2>2
<1> QED
  BY <1>8, <1>10, <1>11

(***************************************************************************)
(* An encoding resolves                                                     *)
(***************************************************************************)

\* What a continuation of the Worker leaves, and whether it forgets what is parked.
Continues(w, x, s) ==
    /\ WorkerInv(x, s) /\ Tokens(w, x, "none", NoId) /\ Grows(w, x) /\ Keeps(w, x)
    /\ Awake(x) \/ (x.deferred = w.deferred /\ (Blocked(w) => Blocked(x)))

\* A handler continues, and then the parked request runs.
LEMMA ContinuesThen ==
    ASSUME NEW s \in Nat, NEW w, WorkerInv(w, s), NEW z, WorkerInv(z, s),
           Tokens(w, z, "none", NoId), Grows(w, z), Keeps(w, z), NEW x \in RunDeferred(z)
    PROVE  Continues(w, x, s)
<1>1. /\ WorkerInv(x, s) /\ Tokens(z, x, "none", NoId) /\ Grows(z, x) /\ Keeps(z, x) /\ Awake(x)
  BY DeferredRuns
<1>2. Tokens(w, x, "none", NoId)
  BY <1>1, TokensTransitive
<1>3. Len(w.answers) \in Nat /\ Len(z.answers) \in Nat /\ Len(x.answers) \in Nat
  BY <1>1 DEF WorkerInv, Workers
<1>4. Grows(w, x)
  BY <1>1, <1>3, GrowsTransitive
<1> QED
  BY <1>1, <1>2, <1>4 DEF Continues, Keeps

\* A job that was encoded is answered.
LEMMA TokenMoves ==
    ASSUME NEW w, w.answers \in Seq(Answers), NEW x, NEW e \in w.encodings, NEW a \in Answers,
           AnsJob(a) = EncJob(e), a.id = e.id,
           \A f \in w.encodings : EncJob(f) = EncJob(e) /\ f.id = e.id => f = e,
           x.encodings = w.encodings \ {e}, x.answers = Append(w.answers, a),
           x.deferred = w.deferred
    PROVE  Tokens(w, x, "none", NoId)
<1> DEFINE z == [encodings |-> w.encodings \ {e}, answers |-> w.answers, deferred |-> w.deferred]
<1>1. z.encodings = w.encodings \ {e} /\ z.answers = w.answers /\ z.deferred = w.deferred
  OBVIOUS
<1> HIDE DEF z
<1>2. Tokens(w, z, "none", NoId)
  BY <1>1, TokensSame
<1>3. Tokens(z, x, AnsJob(a), a.id)
  BY <1>1, TokensAnswered
<1>4. Encoded(w, EncJob(e), e.id) /\ ~Encoded(z, EncJob(e), e.id)
  BY <1>1 DEF Encoded
<1>5. \A job, i : /\ Parked(z, job, i) <=> Parked(w, job, i)
                  /\ Answered(z, job, i) <=> Answered(w, job, i)
  BY <1>1 DEF Parked, Answered
<1>6. OnceInWorker(w, EncJob(e), e.id) => ~InWorker(z, EncJob(e), e.id)
  BY <1>4, <1>5 DEF OnceInWorker, InWorker
<1> SUFFICES ASSUME NEW job \in Jobs, NEW i \in Ids
             PROVE  /\ InWorker(x, job, i) => InWorker(w, job, i)
                    /\ OnceInWorker(w, job, i) => OnceInWorker(x, job, i)
  BY DEF Tokens
<1>7. /\ InWorker(z, job, i) => InWorker(w, job, i)
      /\ OnceInWorker(w, job, i) => OnceInWorker(z, job, i)
  BY <1>2 DEF Tokens, Jobs
<1>8. /\ InWorker(x, job, i) => InWorker(z, job, i) \/ (job = EncJob(e) /\ i = e.id)
      /\ OnceInWorker(z, job, i) /\ ~(job = EncJob(e) /\ i = e.id /\ InWorker(z, job, i))
          => OnceInWorker(x, job, i)
  BY <1>3 DEF Tokens
<1>9. job = EncJob(e) /\ i = e.id => InWorker(w, job, i)
  BY <1>4 DEF InWorker
<1> QED
  BY <1>6, <1>7, <1>8, <1>9

\* Nobody else waits for this encoding.
LEMMA OwnEncoding ==
    ASSUME NEW s \in Nat, NEW w, WorkerInv(w, s), NEW e \in w.encodings,
           e.id.gen = w.activeGeneration
    PROVE  \A f \in w.encodings : EncJob(f) = EncJob(e) /\ f.id = e.id => f = e
<1> SUFFICES ASSUME NEW f \in w.encodings, EncJob(f) = EncJob(e), f.id = e.id
             PROVE  f = e
  OBVIOUS
<1>1. e \in Encodings /\ f \in Encodings
  BY DEF WorkerInv, Workers
<1>2. CASE e.kind = "create"
  <2>1. f.kind = "create"
    BY <1>2 DEF EncJob
  <2>2. f.view = e.view
    BY <1>2, <2>1 DEF WorkerInv, WorkerForm, EncodingForm
  <2> QED
    BY <1>1, <1>2, <2>1, <2>2 DEF Encodings
<1>3. CASE e.kind # "create"
  <2>1. f.kind # "create"
    BY <1>3 DEF EncJob
  <2> QED
    BY <1>3, <2>1 DEF WorkerInv, EncodingInv
<1> QED
  BY <1>2, <1>3

\* An encoding that came too late: its step is withdrawn, and the navigation it had
\* is given back.
LEMMA LateEncoding ==
    ASSUME NEW s \in Nat, NEW w, WorkerInv(w, s), NEW e \in w.encodings, NEW n, NEW t,
           n = w.navigation \/ (n = NoId /\ w.navigation = e.id),
           t = IF e.kind = "next" /\ w.session.id = e.view.session
               THEN WithoutNext(w.session) ELSE w.session,
           ~SeeksFor(w, e)
    PROVE  LET z == [w EXCEPT !.encodings = @ \ {e}, !.session = t, !.navigation = n]
           IN /\ WorkerInv(z, s) /\ Tokens(w, z, "none", NoId) /\ Grows(w, z) /\ Keeps(w, z)
              /\ z.deferred = w.deferred /\ (n = w.navigation /\ Blocked(w) => Blocked(z))
<1> DEFINE z == [w EXCEPT !.encodings = @ \ {e}, !.session = t, !.navigation = n]
           left == w.encodings \ {e}
           mine == e.kind = "next" /\ w.session.id = e.view.session
<1>0. w \in Workers /\ w.session \in Sessions /\ w.answers \in Seq(Answers)
      /\ WorkerForm(w, s) /\ EncodingInv(w) /\ StagedInv(w) /\ StepInv(w) /\ SeekInv(w)
  BY DEF WorkerInv, Workers
<1>1. /\ t \in Sessions /\ t.id = w.session.id /\ t.cursor = w.session.cursor
      /\ t.prepared = w.session.prepared /\ t.seek = w.session.seek
      /\ mine => t.next = Nothing
      /\ ~mine => t.next = w.session.next
      /\ w.session = NoSession => t = NoSession
  BY <1>0 DEF WithoutNext, Sessions, NoSession, NewSession
<1>2. n \in Ids
  BY <1>0, FlowAssumption DEF Workers, NoId, Id, Ids, Generations
<1> HIDE DEF left
<1>3. left \subseteq w.encodings /\ e \notin left
      /\ (\A f \in w.encodings : f \in left \/ f = e)
  BY DEF left
<1>4. /\ z \in Workers
      /\ z.activeGeneration = w.activeGeneration /\ z.session = t
      /\ z.stagedFlowCurrent = w.stagedFlowCurrent
      /\ z.stagedFlowEvent = w.stagedFlowEvent /\ z.stagedFlowSeek = w.stagedFlowSeek
      /\ z.seekOperation = w.seekOperation /\ z.navigation = n
      /\ z.deferred = w.deferred /\ z.encodings = left /\ z.answers = w.answers
  <2>1. z = [w EXCEPT !.encodings = left, !.session = t, !.navigation = n]
    BY DEF left
  <2>2. left \in SUBSET Encodings
    BY <1>0, <1>3 DEF Workers
  <2> QED
    BY <1>0, <1>1, <1>2, <2>1, <2>2 DEF Workers
<1> HIDE DEF z
<1>5. mine => w.stagedFlowEvent = Nobody
              /\ (\A f \in left : ~(f.kind = "next" /\ f.view.session = w.session.id))
  BY <1>0, <1>3 DEF StepInv
<1>6. \A f \in left : f.kind # "create" /\ f.id.gen = w.activeGeneration => n = f.id
  <2> SUFFICES ASSUME NEW f \in left, f.kind # "create", f.id.gen = w.activeGeneration,
                      n # f.id
               PROVE  FALSE
    OBVIOUS
  <2>1. w.navigation = f.id /\ n = NoId /\ w.navigation = e.id
    BY <1>0, <1>3 DEF EncodingInv
  <2>2. e.kind # "create"
    <3>1. EncodingForm(e) /\ EncodingForm(f)
      BY <1>0, <1>3 DEF WorkerForm
    <3>2. e.id = f.id
      BY <2>1
    <3>3. f.id.serial \in Nat /\ f.id.serial > 0
      BY <1>0, <1>3, <3>1 DEF EncodingForm, Workers, Encodings, Ids
    <3>4. e.kind = "create" => e.id.serial = 0
      BY <3>1 DEF EncodingForm
    <3>5. e.id.serial # 0
      BY <3>2, <3>3
    <3> QED
      BY <3>4, <3>5
  <2>3. e = f
    BY <1>0, <1>3, <2>1, <2>2 DEF EncodingInv
  <2> QED
    BY <1>3, <2>3
<1>7. Blocked(z) => Blocked(w)
  BY <1>4 DEF Blocked, Pending
<1>8. WorkerForm(z, s)
  BY <1>0, <1>1, <1>3, <1>4 DEF WorkerForm
<1>9. EncodingInv(z)
  <2>1. \A f \in left : f.kind # "create" /\ f.id.gen = w.activeGeneration =>
          /\ n = f.id
          /\ \A h \in left : h.kind # "create" /\ h.id.gen = w.activeGeneration => f = h
    BY <1>0, <1>3, <1>6 DEF EncodingInv
  <2>2. \A f \in left : f.kind = "create" =>
          /\ t.id # f.id.gen
          /\ w.stagedFlowCurrent # f.id
          /\ w.deferred = NoRequest \/ w.deferred.id.gen # f.id.gen
          /\ \A h \in left : h.kind # "create" => h.view.session # f.id.gen
          /\ f.id.gen = w.activeGeneration => ~Blocked(w)
    BY <1>0, <1>1, <1>3 DEF EncodingInv
  <2> QED
    BY <1>4, <1>7, <2>1, <2>2 DEF EncodingInv
<1>10. StagedInv(z)
  <2>1. n # NoId => ~Pending(z)
    BY <1>0, <1>4 DEF StagedInv, Pending
  <2>2. w.stagedFlowCurrent # NoId =>
        /\ w.stagedFlowCurrent = Id(w.activeGeneration, 0)
        /\ t.id # w.activeGeneration
        /\ \A f \in left : f.kind # "create" => f.view.session # w.activeGeneration
        /\ w.stagedFlowEvent = Nobody /\ w.stagedFlowSeek = Nobody
    BY <1>0, <1>1, <1>3 DEF StagedInv
  <2>3. w.stagedFlowEvent # Nobody =>
        /\ w.stagedFlowEvent.session = t.id /\ t.next # Nothing
        /\ w.stagedFlowEvent.id.gen = w.activeGeneration /\ w.stagedFlowEvent.id.serial > 0
        /\ w.stagedFlowSeek = Nobody
    BY <1>0, <1>1, <1>5 DEF StagedInv
  <2>4. w.stagedFlowSeek # Nobody =>
        /\ w.stagedFlowSeek.session = t.id /\ t.seek # Nothing
        /\ w.stagedFlowSeek.id.gen = w.activeGeneration /\ w.stagedFlowSeek.id.serial > 0
        /\ t.next = Nothing
    BY <1>0, <1>1 DEF StagedInv
  <2> QED
    BY <1>4, <2>1, <2>2, <2>3, <2>4 DEF StagedInv
<1>11. StepInv(z)
  <2>1. t.next # Nothing =>
        \/ w.stagedFlowEvent # Nobody
        \/ \E f \in left : f.kind = "next" /\ f.view.session = t.id /\ f.view.cursor = t.next
    <3>1. CASE mine
      BY <1>1, <3>1
    <3>2. CASE ~mine
      <4>1. t.next # Nothing /\ w.stagedFlowEvent = Nobody =>
              \E f \in w.encodings : f.kind = "next" /\ f.view.session = t.id /\ f.view.cursor = t.next
        BY <1>0, <1>1, <3>2 DEF StepInv
      <4> QED
        BY <1>1, <1>3, <3>2, <4>1
    <3> QED
      BY <3>1, <3>2
  <2>2. \A f \in left : f.kind = "next" /\ f.view.session = t.id =>
        /\ t.next = f.view.cursor /\ w.stagedFlowEvent = Nobody
        /\ \A h \in left : h.kind = "next" /\ h.view.session = t.id => h = f
    <3>1. CASE mine
      BY <1>1, <1>5, <3>1
    <3>2. CASE ~mine
      BY <1>0, <1>1, <1>3, <3>2 DEF StepInv
    <3> QED
      BY <3>1, <3>2
  <2> QED
    BY <1>4, <2>1, <2>2 DEF StepInv
<1>12. SeekInv(z)
  <2>1. \A f : SeeksFor(z, f) <=> SeeksFor(w, f)
    BY <1>1, <1>4 DEF SeeksFor
  <2>2. t.seek # Nothing =>
          \/ w.stagedFlowSeek # Nobody
          \/ \E f \in left : SeeksFor(w, f) /\ f.view.cursor = t.seek
    BY <1>0, <1>1, <1>3 DEF SeekInv
  <2>3. \A f \in left : SeeksFor(w, f) =>
          t.seek = f.view.cursor /\ t.prepared = f.view.prepared /\ t.next = Nothing
    BY <1>0, <1>1, <1>3 DEF SeekInv
  <2> QED
    BY <1>4, <2>1, <2>2, <2>3 DEF SeekInv
<1>13. Tokens(w, z, "none", NoId)
  BY <1>3, <1>4, TokensSame
<1>14. Keeps(w, z)
  <2>1. w.stagedFlowEvent # Nobody => t.next = w.session.next
    BY <1>1, <1>5
  <2> QED
    BY <1>1, <1>4, <2>1 DEF Keeps, Offered
<1>15. Grows(w, z)
  BY <1>0, <1>1, <1>3, <1>4 DEF Grows, Standing
<1>16. n = w.navigation /\ Blocked(w) => Blocked(z)
  BY <1>4 DEF Blocked, Pending
<1> QED
  BY <1>4, <1>8, <1>9, <1>10, <1>11, <1>12, <1>13, <1>14, <1>15, <1>16 DEF WorkerInv, z

\* A handler that was overtaken gives its navigation back.
LEMMA LateContinues ==
    ASSUME NEW s \in Nat, NEW w, WorkerInv(w, s), NEW e \in w.encodings, NEW t,
           t = IF e.kind = "next" /\ w.session.id = e.view.session
               THEN WithoutNext(w.session) ELSE w.session,
           ~SeeksFor(w, e),
           NEW x \in FinishFlowNavigation([w EXCEPT !.encodings = @ \ {e}, !.session = t], e.id)
    PROVE  Continues(w, x, s)
<1> DEFINE y == [w EXCEPT !.encodings = @ \ {e}, !.session = t]
           z(n) == [w EXCEPT !.encodings = @ \ {e}, !.session = t, !.navigation = n]
<1>0. w \in Workers
  BY DEF WorkerInv
<1>1. y.navigation = w.navigation
  BY <1>0 DEF Workers
<1>2. CASE w.navigation = e.id
  <2>1. [y EXCEPT !.navigation = NoId] = z(NoId)
    BY <1>0 DEF Workers
  <2>2. x \in RunDeferred(z(NoId))
    BY <1>1, <1>2, <2>1 DEF FinishFlowNavigation
  <2>3. /\ WorkerInv(z(NoId), s) /\ Tokens(w, z(NoId), "none", NoId) /\ Grows(w, z(NoId))
        /\ Keeps(w, z(NoId))
    BY <1>2, LateEncoding
  <2> HIDE DEF z
  <2> QED
    BY <2>2, <2>3, ContinuesThen
<1>3. CASE w.navigation # e.id
  <2>0. PICK n : n = w.navigation
    OBVIOUS
  <2>1. y = z(n)
    BY <1>0, <2>0 DEF Workers
  <2>2. x = y
    BY <1>1, <1>3 DEF FinishFlowNavigation
  <2>3. /\ WorkerInv(z(n), s) /\ Tokens(w, z(n), "none", NoId)
        /\ Grows(w, z(n)) /\ Keeps(w, z(n))
        /\ z(n).deferred = w.deferred /\ (Blocked(w) => Blocked(z(n)))
    <3>1. WorkerInv(z(n), s) /\ Tokens(w, z(n), "none", NoId)
      BY <2>0, LateEncoding
    <3>2. Grows(w, z(n)) /\ Keeps(w, z(n))
      BY <2>0, LateEncoding
    <3>4. z(n).deferred = w.deferred
      BY <1>0 DEF Workers
    <3>3. Blocked(w) => Blocked(z(n))
      BY <2>0, LateEncoding
    <3> QED
      BY <3>1, <3>2, <3>3, <3>4
  <2> HIDE DEF z, y
  <2> QED
    BY <2>1, <2>2, <2>3 DEF Continues
<1> QED
  BY <1>2, <1>3

\* The frame that a handler leaves when its publication is staged.
LEMMA PublicationAnswers ==
    ASSUME NEW s \in Nat, NEW w, WorkerInv(w, s), NEW e \in w.encodings, NEW kind \in Publications,
           kind = "ready" <=> e.kind = "create", e.id.gen = w.activeGeneration
    PROVE  LET a == Packet(kind, e.id, e.view)
           IN /\ a \in Answers /\ a.id = e.id /\ a.view = e.view /\ AnsJob(a) = EncJob(e)
              /\ Append(w.answers, a) \in Seq(Answers)
              /\ \A k \in 1 .. Len(Append(w.answers, a)) :
                   Named(Append(w.answers, a)[k].id, w.activeGeneration, s)
                   /\ AnswerForm(Append(w.answers, a)[k])
<1> DEFINE a == Packet(kind, e.id, e.view)
<1>1. /\ e \in Encodings /\ w.answers \in Seq(Answers) /\ EncodingForm(e)
      /\ Named(e.id, w.activeGeneration, s)
  BY DEF WorkerInv, Workers, WorkerForm
<1>2. a.kind = kind /\ a.id = e.id /\ a.view = e.view /\ a.source = "none" /\ a \in Answers
  BY <1>1 DEF Packet, Answers, Encodings
<1> HIDE DEF a
<1>3. kind = "ready" \/ kind = "update"
  BY DEF Publications
<1>4. AnswerForm(a) /\ AnsJob(a) = EncJob(e)
  <2>1. e.kind = "create" => e.id.serial = 0
    BY <1>1 DEF EncodingForm
  <2>2. e.kind # "create" => e.id.serial > 0
    BY <1>1 DEF EncodingForm
  <2> QED
    BY <1>2, <1>3, <2>1, <2>2 DEF AnswerForm, AnsJob, EncJob
<1>5. \A k \in 1 .. Len(w.answers) :
        Named(w.answers[k].id, w.activeGeneration, s) /\ AnswerForm(w.answers[k])
  BY DEF WorkerInv, WorkerForm
<1>6. Named(a.id, w.activeGeneration, s)
  BY <1>1, <1>2
<1>7. /\ Append(w.answers, a) \in Seq(Answers)
      /\ \A k \in 1 .. Len(Append(w.answers, a)) :
           Named(Append(w.answers, a)[k].id, w.activeGeneration, s)
           /\ AnswerForm(Append(w.answers, a)[k])
  BY <1>1, <1>2, <1>4, <1>5, <1>6, AppendedForms
<1> QED
  BY <1>2, <1>4, <1>7 DEF a

\* Growth by one publication that is offered.
LEMMA GrowsOffered ==
    ASSUME NEW w, NEW x, NEW a \in Answers, w.answers \in Seq(Answers),
           x.answers = Append(w.answers, a), Offered(x, a.id, a.view),
           x.activeGeneration = w.activeGeneration, Standing(x) = Standing(w),
           x.encodings \subseteq w.encodings, x.deferred = w.deferred
    PROVE  Grows(w, x)
<1>1. /\ Len(x.answers) = Len(w.answers) + 1 /\ Len(w.answers) \in Nat
      /\ x.answers[Len(w.answers) + 1] = a
      /\ \A k \in 1 .. Len(w.answers) : x.answers[k] = w.answers[k]
  OBVIOUS
<1>2. \A k \in 1 .. Len(x.answers) : k > Len(w.answers) => k = Len(w.answers) + 1
  BY <1>1
<1> QED
  BY <1>1, <1>2 DEF Grows

\* The first frame of a scenario is encoded.
LEMMA CreateResolves ==
    ASSUME NEW s \in Nat, NEW w, WorkerInv(w, s), NEW e \in w.encodings, e.kind = "create",
           NEW x \in ResolveCreate([w EXCEPT !.encodings = @ \ {e}], e)
    PROVE  Continues(w, x, s)
<1> DEFINE y == [w EXCEPT !.encodings = @ \ {e}]
           left == w.encodings \ {e}
<1>0. w \in Workers /\ w.session \in Sessions /\ w.answers \in Seq(Answers) /\ e \in Encodings
      /\ WorkerForm(w, s) /\ EncodingInv(w) /\ StagedInv(w) /\ StepInv(w) /\ SeekInv(w)
  BY DEF WorkerInv, Workers
<1>1. y.activeGeneration = w.activeGeneration /\ y.stagedFlowCurrent = w.stagedFlowCurrent
  BY <1>0 DEF Workers
<1>2. CASE e.id.gen # w.activeGeneration
  <2>0. PICK n, t : n = w.navigation /\ t = w.session
    OBVIOUS
  <2> DEFINE z == [w EXCEPT !.encodings = @ \ {e}, !.session = t, !.navigation = n]
  <2>1. x = y
    BY <1>1, <1>2 DEF ResolveCreate
  <2>2. y = z
    BY <1>0, <2>0 DEF Workers
  <2>3. /\ WorkerInv(z, s) /\ Tokens(w, z, "none", NoId) /\ Grows(w, z) /\ Keeps(w, z)
        /\ z.deferred = w.deferred /\ (Blocked(w) => Blocked(z))
    <3>1. ~SeeksFor(w, e)
      BY DEF SeeksFor
    <3>2. WorkerInv(z, s) /\ Tokens(w, z, "none", NoId) /\ Grows(w, z) /\ Keeps(w, z)
      BY <2>0, <3>1, LateEncoding
    <3>3. Blocked(w) => Blocked(z)
      BY <2>0, <3>1, LateEncoding
    <3>4. z.deferred = w.deferred
      BY <1>0 DEF Workers
    <3> QED
      BY <3>2, <3>3, <3>4
  <2> HIDE DEF y, z
  <2> QED
    BY <2>1, <2>2, <2>3 DEF Continues
<1>3. CASE e.id.gen = w.activeGeneration
  <2> DEFINE a == Packet("ready", e.id, e.view)
  <2>1. ~Blocked(w)
    BY <1>0, <1>3 DEF EncodingInv
  <2>2. /\ w.navigation = NoId /\ w.stagedFlowCurrent = NoId /\ w.stagedFlowEvent = Nobody
        /\ w.stagedFlowSeek = Nobody
    BY <2>1 DEF Blocked, Pending
  <2>3. /\ a \in Answers /\ a.id = e.id /\ a.view = e.view /\ AnsJob(a) = EncJob(e)
        /\ Append(w.answers, a) \in Seq(Answers)
        /\ \A k \in 1 .. Len(Append(w.answers, a)) :
             Named(Append(w.answers, a)[k].id, w.activeGeneration, s)
             /\ AnswerForm(Append(w.answers, a)[k])
    BY <1>3, PublicationAnswers DEF Publications
  <2>4. x = Respond([y EXCEPT !.stagedFlowCurrent = e.id], a)
    BY <1>1, <1>3, <2>2 DEF ResolveCreate
  <2> HIDE DEF left, a
  <2>5. left \subseteq w.encodings /\ e \notin left
    BY DEF left
  <2>6. e.id \in Ids
    BY <1>0 DEF Encodings
  <2>7. x = [w EXCEPT !.encodings = left, !.stagedFlowCurrent = e.id,
                      !.answers = Append(w.answers, a)]
    BY <1>0, <2>4 DEF left, Respond, Workers
  <2>8. /\ x \in Workers
        /\ x.activeGeneration = w.activeGeneration /\ x.session = w.session
        /\ x.stagedFlowCurrent = e.id
        /\ x.stagedFlowEvent = Nobody /\ x.stagedFlowSeek = Nobody
        /\ x.seekOperation = w.seekOperation /\ x.navigation = NoId
        /\ x.deferred = w.deferred /\ x.encodings = left /\ x.answers = Append(w.answers, a)
    BY <1>0, <2>2, <2>3, <2>5, <2>6, <2>7 DEF Workers
  <2> HIDE DEF y
  <2>9. /\ EncodingForm(e) /\ e.id.serial = 0 /\ e.view = View(e.id.gen, 0, FALSE)
        /\ e.id = Id(w.activeGeneration, 0) /\ e.id # NoId
    <3>1. EncodingForm(e) /\ Named(e.id, w.activeGeneration, s)
      BY <1>0 DEF WorkerForm
    <3>2. e.id.serial = 0 /\ e.view = View(e.id.gen, 0, FALSE)
      BY <3>1 DEF EncodingForm
    <3>3. e.id = Id(w.activeGeneration, 0)
      BY <1>3, <2>6, <3>2 DEF Id, Ids
    <3>4. e.id.gen # 0
      BY <2>6, <3>1 DEF Named, Ids, Generations
    <3> QED
      BY <3>1, <3>2, <3>3, <3>4 DEF NoId, Id
  <2>10. WorkerForm(x, s)
    BY <1>0, <2>3, <2>5, <2>8 DEF WorkerForm
  <2>11. \A f \in left : f.kind = "create" => f.id # e.id /\ f.id.gen # w.activeGeneration
    <3> SUFFICES ASSUME NEW f \in left, f.kind = "create", f.id = e.id \/ f.id.gen = w.activeGeneration
                 PROVE  FALSE
      OBVIOUS
    <3>1. f \in w.encodings /\ EncodingForm(f) /\ f \in Encodings
      BY <1>0, <2>5 DEF WorkerForm, Workers
    <3>2. f.id.serial = 0 /\ f.id.gen = w.activeGeneration
      BY <1>3, <3>1 DEF EncodingForm
    <3>3. f.id = e.id
      BY <1>3, <2>6, <2>9, <3>1, <3>2 DEF Ids, Encodings
    <3>4. f = e
      BY <1>3, <3>1, <3>3, OwnEncoding DEF EncJob
    <3> QED
      BY <2>5, <3>4
  <2>12. EncodingInv(x)
    <3>1. \A f \in left : f.kind # "create" => f.id.gen # w.activeGeneration
      <4>1. \A f \in left : f.kind # "create" /\ f.id.gen = w.activeGeneration => f.id = NoId
        BY <1>0, <2>2, <2>5 DEF EncodingInv
      <4>2. \A f \in left : Named(f.id, w.activeGeneration, s)
        BY <1>0, <2>5 DEF WorkerForm
      <4> QED
        BY <4>1, <4>2 DEF Named, NoId, Id
    <3>2. \A f \in left : f.kind = "create" =>
            /\ w.session.id # f.id.gen
            /\ w.deferred = NoRequest \/ w.deferred.id.gen # f.id.gen
            /\ \A h \in left : h.kind # "create" => h.view.session # f.id.gen
      BY <1>0, <2>5 DEF EncodingInv
    <3> QED
      BY <2>8, <2>11, <3>1, <3>2 DEF EncodingInv
  <2>13. StagedInv(x)
    <3>1. w.session.id # w.activeGeneration
          /\ (\A f \in left : f.kind # "create" => f.view.session # w.activeGeneration)
      BY <1>0, <1>3, <2>5 DEF EncodingInv
    <3> QED
      BY <2>8, <2>9, <3>1 DEF StagedInv
  <2>14. StepInv(x)
    <3>1. \A f \in w.encodings : f.kind = "next" => f \in left
      BY DEF left
    <3> QED
      BY <1>0, <2>2, <2>5, <2>8, <3>1 DEF StepInv
  <2>15. SeekInv(x)
    <3>1. \A f \in w.encodings : f.kind = "seek" => f \in left
      BY DEF left
    <3> QED
      BY <1>0, <2>2, <2>5, <2>8, <3>1 DEF SeekInv, SeeksFor
  <2>16. Tokens(w, x, "none", NoId)
    <3>1. \A f \in w.encodings : EncJob(f) = EncJob(e) /\ f.id = e.id => f = e
      BY <1>3, OwnEncoding
    <3>2. x.encodings = w.encodings \ {e}
      BY <2>8 DEF left
    <3> QED
      BY <1>0, <2>3, <2>8, <3>1, <3>2, TokenMoves
  <2>17. Offered(x, a.id, a.view)
    BY <2>3, <2>8, <2>9 DEF Offered
  <2>18. Grows(w, x)
    BY <1>0, <2>3, <2>5, <2>8, <2>17, GrowsOffered DEF Standing
  <2>19. Keeps(w, x)
    BY <2>2 DEF Keeps, Offered
  <2>20. Awake(x)
    BY <2>8, <2>9 DEF Awake, Blocked, Pending
  <2> QED
    BY <2>8, <2>10, <2>12, <2>13, <2>14, <2>15, <2>16, <2>18, <2>19, <2>20 DEF WorkerInv, Continues
<1> QED
  BY <1>2, <1>3

\* The frame of a step is encoded, and its publication is staged.
LEMMA NextStaged ==
    ASSUME NEW s \in Nat, NEW w, WorkerInv(w, s), NEW e \in w.encodings, e.kind = "next",
           e.id.gen = w.activeGeneration, w.session.id = e.view.session,
           NEW x \in ResolveNext([w EXCEPT !.encodings = @ \ {e}], e)
    PROVE  Continues(w, x, s)
<1> DEFINE y == [w EXCEPT !.encodings = @ \ {e}]
           left == w.encodings \ {e}
           a == Packet("update", e.id, e.view)
           owner == [id |-> e.id, session |-> e.view.session]
           z == [w EXCEPT !.encodings = left, !.stagedFlowEvent = owner,
                          !.answers = Append(w.answers, a), !.navigation = NoId]
<1>0. w \in Workers /\ w.session \in Sessions /\ w.answers \in Seq(Answers) /\ e \in Encodings
      /\ WorkerForm(w, s) /\ EncodingInv(w) /\ StagedInv(w) /\ StepInv(w) /\ SeekInv(w)
  BY DEF WorkerInv, Workers
<1>1. e.id.serial > 0 /\ Named(e.id, w.activeGeneration, s) /\ e.id # NoId
  <2>1. EncodingForm(e) /\ Named(e.id, w.activeGeneration, s)
    BY <1>0 DEF WorkerForm
  <2> QED
    BY <1>0, <2>1 DEF EncodingForm, Named, NoId, Id, Encodings, Ids, Generations
<1>2. /\ w.navigation = e.id /\ w.stagedFlowCurrent = NoId /\ w.stagedFlowEvent = Nobody
      /\ w.stagedFlowSeek = Nobody
      /\ \A f \in w.encodings : f.kind # "create" /\ f.id.gen = w.activeGeneration => f = e
  <2>1. w.navigation = e.id
    BY <1>0 DEF EncodingInv
  <2>2. ~Pending(w)
    BY <1>0, <1>1, <2>1 DEF StagedInv
  <2>3. \A f \in w.encodings : f.kind # "create" /\ f.id.gen = w.activeGeneration => f = e
    BY <1>0 DEF EncodingInv
  <2> QED
    BY <2>1, <2>2, <2>3 DEF Pending
<1>3. /\ a \in Answers /\ a.id = e.id /\ a.view = e.view /\ AnsJob(a) = EncJob(e)
      /\ Append(w.answers, a) \in Seq(Answers)
      /\ \A k \in 1 .. Len(Append(w.answers, a)) :
           Named(Append(w.answers, a)[k].id, w.activeGeneration, s)
           /\ AnswerForm(Append(w.answers, a)[k])
  BY PublicationAnswers DEF Publications
<1>4. x \in FinishFlowNavigation(Respond([y EXCEPT !.stagedFlowEvent = owner], a), e.id)
  <2>1. /\ y.activeGeneration = w.activeGeneration /\ y.session = w.session
        /\ y.stagedFlowEvent = Nobody /\ y.seekOperation = w.seekOperation
    BY <1>0, <1>2 DEF Workers
  <2>2. x \in ResolveNext(y, e)
    OBVIOUS
  <2> HIDE DEF y, a, owner
  <2>3. owner = [id |-> e.id, session |-> e.view.session] /\ a = Packet("update", e.id, e.view)
    BY DEF owner, a
  <2> QED
    BY <2>1, <2>2, <2>3 DEF ResolveNext
<1>5. x \in RunDeferred(z)
  <2>1. Respond([y EXCEPT !.stagedFlowEvent = owner], a) =
          [w EXCEPT !.encodings = left, !.stagedFlowEvent = owner, !.answers = Append(w.answers, a)]
    BY <1>0 DEF Respond, Workers
  <2> HIDE DEF left, a, owner, y
  <2> DEFINE y1 == [w EXCEPT !.encodings = left, !.stagedFlowEvent = owner,
                             !.answers = Append(w.answers, a)]
  <2>2. y1.navigation = e.id
    BY <1>0, <1>2 DEF Workers
  <2>3. [y1 EXCEPT !.navigation = NoId] = z
    BY <1>0 DEF Workers
  <2> HIDE DEF y1, z
  <2>4. x \in FinishFlowNavigation(y1, e.id)
    BY <1>4, <2>1 DEF y1
  <2> QED
    BY <2>2, <2>3, <2>4 DEF FinishFlowNavigation
<1>6. owner \in Owners /\ owner.id = e.id /\ owner.session = w.session.id /\ owner # Nobody
      /\ NoId \in Ids
  <2>1. owner \in Owners /\ owner.id = e.id /\ owner.session = w.session.id
    BY <1>0 DEF Owners, Encodings, Views
  <2>2. Nobody.id = NoId /\ NoId \in Ids
    BY FlowAssumption DEF Nobody, NoId, Id, Ids, Generations
  <2> QED
    BY <1>1, <2>1, <2>2
<1> HIDE DEF left, a, owner
<1>7. left \subseteq w.encodings /\ e \notin left /\ (\A f \in w.encodings : f \in left \/ f = e)
  BY DEF left
<1>8. /\ z \in Workers
      /\ z.activeGeneration = w.activeGeneration /\ z.session = w.session
      /\ z.stagedFlowCurrent = NoId
      /\ z.stagedFlowEvent = owner /\ z.stagedFlowSeek = Nobody
      /\ z.seekOperation = w.seekOperation /\ z.navigation = NoId
      /\ z.deferred = w.deferred /\ z.encodings = left /\ z.answers = Append(w.answers, a)
  <2>1. left \in SUBSET Encodings
    BY <1>0, <1>7 DEF Workers
  <2> QED
    BY <1>0, <1>2, <1>3, <1>6, <2>1 DEF Workers
<1> HIDE DEF z
<1>9. WorkerForm(z, s)
  BY <1>0, <1>3, <1>7, <1>8 DEF WorkerForm
<1>10. /\ \A f \in left : f.kind # "create" => f.id.gen # w.activeGeneration
       /\ \A f \in left : f.kind = "create" => f.id.gen # w.activeGeneration
  <2>1. \A f \in left : f.kind # "create" => f.id.gen # w.activeGeneration
    BY <1>2, <1>7
  <2>2. Blocked(w)
    BY <1>1, <1>2 DEF Blocked
  <2>3. \A f \in left : f.kind = "create" => f.id.gen # w.activeGeneration
    BY <1>0, <1>7, <2>2 DEF EncodingInv
  <2> QED
    BY <2>1, <2>3
<1>11. EncodingInv(z)
  <2>1. \A f \in left : f.kind = "create" =>
          /\ w.session.id # f.id.gen
          /\ w.deferred = NoRequest \/ w.deferred.id.gen # f.id.gen
          /\ \A h \in left : h.kind # "create" => h.view.session # f.id.gen
    BY <1>0, <1>7 DEF EncodingInv
  <2>2. \A f \in left : f.id # NoId
    BY <1>0, <1>7 DEF WorkerForm, Named, NoId, Id
  <2> QED
    BY <1>8, <1>10, <2>1, <2>2 DEF EncodingInv
<1>12. w.session.next = e.view.cursor /\ w.session.next # Nothing
       /\ (\A f \in w.encodings : f.kind = "next" /\ f.view.session = w.session.id => f = e)
  BY <1>0 DEF StepInv, Encodings, Views, Cursors, Nothing
<1>13. StagedInv(z)
  BY <1>1, <1>6, <1>8, <1>12 DEF StagedInv, Pending
<1>14. StepInv(z)
  BY <1>6, <1>7, <1>8, <1>12 DEF StepInv
<1>15. SeekInv(z)
  <2>1. w.session.seek # Nothing => \E f \in left : SeeksFor(w, f) /\ f.view.cursor = w.session.seek
    BY <1>0, <1>2, <1>7 DEF SeekInv, SeeksFor
  <2>2. \A f : SeeksFor(z, f) <=> SeeksFor(w, f)
    BY <1>8 DEF SeeksFor
  <2>3. \A f \in left : ~SeeksFor(w, f)
    BY <1>10 DEF SeeksFor
  <2> QED
    BY <1>8, <2>1, <2>2, <2>3 DEF SeekInv
<1>16. Offered(z, a.id, a.view)
  <2>1. e.view = View(w.session.id, w.session.next, TRUE)
    <3>1. EncodingForm(e) /\ e.view \in Views
      BY <1>0 DEF WorkerForm, Encodings
    <3>2. e.view.prepared = TRUE
      BY <3>1 DEF EncodingForm, Views
    <3> QED
      BY <1>12, <3>1, <3>2 DEF View, Views
  <2> QED
    BY <1>3, <1>6, <1>8, <2>1 DEF Offered
<1>17. WorkerInv(z, s)
  BY <1>8, <1>9, <1>11, <1>13, <1>14, <1>15 DEF WorkerInv
<1>18. Tokens(w, z, "none", NoId)
  <2>1. \A f \in w.encodings : EncJob(f) = EncJob(e) /\ f.id = e.id => f = e
    BY OwnEncoding
  <2>2. z.encodings = w.encodings \ {e}
    BY <1>8 DEF left
  <2> QED
    BY <1>0, <1>3, <1>8, <2>1, <2>2, TokenMoves
<1>19. Grows(w, z)
  BY <1>0, <1>3, <1>7, <1>8, <1>16, GrowsOffered DEF Standing
<1>20. Keeps(w, z)
  BY <1>2 DEF Keeps, Offered
<1> QED
  BY <1>5, <1>17, <1>18, <1>19, <1>20, ContinuesThen

\* The frame of a seek is encoded, and its publication is staged.
LEMMA SeekStaged ==
    ASSUME NEW s \in Nat, NEW w, WorkerInv(w, s), NEW e \in w.encodings, e.kind = "seek",
           e.id.gen = w.activeGeneration, w.session.id = e.view.session,
           w.seekOperation = e.id,
           NEW x \in ResolveSeek([w EXCEPT !.encodings = @ \ {e}], e)
    PROVE  Continues(w, x, s)
<1> DEFINE y == [w EXCEPT !.encodings = @ \ {e}]
           left == w.encodings \ {e}
           a == Packet("update", e.id, e.view)
           owner == [id |-> e.id, session |-> e.view.session]
           z == [w EXCEPT !.encodings = left, !.stagedFlowSeek = owner,
                          !.answers = Append(w.answers, a), !.navigation = NoId]
<1>0. w \in Workers /\ w.session \in Sessions /\ w.answers \in Seq(Answers) /\ e \in Encodings
      /\ WorkerForm(w, s) /\ EncodingInv(w) /\ StagedInv(w) /\ StepInv(w) /\ SeekInv(w)
  BY DEF WorkerInv, Workers
<1>1. e.id.serial > 0 /\ Named(e.id, w.activeGeneration, s) /\ e.id # NoId
  <2>1. EncodingForm(e) /\ Named(e.id, w.activeGeneration, s)
    BY <1>0 DEF WorkerForm
  <2> QED
    BY <1>0, <2>1 DEF EncodingForm, Named, NoId, Id, Encodings, Ids, Generations
<1>2. /\ w.navigation = e.id /\ w.stagedFlowCurrent = NoId /\ w.stagedFlowEvent = Nobody
      /\ w.stagedFlowSeek = Nobody
      /\ \A f \in w.encodings : f.kind # "create" /\ f.id.gen = w.activeGeneration => f = e
  <2>1. w.navigation = e.id
    BY <1>0 DEF EncodingInv
  <2>2. ~Pending(w)
    BY <1>0, <1>1, <2>1 DEF StagedInv
  <2>3. \A f \in w.encodings : f.kind # "create" /\ f.id.gen = w.activeGeneration => f = e
    BY <1>0 DEF EncodingInv
  <2> QED
    BY <2>1, <2>2, <2>3 DEF Pending
<1>3. /\ a \in Answers /\ a.id = e.id /\ a.view = e.view /\ AnsJob(a) = EncJob(e)
      /\ Append(w.answers, a) \in Seq(Answers)
      /\ \A k \in 1 .. Len(Append(w.answers, a)) :
           Named(Append(w.answers, a)[k].id, w.activeGeneration, s)
           /\ AnswerForm(Append(w.answers, a)[k])
  BY PublicationAnswers DEF Publications
<1>4. x \in FinishFlowNavigation(Respond([y EXCEPT !.stagedFlowSeek = owner], a), e.id)
  <2>1. /\ y.activeGeneration = w.activeGeneration /\ y.session = w.session
        /\ y.stagedFlowSeek = Nobody /\ y.seekOperation = w.seekOperation
    BY <1>0, <1>2 DEF Workers
  <2>2. x \in ResolveSeek(y, e)
    OBVIOUS
  <2> HIDE DEF y, a, owner
  <2>3. owner = [id |-> e.id, session |-> e.view.session] /\ a = Packet("update", e.id, e.view)
    BY DEF owner, a
  <2> QED
    BY <2>1, <2>2, <2>3 DEF ResolveSeek
<1>5. x \in RunDeferred(z)
  <2>1. Respond([y EXCEPT !.stagedFlowSeek = owner], a) =
          [w EXCEPT !.encodings = left, !.stagedFlowSeek = owner, !.answers = Append(w.answers, a)]
    BY <1>0 DEF Respond, Workers
  <2> HIDE DEF left, a, owner, y
  <2> DEFINE y1 == [w EXCEPT !.encodings = left, !.stagedFlowSeek = owner,
                             !.answers = Append(w.answers, a)]
  <2>2. y1.navigation = e.id
    BY <1>0, <1>2 DEF Workers
  <2>3. [y1 EXCEPT !.navigation = NoId] = z
    BY <1>0 DEF Workers
  <2> HIDE DEF y1, z
  <2>4. x \in FinishFlowNavigation(y1, e.id)
    BY <1>4, <2>1 DEF y1
  <2> QED
    BY <2>2, <2>3, <2>4 DEF FinishFlowNavigation
<1>6. owner \in Owners /\ owner.id = e.id /\ owner.session = w.session.id /\ owner # Nobody
      /\ NoId \in Ids
  <2>1. owner \in Owners /\ owner.id = e.id /\ owner.session = w.session.id
    BY <1>0 DEF Owners, Encodings, Views
  <2>2. Nobody.id = NoId /\ NoId \in Ids
    BY FlowAssumption DEF Nobody, NoId, Id, Ids, Generations
  <2> QED
    BY <1>1, <2>1, <2>2
<1> HIDE DEF left, a, owner
<1>7. left \subseteq w.encodings /\ e \notin left /\ (\A f \in w.encodings : f \in left \/ f = e)
  BY DEF left
<1>8. /\ z \in Workers
      /\ z.activeGeneration = w.activeGeneration /\ z.session = w.session
      /\ z.stagedFlowCurrent = NoId
      /\ z.stagedFlowSeek = owner /\ z.stagedFlowEvent = Nobody
      /\ z.seekOperation = w.seekOperation /\ z.navigation = NoId
      /\ z.deferred = w.deferred /\ z.encodings = left /\ z.answers = Append(w.answers, a)
  <2>1. left \in SUBSET Encodings
    BY <1>0, <1>7 DEF Workers
  <2> QED
    BY <1>0, <1>2, <1>3, <1>6, <2>1 DEF Workers
<1> HIDE DEF z
<1>9. WorkerForm(z, s)
  BY <1>0, <1>3, <1>7, <1>8 DEF WorkerForm
<1>10. /\ \A f \in left : f.kind # "create" => f.id.gen # w.activeGeneration
       /\ \A f \in left : f.kind = "create" => f.id.gen # w.activeGeneration
  <2>1. \A f \in left : f.kind # "create" => f.id.gen # w.activeGeneration
    BY <1>2, <1>7
  <2>2. Blocked(w)
    BY <1>1, <1>2 DEF Blocked
  <2>3. \A f \in left : f.kind = "create" => f.id.gen # w.activeGeneration
    BY <1>0, <1>7, <2>2 DEF EncodingInv
  <2> QED
    BY <2>1, <2>3
<1>11. EncodingInv(z)
  <2>1. \A f \in left : f.kind = "create" =>
          /\ w.session.id # f.id.gen
          /\ w.deferred = NoRequest \/ w.deferred.id.gen # f.id.gen
          /\ \A h \in left : h.kind # "create" => h.view.session # f.id.gen
    BY <1>0, <1>7 DEF EncodingInv
  <2>2. \A f \in left : f.id # NoId
    BY <1>0, <1>7 DEF WorkerForm, Named, NoId, Id
  <2> QED
    BY <1>8, <1>10, <2>1, <2>2 DEF EncodingInv
<1>12. /\ SeeksFor(w, e) /\ w.session.seek = e.view.cursor /\ w.session.seek # Nothing
       /\ w.session.prepared = e.view.prepared /\ w.session.next = Nothing
  <2>1. SeeksFor(w, e)
    BY DEF SeeksFor
  <2>2. /\ w.session.seek = e.view.cursor
        /\ w.session.prepared = e.view.prepared /\ w.session.next = Nothing
    BY <1>0, <2>1 DEF SeekInv
  <2>3. e.view.cursor # Nothing
    BY <1>0 DEF Encodings, Views, Cursors, Nothing
  <2> QED
    BY <2>1, <2>2, <2>3
<1>13. StagedInv(z)
  BY <1>1, <1>6, <1>8, <1>12 DEF StagedInv, Pending
<1>14. StepInv(z)
  BY <1>0, <1>2, <1>7, <1>8 DEF StepInv
<1>15. SeekInv(z)
  <2>1. \A f \in left : ~SeeksFor(z, f)
    BY <1>8, <1>10 DEF SeeksFor
  <2> QED
    BY <1>6, <1>8, <2>1 DEF SeekInv
<1>16. Offered(z, a.id, a.view)
  <2>1. e.view = View(w.session.id, w.session.seek, w.session.prepared)
    BY <1>0, <1>12 DEF View, Views, Encodings
  <2> QED
    BY <1>3, <1>6, <1>8, <2>1 DEF Offered
<1>17. WorkerInv(z, s)
  BY <1>8, <1>9, <1>11, <1>13, <1>14, <1>15 DEF WorkerInv
<1>18. Tokens(w, z, "none", NoId)
  <2>1. \A f \in w.encodings : EncJob(f) = EncJob(e) /\ f.id = e.id => f = e
    BY OwnEncoding
  <2>2. z.encodings = w.encodings \ {e}
    BY <1>8 DEF left
  <2> QED
    BY <1>0, <1>3, <1>8, <2>1, <2>2, TokenMoves
<1>19. Grows(w, z)
  BY <1>0, <1>3, <1>7, <1>8, <1>16, GrowsOffered DEF Standing
<1>20. Keeps(w, z)
  BY <1>2 DEF Keeps, Offered
<1> QED
  BY <1>5, <1>17, <1>18, <1>19, <1>20, ContinuesThen

\* The frame of a step is encoded.
LEMMA NextResolves ==
    ASSUME NEW s \in Nat, NEW w, WorkerInv(w, s), NEW e \in w.encodings, e.kind = "next",
           NEW x \in ResolveNext([w EXCEPT !.encodings = @ \ {e}], e)
    PROVE  Continues(w, x, s)
<1> DEFINE y == [w EXCEPT !.encodings = @ \ {e}]
           t == IF w.session.id = e.view.session THEN WithoutNext(w.session) ELSE w.session
           y1 == [w EXCEPT !.encodings = @ \ {e}, !.session = t]
           current == e.id.gen = w.activeGeneration /\ w.session.id = e.view.session
<1>0. w \in Workers
  BY DEF WorkerInv
<1>1. y.activeGeneration = w.activeGeneration /\ y.session = w.session
  BY <1>0 DEF Workers
<1>2. CASE current
  BY <1>2, NextStaged
<1>3. CASE ~current
  <2>1. WithdrawStep(y, e) = y1
    BY <1>0 DEF WithdrawStep, Workers
  <2>0. x \in ResolveNext(y, e)
    OBVIOUS
  <2> HIDE DEF y, y1, t
  <2>2. PICK v \in FinishFlowNavigation(y1, e.id) : x = Reported(v, e.id, "none")
    BY <1>1, <1>3, <2>0, <2>1 DEF ResolveNext
  <2>3. x \in FinishFlowNavigation(y1, e.id)
    BY <2>2 DEF Reported
  <2>4. ~SeeksFor(w, e)
    BY DEF SeeksFor
  <2>5. t = IF e.kind = "next" /\ w.session.id = e.view.session
            THEN WithoutNext(w.session) ELSE w.session
    BY DEF t
  <2>6. x \in FinishFlowNavigation([w EXCEPT !.encodings = @ \ {e}, !.session = t], e.id)
    BY <2>3 DEF y1
  <2> QED
    BY <2>4, <2>5, <2>6, LateContinues
<1> QED
  BY <1>2, <1>3

\* The frame of a seek is encoded.
LEMMA SeekResolves ==
    ASSUME NEW s \in Nat, NEW w, WorkerInv(w, s), NEW e \in w.encodings, e.kind = "seek",
           NEW x \in ResolveSeek([w EXCEPT !.encodings = @ \ {e}], e)
    PROVE  Continues(w, x, s)
<1> DEFINE y == [w EXCEPT !.encodings = @ \ {e}]
<1>0. w \in Workers
  BY DEF WorkerInv
<1>1. y.activeGeneration = w.activeGeneration /\ y.session = w.session
      /\ y.seekOperation = w.seekOperation
  BY <1>0 DEF Workers
<1>2. CASE SeeksFor(w, e)
  BY <1>2, SeekStaged DEF SeeksFor
<1>3. CASE ~SeeksFor(w, e)
  <2>0. PICK t : t = w.session
    OBVIOUS
  <2>1. y = [w EXCEPT !.encodings = @ \ {e}, !.session = t]
    BY <1>0, <2>0 DEF Workers
  <2>4. x \in ResolveSeek(y, e)
    OBVIOUS
  <2> HIDE DEF y
  <2>2. x \in FinishFlowNavigation(y, e.id)
    BY <1>1, <1>3, <2>4 DEF ResolveSeek, SeeksFor
  <2>3. t = IF e.kind = "next" /\ w.session.id = e.view.session
            THEN WithoutNext(w.session) ELSE w.session
    BY <2>0
  <2> QED
    BY <1>3, <2>1, <2>2, <2>3, LateContinues
<1> QED
  BY <1>2, <1>3

\* Any encoding resolves.
LEMMA Resolves ==
    ASSUME NEW s \in Nat, WorkerInv(worker, s), NEW e, Resolve(e)
    PROVE  Continues(worker, worker', s)
<1>1. e \in worker.encodings /\ e.kind \in {"create", "next", "seek"}
  BY DEF Resolve, WorkerInv, Workers, Encodings, Navigation
<1> QED
  BY <1>1, CreateResolves, NextResolves, SeekResolves DEF Resolve

(***************************************************************************)
(* A request is served                                                      *)
(***************************************************************************)

\* What serving request r makes of the Worker, for what is behind the request.
Serves(w, x, r, s) ==
    /\ WorkerInv(x, s)
    /\ x.activeGeneration \in {w.activeGeneration, r.id.gen}
    /\ w.activeGeneration <= x.activeGeneration
    /\ Tokens(w, x, ReqJob(r), r.id)
    /\ Len(w.answers) <= Len(x.answers)
    /\ \A k \in 1 .. Len(w.answers) : x.answers[k] = w.answers[k]
    /\ \A k \in 1 .. Len(x.answers) : k > Len(w.answers) /\ x.answers[k].kind \in Publications
        => Offered(x, x.answers[k].id, x.answers[k].view)
    /\ \A e \in x.encodings :
        e.kind = "create" => e \in w.encodings \/ (r.kind = "create" /\ e.id = r.id)

\* What is admitted is no verdict: the candidates are withdrawn.
Fresh(w, r) == r.id.gen > w.activeGeneration

\* A request that is no verdict is admitted: what was staged is withdrawn.
LEMMA AdmittedForms ==
    ASSUME NEW s \in Nat, NEW w, WorkerInv(w, s), NEW r \in Requests, ~IsAck(r),
           Named(r.id, r.id.gen, s), ~Stale(w, r)
    PROVE  LET a == Admitted(w, r)
           IN /\ a \in Workers /\ a.activeGeneration = r.id.gen
              /\ a.stagedFlowCurrent = NoId /\ a.stagedFlowEvent = Nobody
              /\ a.navigation = (IF Fresh(w, r) THEN NoId ELSE w.navigation)
              /\ a.deferred = (IF Fresh(w, r) THEN NoRequest ELSE w.deferred)
              /\ a.encodings = w.encodings /\ a.answers = w.answers
              /\ Standing(a) = Standing(w)
              /\ WorkerForm(a, s) /\ EncodingInv(a) /\ StepInv(a)
              /\ r.kind # "seek" => a.stagedFlowSeek = Nobody /\ SeekInv(a)
              /\ a.session.id = 0 => a.stagedFlowSeek = Nobody
<1> USE FlowAssumption
<1> DEFINE a == Admitted(w, r)
           n == IF Fresh(w, r) THEN NoId ELSE w.navigation
           d == IF Fresh(w, r) THEN NoRequest ELSE w.deferred
           owns == w.stagedFlowEvent # Nobody /\ w.stagedFlowEvent.session = w.session.id
           u == IF owns THEN WithoutNext(w.session) ELSE w.session
           seek == r.kind = "seek"
           t == IF seek THEN u ELSE WithoutSeek(u)
           k == IF seek THEN w.stagedFlowSeek ELSE Nobody
           o == IF seek THEN w.seekOperation ELSE NoId
<1>0. w \in Workers /\ w.session \in Sessions /\ w.answers \in Seq(Answers)
      /\ WorkerForm(w, s) /\ EncodingInv(w) /\ StagedInv(w) /\ StepInv(w) /\ SeekInv(w)
      /\ w.activeGeneration \in Generations /\ r.id \in Ids
  BY DEF WorkerInv, Workers, Requests
<1>1. /\ u \in Sessions /\ u.id = w.session.id /\ u.cursor = w.session.cursor
      /\ u.prepared = w.session.prepared /\ u.seek = w.session.seek
      /\ owns => u.next = Nothing
      /\ ~owns => u.next = w.session.next
      /\ w.session = NoSession => u = NoSession
  BY <1>0 DEF WithoutNext, Sessions, NoSession, NewSession
<1>2. w.stagedFlowEvent # Nobody <=> owns
  BY <1>0 DEF StagedInv
<1>3. [w EXCEPT !.activeGeneration = r.id.gen, !.navigation = n, !.deferred = d,
                !.stagedFlowEvent = Nobody, !.stagedFlowCurrent = NoId,
                !.stagedFlowSeek = k, !.seekOperation = o, !.session = t] = a
  <2>1. CASE seek
    BY <1>0, <2>1, ZenonT(60) DEF Admitted, Fresh, Workers
  <2>2. CASE ~seek
    BY <1>0, <2>2, ZenonT(60) DEF Admitted, Fresh, Workers, IsAck
  <2> QED
    BY <2>1, <2>2
<1> HIDE DEF u, a
<1>4. /\ t \in Sessions /\ t.id = w.session.id /\ t.cursor = w.session.cursor
      /\ t.prepared = w.session.prepared /\ t.next = u.next
      /\ seek => t.seek = w.session.seek
      /\ ~seek => t.seek = Nothing
      /\ w.session = NoSession => t = NoSession
  BY <1>1 DEF WithoutSeek, Sessions, NoSession, NewSession
<1>5. NoId \in Ids /\ Nobody \in Owners /\ NoRequest \in Requests
  <2>1. NoId \in Ids /\ NoId = [gen |-> 0, serial |-> 0]
    BY DEF NoId, Id, Ids, Generations
  <2>2. Nobody \in Owners
    BY <2>1 DEF Nobody, Owners, Generations
  <2>3. NoRequest \in Requests
    BY <2>1 DEF NoRequest, Plain, Requests, Cursors
  <2> QED
    BY <2>1, <2>2, <2>3
<1>6. n \in Ids /\ d \in Requests /\ k \in Owners /\ o \in Ids /\ r.id.gen \in Generations
  BY <1>0, <1>5 DEF Workers, Ids
<1> HIDE DEF t, n, d, k, o
<1>7. /\ a \in Workers /\ a.activeGeneration = r.id.gen
      /\ a.stagedFlowCurrent = NoId /\ a.stagedFlowEvent = Nobody
      /\ a.stagedFlowSeek = k /\ a.seekOperation = o
      /\ a.navigation = n /\ a.deferred = d /\ a.session = t
      /\ a.encodings = w.encodings /\ a.answers = w.answers
  BY <1>0, <1>3, <1>4, <1>5, <1>6 DEF Workers
<1>8. /\ w.activeGeneration <= r.id.gen /\ r.id.gen \in Nat /\ w.activeGeneration \in Nat
      /\ (~Fresh(w, r) => r.id.gen = w.activeGeneration)
      /\ (Fresh(w, r) => w.activeGeneration < r.id.gen)
  BY <1>0, <1>6 DEF Stale, Fresh, Generations
<1>9. \A i : Named(i, w.activeGeneration, s) /\ i.gen \in Nat => Named(i, r.id.gen, s)
  BY <1>8 DEF Named
<1>10. WorkerForm(a, s)
  <2>1. \A l \in 1 .. Len(w.answers) : Named(w.answers[l].id, r.id.gen, s) /\ AnswerForm(w.answers[l])
    <3>1. \A l \in 1 .. Len(w.answers) : w.answers[l].id.gen \in Nat
      <4>1. \A l \in 1 .. Len(w.answers) : w.answers[l] \in Answers
        BY <1>0
      <4> QED
        BY <4>1 DEF Answers, Ids, Generations
    <3> QED
      BY <1>0, <1>9, <3>1 DEF WorkerForm
  <2>2. \A e \in w.encodings : /\ Named(e.id, r.id.gen, s) /\ EncodingForm(e)
                               /\ e.view.session <= r.id.gen
    <3>1. \A e \in w.encodings : e.id.gen \in Nat /\ e.view.session \in Nat
      BY <1>0 DEF Workers, Encodings, Ids, Views, Generations
    <3> QED
      BY <1>0, <1>8, <1>9, <3>1 DEF WorkerForm
  <2>3. d # NoRequest => IsNav(d) /\ RequestForm(d) /\ Named(d.id, r.id.gen, s)
    <3>1. d # NoRequest => d = w.deferred /\ d.id.gen \in Nat
      BY <1>6 DEF d, Requests, Ids, Generations
    <3> QED
      BY <1>0, <1>9, <3>1 DEF WorkerForm
  <2>4. t.id <= r.id.gen /\ (t.id = 0 => t = NoSession)
    BY <1>0, <1>4, <1>8 DEF WorkerForm, Sessions, Generations
  <2> QED
    BY <1>7, <2>1, <2>2, <2>3, <2>4 DEF WorkerForm
<1>11. EncodingInv(a)
  <2>1. \A e \in w.encodings : e.id.gen = r.id.gen => ~Fresh(w, r)
    BY <1>0, <1>8 DEF WorkerForm, Named, Workers, Encodings, Ids, Generations
  <2>2. \A e \in w.encodings : e.kind # "create" /\ e.id.gen = r.id.gen =>
          /\ n = e.id
          /\ \A f \in w.encodings : f.kind # "create" /\ f.id.gen = r.id.gen => e = f
    BY <1>0, <1>8, <2>1 DEF EncodingInv, n
  <2>3. ~Fresh(w, r) /\ ~Blocked(w) => ~Blocked(a)
    BY <1>7 DEF Blocked, Pending, n, k
  <2>4. \A e \in w.encodings : e.kind = "create" => e.id # NoId
    BY <1>0 DEF WorkerForm, Named, NoId, Id
  <2>5. \A e \in w.encodings : e.kind = "create" =>
          /\ t.id # e.id.gen
          /\ d = NoRequest \/ d.id.gen # e.id.gen
          /\ \A f \in w.encodings : f.kind # "create" => f.view.session # e.id.gen
          /\ e.id.gen = r.id.gen => ~Blocked(a)
    BY <1>0, <1>4, <1>8, <2>1, <2>3 DEF EncodingInv, d
  <2> QED
    BY <1>7, <2>2, <2>4, <2>5 DEF EncodingInv
<1>12. StepInv(a)
  <2>1. CASE owns
    <3>1. t.next = Nothing /\ (\A e \in w.encodings : ~(e.kind = "next" /\ e.view.session = t.id))
      BY <1>0, <1>1, <1>4, <2>1 DEF StepInv
    <3> QED
      BY <1>7, <3>1 DEF StepInv
  <2>2. CASE ~owns
    BY <1>0, <1>1, <1>2, <1>4, <1>7, <2>2 DEF StepInv
  <2> QED
    BY <2>1, <2>2
<1>13. ~seek => a.stagedFlowSeek = Nobody /\ SeekInv(a)
  <2> SUFFICES ASSUME ~seek PROVE a.stagedFlowSeek = Nobody /\ SeekInv(a)
    OBVIOUS
  <2>1. \A e \in w.encodings : e.id # NoId
    BY <1>0 DEF WorkerForm, Named, NoId, Id
  <2>2. o = NoId /\ k = Nobody /\ t.seek = Nothing
    BY <1>4 DEF o, k
  <2> QED
    BY <1>7, <2>1, <2>2 DEF SeekInv, SeeksFor
<1>14. a.session.id = 0 => a.stagedFlowSeek = Nobody
  <2>1. w.session.id = 0 => w.stagedFlowSeek = Nobody
    BY <1>0 DEF WorkerForm, StagedInv, NoSession, NewSession
  <2> QED
    BY <1>4, <1>7, <2>1 DEF k
<1>15. Standing(a) = Standing(w)
  BY <1>4, <1>7 DEF Standing
<1> QED
  BY <1>7, <1>10, <1>11, <1>12, <1>13, <1>14, <1>15 DEF a, n, d

\* From the Worker that admitted a request to the one that served it.
LEMMA AdmittedThen ==
    ASSUME NEW s \in Nat, NEW w, WorkerInv(w, s), NEW r \in Requests, ~IsAck(r), NEW a, NEW x,
           Named(r.id, r.id.gen, s), ~Stale(w, r),
           a.activeGeneration = r.id.gen, a.encodings = w.encodings, a.answers = w.answers,
           a.deferred = w.deferred \/ a.deferred = NoRequest,
           WorkerInv(x, s), Tokens(a, x, ReqJob(r), r.id), x.activeGeneration = a.activeGeneration,
           Len(a.answers) <= Len(x.answers),
           \A k \in 1 .. Len(a.answers) : x.answers[k] = a.answers[k],
           \A k \in 1 .. Len(x.answers) : k > Len(a.answers) /\ x.answers[k].kind \in Publications
              => Offered(x, x.answers[k].id, x.answers[k].view),
           \A e \in x.encodings :
              e.kind = "create" => e \in a.encodings \/ (r.kind = "create" /\ e.id = r.id)
    PROVE  Serves(w, x, r, s)
<1>1. Tokens(w, a, "none", NoId)
  BY TokensSame
<1>2. Tokens(w, x, ReqJob(r), r.id)
  BY <1>1, TokensThenOne
<1>3. w.activeGeneration <= x.activeGeneration
  BY SMTT(30) DEF Stale, WorkerInv, Workers, Requests, Ids, Generations
<1> QED
  BY <1>2, <1>3 DEF Serves

\* A description, an algorithm, or a scenario that was refused: one answer.
LEMMA AnswerServed ==
    ASSUME NEW s \in Nat, NEW w, WorkerInv(w, s),
           NEW r \in Requests, r.kind \in {"create", "configure"} \cup Dialogs,
           Named(r.id, r.id.gen, s), ~Stale(w, r),
           NEW b \in Answers, b.id = r.id, AnsJob(b) = ReqJob(r), AnswerForm(b),
           b.kind \notin Publications
    PROVE  LET x == Respond(Admitted(w, r), b)
           IN /\ Serves(w, x, r, s) /\ Standing(x) = Standing(w)
              /\ Fresh(w, r) => Awake(x)
<1> DEFINE a == Admitted(w, r)
           x == Respond(a, b)
<1>0. ~IsAck(r) /\ r.kind # "seek"
  BY DEF IsAck, Dialogs
<1>1. /\ a \in Workers /\ a.activeGeneration = r.id.gen
      /\ a.stagedFlowCurrent = NoId /\ a.stagedFlowEvent = Nobody
      /\ a.deferred = (IF Fresh(w, r) THEN NoRequest ELSE w.deferred)
      /\ a.encodings = w.encodings /\ a.answers = w.answers
      /\ Standing(a) = Standing(w)
      /\ WorkerForm(a, s) /\ EncodingInv(a) /\ StepInv(a)
      /\ a.stagedFlowSeek = Nobody /\ SeekInv(a)
  BY <1>0, AdmittedForms
<1> HIDE DEF a
<1>2. WorkerInv(a, s)
  BY <1>1 DEF WorkerInv, StagedInv, Pending
<1>3. /\ WorkerInv(x, s) /\ Tokens(a, x, ReqJob(r), r.id)
      /\ Grows(a, x) /\ x.deferred = a.deferred
  BY <1>1, <1>2, AnswerKeeps
<1> HIDE DEF x
<1>4. Serves(w, x, r, s)
  <2>1. a.deferred = w.deferred \/ a.deferred = NoRequest
    BY <1>1
  <2>2. /\ x.activeGeneration = a.activeGeneration /\ Len(a.answers) <= Len(x.answers)
        /\ \A k \in 1 .. Len(a.answers) : x.answers[k] = a.answers[k]
        /\ \A k \in 1 .. Len(x.answers) : k > Len(a.answers) /\ x.answers[k].kind \in Publications
              => Offered(x, x.answers[k].id, x.answers[k].view)
        /\ \A e \in x.encodings : e.kind = "create" => e \in a.encodings
    BY <1>3 DEF Grows
  <2> QED
    BY <1>0, <1>1, <1>3, <2>1, <2>2, AdmittedThen
<1>5. Standing(x) = Standing(w)
  BY <1>1, <1>3 DEF Grows
<1>6. Fresh(w, r) => Awake(x)
  BY <1>1, <1>3 DEF Awake
<1> QED
  BY <1>4, <1>5, <1>6 DEF x, a

\* The answers a request gets at once.
LEMMA RequestAnswers ==
    ASSUME NEW i \in Ids, i.serial = 0, NEW kind \in Dialogs \cup {"prepared"},
           NEW source \in {"create", "configure"}
    PROVE  /\ Answer(kind, i) \in Answers /\ Answer(kind, i).id = i /\ AnswerForm(Answer(kind, i))
           /\ Answer(kind, i).kind = kind /\ Answer(kind, i).source = "none"
           /\ Failure(i, source) \in Answers /\ Failure(i, source).id = i
           /\ AnswerForm(Failure(i, source))
           /\ Failure(i, source).kind = "error" /\ Failure(i, source).source = source
<1> DEFINE a == Answer(kind, i)
           b == Failure(i, source)
<1>1. NoView \in Views
  BY FlowAssumption DEF NoView, View, Views, Cursors, Generations
<1>2. /\ a = [kind |-> kind, id |-> i, view |-> NoView, source |-> "none"]
      /\ b = [kind |-> "error", id |-> i, view |-> NoView, source |-> source]
  BY DEF Failure, Answer, Packet
<1> HIDE DEF a, b
<1>3. a \in Answers /\ a.id = i /\ a.kind = kind /\ a.source = "none" /\ AnswerForm(a)
  BY <1>1, <1>2 DEF Answers, AnswerForm, AnsJob, Dialogs
<1>4. b \in Answers /\ b.id = i /\ b.kind = "error" /\ b.source = source /\ AnswerForm(b)
  BY <1>1, <1>2 DEF Answers, AnswerForm, AnsJob
<1> QED
  BY <1>3, <1>4 DEF a, b

\* A scenario is created, or refused.
LEMMA CreateServed ==
    ASSUME NEW s \in Nat, NEW w, WorkerInv(w, s), NEW r \in Requests, r.kind = "create",
           RequestForm(r), Named(r.id, r.id.gen, s), Fresh(w, r),
           NEW x \in Create(Admitted(w, r), r)
    PROVE  Serves(w, x, r, s) /\ Standing(x) = Standing(w) /\ Awake(x)
<1> DEFINE a == Admitted(w, r)
           v == View(r.id.gen, 0, FALSE)
           e == Encoding("create", r.id, v)
<1>0. /\ w \in Workers /\ r.id \in Ids /\ ~IsAck(r) /\ ~Stale(w, r) /\ ReqJob(r) = "loading"
      /\ r.id.serial = 0 /\ WorkerForm(w, s)
  BY DEF WorkerInv, Workers, Requests, IsAck, Stale, Fresh, Ids, Generations, ReqJob, RequestForm, IsNav, Navigation
<1>1. CASE x = Respond(a, Failure(r.id, "create"))
  <2>1. /\ Failure(r.id, "create") \in Answers /\ Failure(r.id, "create").id = r.id
        /\ AnswerForm(Failure(r.id, "create"))
        /\ Failure(r.id, "create").kind = "error" /\ Failure(r.id, "create").source = "create"
    BY <1>0, RequestAnswers
  <2>2. AnsJob(Failure(r.id, "create")) = ReqJob(r) /\ Failure(r.id, "create").kind \notin Publications
    BY <1>0, <2>1 DEF AnsJob, Publications
  <2> QED
    BY <1>0, <1>1, <2>1, <2>2, AnswerServed
<1>2. CASE x = [a EXCEPT !.encodings = @ \cup {e}]
  <2>1. /\ a \in Workers /\ a.activeGeneration = r.id.gen
        /\ a.stagedFlowCurrent = NoId /\ a.stagedFlowEvent = Nobody
        /\ a.navigation = NoId /\ a.deferred = NoRequest
        /\ a.encodings = w.encodings /\ a.answers = w.answers
        /\ Standing(a) = Standing(w)
        /\ WorkerForm(a, s) /\ EncodingInv(a) /\ StepInv(a)
        /\ a.stagedFlowSeek = Nobody /\ SeekInv(a)
    BY <1>0, AdmittedForms
  <2>2. /\ e \in Encodings /\ e.kind = "create" /\ e.id = r.id /\ e.view = v
        /\ v.session = r.id.gen
    BY <1>0, FlowAssumption DEF Encoding, Encodings, View, Views, Ids, Cursors
  <2> HIDE DEF a
  <2> DEFINE coded == w.encodings \cup {e}
  <2>3. EncodingForm(e) /\ Named(e.id, r.id.gen, s) /\ e.view.session <= r.id.gen
    <3>1. v = View(r.id.gen, 0, FALSE)
      OBVIOUS
    <3> HIDE DEF e, v
    <3>2. e.view = View(e.id.gen, 0, FALSE)
      BY <2>2, <3>1
    <3>3. EncodingForm(e)
      BY <1>0, <2>2, <3>2 DEF EncodingForm
    <3>4. r.id.gen <= r.id.gen
      BY <1>0 DEF Ids, Generations
    <3> QED
      BY <2>2, <3>3, <3>4
  <2> HIDE DEF e, v
  <2>4. coded \in SUBSET Encodings /\ (\A f : f \in coded <=> f \in w.encodings \/ f = e)
    BY <1>0, <2>2 DEF Workers
  <2>5. x = [a EXCEPT !.encodings = coded]
    BY <1>2, <2>1
  <2> HIDE DEF coded
  <2>6. /\ x \in Workers /\ x.activeGeneration = r.id.gen
        /\ x.stagedFlowCurrent = NoId /\ x.stagedFlowEvent = Nobody /\ x.stagedFlowSeek = Nobody
        /\ x.seekOperation = a.seekOperation
        /\ x.navigation = NoId /\ x.deferred = NoRequest /\ x.session = a.session
        /\ x.encodings = coded /\ x.answers = w.answers
    BY <2>1, <2>4, <2>5 DEF Workers
  <2>7. WorkerForm(x, s)
    BY <2>1, <2>3, <2>4, <2>6 DEF WorkerForm
  <2>8. \A f \in w.encodings : /\ f.id.gen < r.id.gen /\ f.view.session < r.id.gen
                               /\ f.id.gen # r.id.gen /\ f.view.session # r.id.gen
    <3>1. \A f \in w.encodings : f.id.gen <= w.activeGeneration /\ f.view.session <= w.activeGeneration
      BY <1>0 DEF WorkerForm, Named
    <3> QED
      BY <1>0, <3>1 DEF Workers, Encodings, Ids, Views, Generations, Fresh
  <2>9. a.session.id # r.id.gen
    <3>1. a.session.id = w.session.id
      BY <1>0, <2>1 DEF Standing, View
    <3>2. w.session.id <= w.activeGeneration
      BY <1>0 DEF WorkerForm
    <3> QED
      BY <1>0, <3>1, <3>2 DEF Workers, Sessions, Ids, Generations, Fresh
  <2>10. e.id # NoId /\ ~Blocked(x)
    BY <1>0, <2>2, <2>3, <2>6 DEF Named, NoId, Id, Ids, Generations, Blocked, Pending
  <2>11. EncodingInv(x)
    <3>1. \A f \in coded : f.kind # "create" => f \in w.encodings
      BY <2>2, <2>4
    <3>2. \A f \in coded : f.kind = "create" =>
            /\ a.session.id # f.id.gen
            /\ NoId # f.id
            /\ \A h \in coded : h.kind # "create" => h.view.session # f.id.gen
      <4> SUFFICES ASSUME NEW f \in coded, f.kind = "create"
                   PROVE  /\ a.session.id # f.id.gen
                          /\ NoId # f.id
                          /\ \A h \in w.encodings : h.kind # "create" => h.view.session # f.id.gen
        BY <3>1
      <4>1. CASE f = e
        BY <2>2, <2>8, <2>9, <2>10, <4>1
      <4>2. CASE f \in w.encodings
        BY <2>1, <4>2 DEF EncodingInv
      <4> QED
        BY <2>4, <4>1, <4>2
    <3> QED
      BY <2>6, <2>8, <2>10, <3>1, <3>2 DEF EncodingInv
  <2>12. StagedInv(x)
    BY <2>6 DEF StagedInv
  <2>13. StepInv(x)
    BY <2>1, <2>2, <2>4, <2>6 DEF StepInv
  <2>14. SeekInv(x)
    <3>1. \A f \in coded : f.kind = "seek" => f \in w.encodings
      BY <2>2, <2>4
    <3>2. \A f : SeeksFor(x, f) <=> SeeksFor(a, f)
      BY <2>1, <2>6 DEF SeeksFor
    <3>3. \A f : SeeksFor(x, f) => f.kind = "seek"
      BY DEF SeeksFor
    <3> QED
      BY <2>1, <2>4, <2>6, <3>1, <3>2, <3>3 DEF SeekInv
  <2>15. Tokens(a, x, ReqJob(r), r.id)
    <3>1. Tokens(a, x, EncJob(e), e.id)
      BY <2>1, <2>6, TokensEncoded DEF coded
    <3> QED
      BY <1>0, <2>2, <3>1 DEF EncJob
  <2>16. WorkerInv(x, s)
    BY <2>6, <2>7, <2>11, <2>12, <2>13, <2>14 DEF WorkerInv
  <2>17. Serves(w, x, r, s)
    <3>1. Len(a.answers) \in Nat
      BY <2>1 DEF Workers
    <3> QED
      BY <1>0, <2>1, <2>2, <2>4, <2>6, <2>15, <2>16, <3>1, AdmittedThen
  <2>18. Standing(x) = Standing(w)
    BY <2>1, <2>6 DEF Standing
  <2> QED
    BY <2>6, <2>17, <2>18 DEF Awake
<1> QED
  BY <1>1, <1>2 DEF Create

\* An algorithm is chosen, or refused.
LEMMA AlgorithmServed ==
    ASSUME NEW s \in Nat, NEW w, WorkerInv(w, s), NEW r \in Requests, r.kind = "configure",
           RequestForm(r), Named(r.id, r.id.gen, s), ~Stale(w, r), NEW x \in SetAlgorithm(Admitted(w, r), r)
    PROVE  Serves(w, x, r, s) /\ Standing(x) = Standing(w) /\ (Fresh(w, r) => Awake(x))
<1> DEFINE a == Admitted(w, r)
<1>1. r.id \in Ids /\ ReqJob(r) = "configuring" /\ r.id.serial = 0
  BY DEF Requests, ReqJob, Navigation, RequestForm, IsNav, IsAck
<1>2. PICK b \in {Answer("prepared", r.id), Failure(r.id, "configure")} : x = Respond(a, b)
  BY DEF SetAlgorithm
<1>3. /\ b \in Answers /\ b.id = r.id /\ AnswerForm(b)
      /\ (b.kind = "prepared" /\ b.source = "none") \/ (b.kind = "error" /\ b.source = "configure")
  BY <1>1, RequestAnswers
<1>4. AnsJob(b) = ReqJob(r) /\ b.kind \notin Publications
  BY <1>1, <1>3 DEF AnsJob, Publications
<1> QED
  BY <1>2, <1>3, <1>4, AnswerServed

\* A dialog asked for its contents.
LEMMA DescriptionServed ==
    ASSUME NEW s \in Nat, NEW w, WorkerInv(w, s), NEW r \in Requests, r.kind \in Dialogs,
           RequestForm(r), Named(r.id, r.id.gen, s), ~Stale(w, r),
           NEW x, x = Respond(Admitted(w, r), Answer(r.kind, r.id))
    PROVE  Serves(w, x, r, s) /\ Standing(x) = Standing(w) /\ (Fresh(w, r) => Awake(x))
<1> DEFINE b == Answer(r.kind, r.id)
<1>1. r.id \in Ids /\ ReqJob(r) = "none" /\ r.id.serial = 0
  BY DEF Requests, ReqJob, Navigation, Dialogs, RequestForm, IsNav, IsAck
<1>2. b \in Answers /\ b.id = r.id /\ AnswerForm(b) /\ b.kind = r.kind /\ b.source = "none"
  BY <1>1, RequestAnswers
<1> HIDE DEF b
<1>3. AnsJob(b) = ReqJob(r) /\ b.kind \notin Publications
  BY <1>1, <1>2 DEF AnsJob, Publications, Dialogs
<1>4. x = Respond(Admitted(w, r), b)
  BY DEF b
<1> QED
  BY <1>2, <1>3, <1>4, AnswerServed

\* A navigation is admitted to a generation of its own, or when nothing is under way.
LEMMA NavigationServes ==
    ASSUME NEW s \in Nat, NEW w, WorkerInv(w, s), NEW r \in Requests, IsNav(r), RequestForm(r),
           Named(r.id, r.id.gen, s), ~Stale(w, r), ~Parks(w, r),
           \A e \in w.encodings : e.kind = "create" => e.id.gen # r.id.gen,
           NEW x \in StartFlowNavigation(Admitted(w, r), r)
    PROVE  Serves(w, x, r, s) /\ Standing(x) = Standing(w) /\ Awake(x)
<1> DEFINE a == Admitted(w, r)
<1>0. ~IsAck(r) /\ ReqJob(r) = "solving" /\ r.id \in Ids
  BY DEF IsAck, IsNav, ReqJob, Navigation, Requests
<1>1. /\ a \in Workers /\ a.activeGeneration = r.id.gen
      /\ a.stagedFlowCurrent = NoId /\ a.stagedFlowEvent = Nobody
      /\ a.navigation = (IF Fresh(w, r) THEN NoId ELSE w.navigation)
      /\ a.deferred = (IF Fresh(w, r) THEN NoRequest ELSE w.deferred)
      /\ a.encodings = w.encodings /\ a.answers = w.answers
      /\ Standing(a) = Standing(w)
      /\ WorkerForm(a, s) /\ EncodingInv(a) /\ StepInv(a)
      /\ r.kind # "seek" => a.stagedFlowSeek = Nobody /\ SeekInv(a)
      /\ a.session.id = 0 => a.stagedFlowSeek = Nobody
  BY <1>0, AdmittedForms
<1>2. a.navigation = NoId
  <2>1. ~Fresh(w, r) => r.id.gen = w.activeGeneration
    BY <1>0 DEF Fresh, Stale, WorkerInv, Workers, Ids, Generations
  <2>2. ~Fresh(w, r) => ~Blocked(w)
    BY <2>1 DEF Parks, IsNav
  <2> QED
    BY <1>1, <2>2 DEF Blocked
<1> HIDE DEF a
<1>3. LaunchReady(a, r, s)
  BY <1>0, <1>1, <1>2 DEF LaunchReady
<1>4. x \in StartFlowNavigation(a, r)
  BY DEF a
<1>5. /\ WorkerInv(x, s) /\ Tokens(a, x, "solving", r.id) /\ Grows(a, x) /\ Awake(x)
  BY <1>3, <1>4, NavigationServed
<1>6. Serves(w, x, r, s)
  <2>1. a.deferred = w.deferred \/ a.deferred = NoRequest
    BY <1>1
  <2>2. /\ x.activeGeneration = a.activeGeneration /\ Len(a.answers) <= Len(x.answers)
        /\ \A k \in 1 .. Len(a.answers) : x.answers[k] = a.answers[k]
        /\ \A k \in 1 .. Len(x.answers) : k > Len(a.answers) /\ x.answers[k].kind \in Publications
              => Offered(x, x.answers[k].id, x.answers[k].view)
        /\ \A e \in x.encodings : e.kind = "create" => e \in a.encodings
    BY <1>5 DEF Grows
  <2> QED
    BY <1>0, <1>1, <1>5, <2>1, <2>2, AdmittedThen
<1> QED
  BY <1>1, <1>5, <1>6 DEF Grows

(***************************************************************************)
(* A verdict is served                                                      *)
(***************************************************************************)

\* One publication at most is offered.
LEMMA OfferedOnce ==
    ASSUME NEW w, StagedInv(w), NEW i, NEW v, NEW j, NEW u, Offered(w, i, v), Offered(w, j, u)
    PROVE  i = j /\ v = u
<1>1. \/ w.stagedFlowCurrent = NoId \/ (w.stagedFlowEvent = Nobody /\ w.stagedFlowSeek = Nobody)
  BY DEF StagedInv
<1>2. w.stagedFlowEvent = Nobody \/ w.stagedFlowSeek = Nobody
  BY DEF StagedInv
<1> QED
  BY <1>1, <1>2 DEF Offered

\* The publication that verdict r is about, if the Worker holds it.
Judges(w, r) == \E v : Offered(w, r.id, v)
\* The Worker with the verdict in.
Judged(w, r) ==
    LET create == w.stagedFlowCurrent = r.id
        event == w.stagedFlowEvent.id = r.id
        seek == w.stagedFlowSeek.id = r.id
    IN [w EXCEPT !.session =
                   IF create THEN (IF r.accepted THEN NewSession(r.id.gen) ELSE w.session)
                   ELSE IF event
                   THEN (IF r.accepted THEN Committed(w.session) ELSE WithoutNext(w.session))
                   ELSE (IF r.accepted THEN Sought(w.session) ELSE WithoutSeek(w.session)),
                 !.stagedFlowCurrent = NoId,
                 !.stagedFlowEvent = Nobody,
                 !.stagedFlowSeek = Nobody]

\* A verdict that is not stale is admitted with nothing else changed.
LEMMA VerdictAdmitted ==
    ASSUME NEW w \in Workers, NEW r \in Requests, IsAck(r), r.id.gen <= w.activeGeneration,
           ~Stale(w, r)
    PROVE  Admitted(w, r) = w /\ r.id.gen = w.activeGeneration
<1>1. r.id.gen = w.activeGeneration /\ ~(r.id.gen > w.activeGeneration)
  BY DEF Stale, Workers, Requests, Ids, Generations
<1>2. Admitted(w, r) = [w EXCEPT !.activeGeneration = r.id.gen, !.navigation = w.navigation,
                                 !.deferred = w.deferred]
  BY <1>1 DEF Admitted, IsAck
<1> QED
  BY <1>1, <1>2 DEF Workers

\* A verdict on what is not there changes nothing.
LEMMA VerdictMissed ==
    ASSUME NEW s \in Nat, NEW w, WorkerInv(w, s), NEW r \in Requests, IsAck(r),
           Named(r.id, w.activeGeneration, s), ~Judges(w, r), NEW x \in Acknowledge(w, r)
    PROVE  x = w
<1>1. r.id # NoId
  BY DEF Named, NoId, Id
<1>2. Nobody.id = NoId
  BY DEF Nobody
<1>3. w.stagedFlowCurrent # r.id /\ w.stagedFlowEvent.id # r.id /\ w.stagedFlowSeek.id # r.id
  <2>1. /\ ~Offered(w, r.id, View(r.id.gen, 0, FALSE))
        /\ ~Offered(w, r.id, View(w.session.id, w.session.next, TRUE))
        /\ ~Offered(w, r.id, View(w.session.id, w.session.seek, w.session.prepared))
    BY DEF Judges
  <2> QED
    BY <1>1, <1>2, <2>1 DEF Offered
<1>4. x = [w EXCEPT !.session = w.session, !.stagedFlowCurrent = w.stagedFlowCurrent,
                    !.stagedFlowEvent = w.stagedFlowEvent, !.stagedFlowSeek = w.stagedFlowSeek]
  BY <1>3 DEF Acknowledge
<1> QED
  BY <1>4 DEF WorkerInv, Workers

\* A verdict on the publication that is staged.
LEMMA VerdictGiven ==
    ASSUME NEW s \in Nat, NEW w, WorkerInv(w, s), NEW r \in Requests, IsAck(r),
           Named(r.id, w.activeGeneration, s), r.id.gen = w.activeGeneration, Judges(w, r)
    PROVE  LET y == Judged(w, r)
           IN /\ WorkerInv(y, s) /\ ~Blocked(y) /\ Blocked(w)
              /\ y.deferred = w.deferred /\ y.encodings = w.encodings /\ y.answers = w.answers
              /\ y.activeGeneration = w.activeGeneration
              /\ ~r.accepted => Standing(y) = Standing(w)
              /\ r.accepted => Offered(w, r.id, Standing(y))
              /\ \E runs \in BOOLEAN : Acknowledge(w, r) = Wake(y, r, runs)
<1> USE FlowAssumption
<1> DEFINE y == Judged(w, r)
           create == w.stagedFlowCurrent = r.id
           event == w.stagedFlowEvent.id = r.id
           seek == w.stagedFlowSeek.id = r.id
           t == IF create THEN (IF r.accepted THEN NewSession(r.id.gen) ELSE w.session)
                ELSE IF event
                THEN (IF r.accepted THEN Committed(w.session) ELSE WithoutNext(w.session))
                ELSE (IF r.accepted THEN Sought(w.session) ELSE WithoutSeek(w.session))
<1>0. w \in Workers /\ w.session \in Sessions /\ w.answers \in Seq(Answers) /\ r.id \in Ids
      /\ r.accepted \in BOOLEAN
      /\ WorkerForm(w, s) /\ EncodingInv(w) /\ StagedInv(w) /\ StepInv(w) /\ SeekInv(w)
      /\ w.stagedFlowEvent \in Owners /\ w.stagedFlowSeek \in Owners
  BY DEF WorkerInv, Workers, Requests
<1>1. r.id # NoId /\ Nobody.id = NoId
  BY DEF Named, NoId, Id, Nobody
<1>2. \/ create /\ ~event /\ ~seek /\ w.stagedFlowEvent = Nobody /\ w.stagedFlowSeek = Nobody
      \/ ~create /\ event /\ ~seek /\ w.stagedFlowCurrent = NoId /\ w.stagedFlowSeek = Nobody
         /\ w.stagedFlowEvent # Nobody
      \/ ~create /\ ~event /\ seek /\ w.stagedFlowCurrent = NoId /\ w.stagedFlowEvent = Nobody
         /\ w.stagedFlowSeek # Nobody
  <2>1. create => w.stagedFlowEvent = Nobody /\ w.stagedFlowSeek = Nobody
    BY <1>0, <1>1 DEF StagedInv
  <2>2. event => w.stagedFlowSeek = Nobody /\ w.stagedFlowEvent # Nobody /\ w.stagedFlowCurrent = NoId
    BY <1>0, <1>1 DEF StagedInv
  <2>3. seek => w.stagedFlowEvent = Nobody /\ w.stagedFlowSeek # Nobody /\ w.stagedFlowCurrent = NoId
    BY <1>0, <1>1 DEF StagedInv
  <2>4. create \/ event \/ seek
    BY DEF Judges, Offered
  <2> QED
    BY <1>1, <2>1, <2>2, <2>3, <2>4
<1>3. Pending(w) /\ Blocked(w) /\ w.navigation = NoId
  <2>1. Pending(w)
    BY <1>1, <1>2 DEF Pending
  <2> QED
    BY <1>0, <2>1 DEF Blocked, StagedInv
<1>4. /\ \A f \in w.encodings : f.kind # "create" => f.id.gen # w.activeGeneration
      /\ \A f \in w.encodings : f.kind = "create" => f.id.gen # w.activeGeneration
  <2>1. \A f \in w.encodings : f.id # NoId
    BY <1>0 DEF WorkerForm, Named, NoId, Id
  <2> QED
    BY <1>0, <1>3, <2>1 DEF EncodingInv
\* The session after the verdict.
<1>5. /\ t \in Sessions /\ t.id \in {w.session.id, w.activeGeneration}
      /\ t.next = Nothing \/ (create /\ ~r.accepted /\ t.next = w.session.next)
      /\ seek => t.next = Nothing /\ w.session.next = Nothing
      /\ seek => t.seek = Nothing
      /\ create => t = w.session \/ (t.id = w.activeGeneration /\ t.seek = Nothing /\ t.next = Nothing)
      /\ event => t.seek = w.session.seek /\ t.id = w.session.id
      /\ seek => t.id = w.session.id
      /\ t.id = w.session.id /\ w.session = NoSession => t = NoSession \/ ~create
      /\ create => w.session.id # w.activeGeneration
      /\ ~create => w.session.id # 0
  <2>1. NewSession(r.id.gen) = [id |-> w.activeGeneration, cursor |-> 0, prepared |-> FALSE,
                                next |-> Nothing, seek |-> Nothing]
    BY DEF NewSession
  <2>2. CASE create
    <3>1. t = w.session \/ t = NewSession(r.id.gen)
      BY <2>2
    <3>2. w.session.id # w.activeGeneration
      BY <1>0, <1>1, <2>2 DEF StagedInv
    <3>3. NewSession(r.id.gen) \in Sessions
      BY <1>0, <2>1 DEF Sessions, Workers, Cursors
    <3> QED
      BY <1>0, <1>1, <1>2, <2>1, <2>2, <3>1, <3>2, <3>3
  <2>3. CASE event /\ ~create
    <3>1. w.session.next # Nothing /\ w.session.id # 0
      BY <1>0, <1>1, <2>3 DEF StagedInv, WorkerForm, NoSession, NewSession
    <3>2. t = (IF r.accepted THEN Committed(w.session) ELSE WithoutNext(w.session))
      BY <2>3
    <3>3. /\ t \in Sessions /\ t.id = w.session.id /\ t.next = Nothing /\ t.seek = w.session.seek
      BY <1>0, <3>1, <3>2, ZenonT(60) DEF Committed, WithoutNext, Sessions
    <3> HIDE DEF t
    <3> QED
      BY <1>2, <2>3, <3>1, <3>3
  <2>4. CASE seek /\ ~create /\ ~event
    <3>1. w.session.next = Nothing /\ w.session.id # 0 /\ w.session.seek # Nothing
      BY <1>0, <1>1, <2>4 DEF StagedInv, WorkerForm, NoSession, NewSession
    <3>4. Sought(w.session) = [w.session EXCEPT !.cursor = w.session.seek, !.seek = Nothing]
      BY <3>1 DEF Sought
    <3>5. WithoutSeek(w.session) = [w.session EXCEPT !.seek = Nothing]
      BY DEF WithoutSeek
    <3>2. t = (IF r.accepted THEN Sought(w.session) ELSE WithoutSeek(w.session))
      BY <2>4
    <3> HIDE DEF t
    <3>3. /\ t \in Sessions /\ t.id = w.session.id /\ t.next = Nothing /\ t.seek = Nothing
      BY <1>0, <3>1, <3>2, <3>4, <3>5 DEF Sessions
    <3> QED
      BY <1>2, <2>4, <3>1, <3>3
  <2> QED
    BY <1>2, <2>2, <2>3, <2>4
<1> HIDE DEF t
<1>6. /\ y \in Workers
      /\ y.activeGeneration = w.activeGeneration /\ y.session = t
      /\ y.stagedFlowCurrent = NoId
      /\ y.stagedFlowEvent = Nobody /\ y.stagedFlowSeek = Nobody
      /\ y.seekOperation = w.seekOperation /\ y.navigation = NoId
      /\ y.deferred = w.deferred /\ y.encodings = w.encodings /\ y.answers = w.answers
  <2>1. NoId \in Ids /\ NoId = [gen |-> 0, serial |-> 0]
    BY DEF NoId, Id, Ids, Generations
  <2>2. Nobody \in Owners
    BY <2>1 DEF Nobody, Owners, Generations
  <2>3. y = [w EXCEPT !.session = t, !.stagedFlowCurrent = NoId, !.stagedFlowEvent = Nobody,
                      !.stagedFlowSeek = Nobody]
    BY DEF Judged, t
  <2> HIDE DEF y
  <2> QED
    BY <1>0, <1>3, <1>5, <2>1, <2>2, <2>3 DEF Workers
<1> HIDE DEF y
<1>7. WorkerForm(y, s)
  <2>1. t.id <= w.activeGeneration
    BY <1>0, <1>5 DEF WorkerForm, Workers, Sessions, Generations
  <2>2. t.id = 0 => t = NoSession
    <3>1. w.activeGeneration # 0
      BY <1>0 DEF Named
    <3> QED
      BY <1>0, <1>2, <1>5, <3>1 DEF WorkerForm
  <2> QED
    BY <1>0, <1>6, <2>1, <2>2 DEF WorkerForm
<1>8. EncodingInv(y)
  <2>1. \A f \in w.encodings : f.id # NoId
    BY <1>0 DEF WorkerForm, Named, NoId, Id
  <2> QED
    BY <1>0, <1>4, <1>5, <1>6, <2>1 DEF EncodingInv
<1>9. StagedInv(y) /\ ~Blocked(y)
  BY <1>6 DEF StagedInv, Pending, Blocked
<1>10. StepInv(y)
  <2>1. CASE create
    <3>1. CASE t = w.session
      BY <1>0, <1>2, <1>6, <2>1, <3>1 DEF StepInv
    <3>2. CASE t.id = w.activeGeneration /\ t.next = Nothing
      <4>1. \A f \in w.encodings : f.kind # "create" => f.view.session # w.activeGeneration
        BY <1>0, <1>1, <2>1 DEF StagedInv
      <4> QED
        BY <1>6, <3>2, <4>1 DEF StepInv
    <3> QED
      BY <1>5, <2>1, <3>1, <3>2
  <2>2. CASE event
    <3>1. \A f \in w.encodings : ~(f.kind = "next" /\ f.view.session = w.session.id)
      BY <1>0, <1>2, <2>2 DEF StepInv
    <3> QED
      BY <1>2, <1>5, <1>6, <2>2, <3>1 DEF StepInv
  <2>3. CASE seek
    <3>1. \A f \in w.encodings : ~(f.kind = "next" /\ f.view.session = w.session.id)
      BY <1>0, <1>5, <2>3 DEF StepInv, Workers, Encodings, Views, Cursors, Nothing
    <3> QED
      BY <1>5, <1>6, <2>3, <3>1 DEF StepInv
  <2> QED
    BY <1>2, <2>1, <2>2, <2>3
<1>11. SeekInv(y)
  <2>1. \A f \in w.encodings : ~SeeksFor(w, f) /\ ~SeeksFor(y, f)
    BY <1>4, <1>6 DEF SeeksFor
  <2>2. t.seek = Nothing
    <3>1. w.stagedFlowSeek = Nobody => w.session.seek = Nothing
      BY <1>0, <2>1 DEF SeekInv
    <3> QED
      BY <1>2, <1>5, <3>1
  <2> QED
    BY <1>6, <2>1, <2>2 DEF SeekInv
<1>12. ~r.accepted => Standing(y) = Standing(w)
  BY <1>0, <1>6 DEF Standing, t, WithoutNext, WithoutSeek, Sessions
<1>13. r.accepted => Offered(w, r.id, Standing(y))
  <2> SUFFICES ASSUME r.accepted PROVE Offered(w, r.id, Standing(y))
    OBVIOUS
  <2>1. CASE create
    <3>1. t = [id |-> r.id.gen, cursor |-> 0, prepared |-> FALSE, next |-> Nothing, seek |-> Nothing]
      BY <2>1 DEF t, NewSession
    <3>2. Standing(y) = View(r.id.gen, 0, FALSE)
      BY <1>6, <3>1 DEF Standing
    <3> QED
      BY <1>1, <2>1, <3>2 DEF Offered
  <2>2. CASE event /\ ~create
    <3>1. w.session.next # Nothing /\ w.stagedFlowEvent # Nobody
      BY <1>0, <1>1, <2>2 DEF StagedInv
    <3>2. t = [w.session EXCEPT !.cursor = w.session.next, !.prepared = TRUE, !.next = Nothing]
      BY <2>2, <3>1 DEF t, Committed
    <3>3. t.id = w.session.id /\ t.cursor = w.session.next /\ t.prepared = TRUE
      BY <1>0, <3>2 DEF Sessions
    <3>4. Standing(y) = View(w.session.id, w.session.next, TRUE)
      BY <1>6, <3>3 DEF Standing
    <3> QED
      BY <2>2, <3>1, <3>4 DEF Offered
  <2>3. CASE seek /\ ~create /\ ~event
    <3>1. w.session.seek # Nothing /\ w.stagedFlowSeek # Nobody
      BY <1>0, <1>1, <2>3 DEF StagedInv
    <3>2. t = [w.session EXCEPT !.cursor = w.session.seek, !.seek = Nothing]
      BY <2>3, <3>1 DEF t, Sought
    <3>3. t.id = w.session.id /\ t.cursor = w.session.seek /\ t.prepared = w.session.prepared
      BY <1>0, <3>2 DEF Sessions
    <3>4. Standing(y) = View(w.session.id, w.session.seek, w.session.prepared)
      BY <1>6, <3>3 DEF Standing
    <3> QED
      BY <2>3, <3>1, <3>4 DEF Offered
  <2> QED
    BY <1>2, <2>1, <2>2, <2>3
<1>14. \E runs \in BOOLEAN : Acknowledge(w, r) = Wake(y, r, runs)
  <2>1. /\ event => w.stagedFlowEvent.session = w.session.id
        /\ seek => w.stagedFlowSeek.session = w.session.id
    BY <1>0, <1>2 DEF StagedInv
  <2> DEFINE judged == [w EXCEPT !.session = t,
                            !.stagedFlowCurrent = IF create THEN NoId ELSE w.stagedFlowCurrent,
                            !.stagedFlowEvent = IF event THEN Nobody ELSE w.stagedFlowEvent,
                            !.stagedFlowSeek = IF seek THEN Nobody ELSE w.stagedFlowSeek]
  <2>2. Acknowledge(w, r) = Wake(judged, r, ~create \/ r.accepted)
    <3>1. CASE create
      BY <1>2, <3>1 DEF Acknowledge, t
    <3>2. CASE event /\ ~create
      BY <1>2, <2>1, <3>2 DEF Acknowledge, t
    <3>3. CASE seek /\ ~create /\ ~event
      BY <1>2, <2>1, <3>3 DEF Acknowledge, t
    <3> QED
      BY <1>2, <3>1, <3>2, <3>3
  <2>3. judged = y
    BY <1>2 DEF y, Judged, t
  <2> HIDE DEF judged
  <2>4. (~create \/ r.accepted) \in BOOLEAN
    OBVIOUS
  <2> QED
    BY <2>2, <2>3, <2>4
<1> QED
  BY <1>3, <1>6, <1>7, <1>8, <1>9, <1>10, <1>11, <1>12, <1>13, <1>14 DEF WorkerInv, y

\* The request parked behind a publication, once its verdict is in.
LEMMA WakeRuns ==
    ASSUME NEW s \in Nat, NEW y, WorkerInv(y, s), ~Blocked(y),
           NEW r \in Requests, Named(r.id, y.activeGeneration, s), NEW runs \in BOOLEAN,
           NEW x \in Wake(y, r, runs)
    PROVE  WorkerInv(x, s) /\ Tokens(y, x, "none", NoId) /\ Grows(y, x) /\ Awake(x)
<1>1. CASE y.deferred = NoRequest
  <2>1. x = y
    BY <1>1 DEF Wake
  <2> QED
    BY <1>1, <2>1, NothingHappens, StaysGrown DEF Awake, WorkerInv, Workers
<1>2. CASE y.deferred # NoRequest /\ (~runs \/ y.deferred.id.gen # y.activeGeneration)
  <2>1. x = Unparked(y)
    BY <1>2 DEF Wake, Unparked
  <2> QED
    BY <2>1, UnparkedKeeps DEF Awake
<1>3. CASE y.deferred # NoRequest /\ ~(~runs \/ y.deferred.id.gen # y.activeGeneration)
  <2> DEFINE i == Id(r.id.gen, 0)
  <2>1. PICK o \in Launch(Unparked(y), y.deferred) :
          x = Reported(o.worker, i, IF o.raised = "input" THEN "limit" ELSE o.raised)
    BY <1>3 DEF Wake, Unparked
  <2> DEFINE z == o.worker
             source == IF o.raised = "input" THEN "limit" ELSE o.raised
  <2>2. /\ WorkerInv(z, s) /\ Tokens(y, z, "none", NoId)
        /\ Grows(y, z) /\ Keeps(y, z) /\ z.deferred = NoRequest
        /\ Launched(Unparked(y), y.deferred, o)
    BY <1>3, ParkedLaunches
  <2>3. source \in {"none", "limit", "refused"}
    BY <2>2 DEF Launched
  <2>4. i \in Ids /\ Named(i, z.activeGeneration, s)
    <3>1. r.id \in Ids /\ z.activeGeneration = y.activeGeneration
      BY <2>2 DEF Requests, Grows
    <3> QED
      BY <3>1 DEF Id, Ids, Named
  <2> HIDE DEF i, source, z
  <2>5. x = Reported(z, i, source)
    BY <2>1 DEF z, source
  <2>6. /\ WorkerInv(x, s) /\ Tokens(z, x, "none", NoId) /\ Grows(z, x) /\ Keeps(z, x)
        /\ x.deferred = z.deferred
    BY <2>2, <2>3, <2>4, <2>5, ReportKeeps
  <2>7. Tokens(y, x, "none", NoId)
    BY <2>2, <2>6, TokensTransitive
  <2>8. Len(y.answers) \in Nat /\ Len(z.answers) \in Nat /\ Len(x.answers) \in Nat
    BY <2>2, <2>6 DEF WorkerInv, Workers
  <2>9. Grows(y, x)
    BY <2>2, <2>6, <2>8, GrowsTransitive
  <2> QED
    BY <2>2, <2>6, <2>7, <2>9 DEF Awake
<1> QED
  BY <1>1, <1>2, <1>3

\* acknowledgeFlowCurrent, whatever the verdict is about.
LEMMA VerdictServes ==
    ASSUME NEW s \in Nat, NEW w, WorkerInv(w, s), NEW r \in Requests, IsAck(r),
           Named(r.id, w.activeGeneration, s), ~Stale(w, r),
           NEW x \in Acknowledge(Admitted(w, r), r)
    PROVE  /\ Serves(w, x, r, s)
           /\ ~Judges(w, r) => x = w
           /\ Judges(w, r) => /\ Awake(x) /\ Blocked(w)
                              /\ ~r.accepted => Standing(x) = Standing(w)
                              /\ r.accepted => Offered(w, r.id, Standing(x))
<1>0. w \in Workers /\ w.answers \in Seq(Answers) /\ w.activeGeneration \in Nat
  BY DEF WorkerInv, Workers, Generations
<1>1. Admitted(w, r) = w /\ r.id.gen = w.activeGeneration
  BY <1>0, VerdictAdmitted DEF Named
<1>2. x \in Acknowledge(w, r)
  BY <1>1
<1>3. ReqJob(r) = "none"
  BY DEF ReqJob, IsAck, Navigation
<1>4. CASE ~Judges(w, r)
  <2>1. x = w
    BY <1>2, <1>4, VerdictMissed
  <2>2. Tokens(w, w, "none", NoId) => Tokens(w, w, "none", r.id)
    BY DEF Tokens, Jobs
  <2>3. Tokens(w, w, "none", r.id)
    BY <2>2, NothingHappens
  <2> QED
    BY <1>0, <1>3, <1>4, <2>1, <2>3 DEF Serves
<1>5. CASE Judges(w, r)
  <2> DEFINE y == Judged(w, r)
  <2>1. /\ WorkerInv(y, s) /\ ~Blocked(y) /\ Blocked(w)
        /\ y.deferred = w.deferred /\ y.encodings = w.encodings /\ y.answers = w.answers
        /\ y.activeGeneration = w.activeGeneration
        /\ ~r.accepted => Standing(y) = Standing(w)
        /\ r.accepted => Offered(w, r.id, Standing(y))
        /\ \E runs \in BOOLEAN : Acknowledge(w, r) = Wake(y, r, runs)
    BY <1>1, <1>5, VerdictGiven
  <2> HIDE DEF y
  <2>2. WorkerInv(x, s) /\ Tokens(y, x, "none", NoId) /\ Grows(y, x) /\ Awake(x)
    BY <1>2, <2>1, WakeRuns
  <2>3. Tokens(w, y, "none", NoId)
    BY <2>1, TokensSame
  <2>4. Tokens(w, x, "none", NoId)
    BY <2>2, <2>3, TokensTransitive
  <2>5. Tokens(w, x, "none", r.id)
    BY <2>4 DEF Tokens, Jobs
  <2>6. Standing(x) = Standing(y)
    BY <2>2 DEF Grows
  <2>7. Serves(w, x, r, s)
    BY <1>0, <1>3, <2>1, <2>2, <2>5 DEF Serves, Grows
  <2> QED
    BY <1>5, <2>1, <2>2, <2>6, <2>7
<1> QED
  BY <1>4, <1>5

(***************************************************************************)
(* The Worker with its ports and the publications being decoded             *)
(***************************************************************************)

\* What the client at generation g and serial s still takes.
Cur(i, g, s) == i.gen = g /\ i.serial \in {0, s}
AckJob(i) == IF i.serial = 0 THEN "loading" ELSE "solving"

Queued(q, job, i) == \E k \in 1 .. Len(q) : ReqJob(q[k]) = job /\ q[k].id = i
Decoding(dec, job, i) == \E d \in dec : AnsJob(d) = job /\ d.id = i
UnderWay(q, w, dec, job, i) == Queued(q, job, i) \/ InWorker(w, job, i) \/ Decoding(dec, job, i)
Acked(q, i) == \E k \in 1 .. Len(q) : IsAck(q[k]) /\ q[k].id = i

OnceQueued(q, job, i) ==
    \A k, l \in 1 .. Len(q) :
        /\ ReqJob(q[k]) = job /\ q[k].id = i
        /\ ReqJob(q[l]) = job /\ q[l].id = i
        => k = l
OnceDecoding(dec, job, i) ==
    \A d, e \in dec : AnsJob(d) = job /\ d.id = i /\ AnsJob(e) = job /\ e.id = i => d = e

\* A job is in one place, once, and is over when its verdict is under way.
Once(q, w, dec, job, i) ==
    /\ OnceQueued(q, job, i) /\ OnceInWorker(w, job, i) /\ OnceDecoding(dec, job, i)
    /\ Queued(q, job, i) => ~InWorker(w, job, i) /\ ~Decoding(dec, job, i)
    /\ InWorker(w, job, i) => ~Decoding(dec, job, i)
    /\ Acked(q, i) /\ AckJob(i) = job => ~UnderWay(q, w, dec, job, i)
OnceInv(q, w, dec) == \A job \in Jobs, i \in Ids : Once(q, w, dec, job, i)

QueueForm(q, a, g, s) == \A k \in 1 .. Len(q) :
    /\ Named(q[k].id, g, s) /\ RequestForm(q[k])
    /\ IsAck(q[k]) => q[k].id.gen <= a
DecodingForm(dec, a, s) == \A d \in dec :
    Named(d.id, a, s) /\ AnswerForm(d) /\ d.kind \in Publications

\* A scenario is newer than whatever was asked before, and has its generation to
\* itself until it is shown.
CreatesInv(q, w) ==
    /\ \A k \in 1 .. Len(q) : q[k].kind = "create" =>
        /\ q[k].id.gen > w.activeGeneration
        /\ \A l \in 1 .. Len(q) : l < k => q[l].id.gen < q[k].id.gen
        /\ \A l \in 1 .. Len(q) : IsNav(q[l]) => q[l].id.gen # q[k].id.gen
    /\ \A e \in w.encodings : e.kind = "create" =>
        \A l \in 1 .. Len(q) : IsNav(q[l]) => q[l].id.gen # e.id.gen

\* Requests whose admission withdraws what awaits a verdict.
Dangerous(a, r) == r.kind \in {"create", "configure"} \cup Dialogs \/ r.id.gen > a
Harmless(q, a) == \A k \in 1 .. Len(q) : ~Dangerous(a, q[k])

\* Nothing of that kind is behind what the client still takes.
ClearInv(q, w, dec, g, s) ==
    /\ \A job \in Jobs, i \in Ids :
        Cur(i, g, s) /\ (InWorker(w, job, i) \/ Decoding(dec, job, i)) => Harmless(q, w.activeGeneration)
    /\ \A k, l \in 1 .. Len(q) :
        k < l /\ Cur(q[k].id, g, s) /\ ReqJob(q[k]) \in Jobs => ~Dangerous(w.activeGeneration, q[l])

\* A publication that the client still takes awaits its verdict in the Worker.
AnswersOffered(w, g, s) == \A k \in 1 .. Len(w.answers) :
    w.answers[k].kind \in Publications /\ Cur(w.answers[k].id, g, s)
        => Offered(w, w.answers[k].id, w.answers[k].view)
DecodingOffered(w, dec, g, s) ==
    \A d \in dec : Cur(d.id, g, s) => Offered(w, d.id, d.view)

\* An acceptance finds its publication.
Accepts(r) == IsAck(r) /\ r.accepted
AcceptsInv(q, w) == \A k \in 1 .. Len(q) : Accepts(q[k]) =>
    /\ Judges(w, q[k])
    /\ \A l \in 1 .. Len(q) : l < k =>
        /\ ~Dangerous(w.activeGeneration, q[l])
        /\ IsAck(q[l]) => q[l].id # q[k].id

\* A parked navigation that the client waits for has something to wake it.
ParkInv(w, g, s) ==
    w.deferred # NoRequest /\ Cur(w.deferred.id, g, s) => Blocked(w)

Joint(q, w, dec, g, s) ==
    /\ q \in Seq(Requests) /\ dec \in SUBSET Answers /\ g \in Generations /\ s \in Nat
    /\ 1 <= g /\ w.activeGeneration <= g
    /\ WorkerInv(w, s) /\ QueueForm(q, w.activeGeneration, g, s)
    /\ DecodingForm(dec, w.activeGeneration, s)
    /\ OnceInv(q, w, dec) /\ CreatesInv(q, w) /\ AcceptsInv(q, w)
    /\ ClearInv(q, w, dec, g, s) /\ AnswersOffered(w, g, s) /\ DecodingOffered(w, dec, g, s)
    /\ ParkInv(w, g, s)

\* What the controls say of the jobs under way.
Controlled(q, w, dec, g, s) ==
    failed = "no" =>
        /\ timer \/ autoplay => status = "solving"
        /\ generating => status = "generating"
        /\ pendingFlowGeneration # 0 => pendingFlowGeneration = g /\ status = "loading"
        /\ \A d \in dec : Cur(d.id, g, s) => lifecycle = d.id
        /\ \A job \in Jobs, i \in Ids :
            Cur(i, g, s) /\ UnderWay(q, w, dec, job, i) => status = job /\ ~timer

(***************************************************************************)
(* The port                                                                 *)
(***************************************************************************)
\* The requests of a port with one more.
LEMMA Appended ==
    ASSUME NEW q \in Seq(Requests), NEW r \in Requests
    PROVE  LET p == Append(q, r)
           IN /\ p \in Seq(Requests) /\ Len(q) \in Nat /\ Len(p) = Len(q) + 1
              /\ p[Len(q) + 1] = r
              /\ \A k \in 1 .. Len(q) : k \in 1 .. Len(p) /\ p[k] = q[k]
              /\ Len(q) + 1 \in 1 .. Len(p)
              /\ \A k \in 1 .. Len(p) : k \in 1 .. Len(q) \/ k = Len(q) + 1
OBVIOUS

\* The requests of a port with one fewer.
LEMMA Taken ==
    ASSUME NEW q \in Seq(Requests), q # <<>>
    PROVE  /\ Tail(q) \in Seq(Requests) /\ Head(q) \in Requests /\ Head(q) = q[1]
           /\ Len(q) \in Nat /\ 1 \in 1 .. Len(q) /\ Len(Tail(q)) = Len(q) - 1
           /\ \A k \in 1 .. Len(Tail(q)) : k + 1 \in 1 .. Len(q) /\ Tail(q)[k] = q[k + 1]
           /\ \A k \in 1 .. Len(q) : k = 1 \/ (k - 1 \in 1 .. Len(Tail(q)) /\ Tail(q)[k - 1] = q[k])
OBVIOUS

\* Jobs and verdicts of a port with one more request.
LEMMA AppendedJobs ==
    ASSUME NEW q \in Seq(Requests), NEW r \in Requests, NEW job, NEW i
    PROVE  /\ Queued(Append(q, r), job, i) <=> Queued(q, job, i) \/ (ReqJob(r) = job /\ r.id = i)
           /\ Acked(Append(q, r), i) <=> Acked(q, i) \/ (IsAck(r) /\ r.id = i)
           /\ OnceQueued(q, job, i) /\ ~(ReqJob(r) = job /\ r.id = i /\ Queued(q, job, i))
                => OnceQueued(Append(q, r), job, i)
<1> DEFINE p == Append(q, r)
<1>1. /\ Len(q) \in Nat /\ Len(p) = Len(q) + 1
      /\ p[Len(q) + 1] = r
      /\ \A k \in 1 .. Len(q) : k \in 1 .. Len(p) /\ p[k] = q[k]
      /\ Len(q) + 1 \in 1 .. Len(p)
      /\ \A k \in 1 .. Len(p) : k \in 1 .. Len(q) \/ k = Len(q) + 1
  BY Appended
<1> HIDE DEF p
<1>2. Queued(p, job, i) <=> Queued(q, job, i) \/ (ReqJob(r) = job /\ r.id = i)
  BY <1>1 DEF Queued
<1>3. Acked(p, i) <=> Acked(q, i) \/ (IsAck(r) /\ r.id = i)
  BY <1>1 DEF Acked
<1>4. ASSUME OnceQueued(q, job, i), ~(ReqJob(r) = job /\ r.id = i /\ Queued(q, job, i))
      PROVE  OnceQueued(p, job, i)
  BY <1>1, <1>4 DEF OnceQueued, Queued
<1> QED
  BY <1>2, <1>3, <1>4 DEF p

\* Jobs and verdicts of a port with one request fewer.
LEMMA TakenJobs ==
    ASSUME NEW q \in Seq(Requests), q # <<>>, NEW job, NEW i
    PROVE  /\ Queued(Tail(q), job, i) => Queued(q, job, i)
           /\ Acked(Tail(q), i) => Acked(q, i)
           /\ OnceQueued(q, job, i) => OnceQueued(Tail(q), job, i)
           /\ ReqJob(Head(q)) = job /\ Head(q).id = i =>
                /\ Queued(q, job, i)
                /\ OnceQueued(q, job, i) => ~Queued(Tail(q), job, i)
<1> DEFINE p == Tail(q)
<1>1. /\ Head(q) = q[1] /\ Len(q) \in Nat /\ 1 \in 1 .. Len(q) /\ Len(p) = Len(q) - 1
      /\ \A k \in 1 .. Len(p) : k + 1 \in 1 .. Len(q) /\ p[k] = q[k + 1]
  BY Taken
<1> HIDE DEF p
<1>2. Queued(p, job, i) => Queued(q, job, i)
  BY <1>1 DEF Queued
<1>3. Acked(p, i) => Acked(q, i)
  BY <1>1 DEF Acked
<1>4. ASSUME OnceQueued(q, job, i)
      PROVE  OnceQueued(p, job, i)
  <2> SUFFICES ASSUME NEW k \in 1 .. Len(p), NEW l \in 1 .. Len(p),
                      ReqJob(p[k]) = job /\ p[k].id = i, ReqJob(p[l]) = job /\ p[l].id = i
               PROVE  k = l
    BY DEF OnceQueued
  <2>1. k + 1 \in 1 .. Len(q) /\ l + 1 \in 1 .. Len(q) /\ p[k] = q[k + 1] /\ p[l] = q[l + 1]
    BY <1>1
  <2>2. k + 1 = l + 1
    BY <1>4, <2>1 DEF OnceQueued
  <2> QED
    BY <2>2
<1>5. ASSUME ReqJob(q[1]) = job, q[1].id = i
      PROVE  Queued(q, job, i) /\ (OnceQueued(q, job, i) => ~Queued(p, job, i))
  <2>1. Queued(q, job, i)
    BY <1>1, <1>5 DEF Queued
  <2>2. ASSUME OnceQueued(q, job, i), NEW k \in 1 .. Len(p), ReqJob(p[k]) = job, p[k].id = i
        PROVE  FALSE
    <3>1. k + 1 \in 1 .. Len(q) /\ p[k] = q[k + 1] /\ k + 1 # 1
      BY <1>1
    <3>2. k + 1 = 1
      BY <1>1, <1>5, <2>2, <3>1 DEF OnceQueued
    <3> QED
      BY <3>1, <3>2
  <2> QED
    BY <2>1, <2>2 DEF Queued
<1> QED
  BY <1>1, <1>2, <1>3, <1>4, <1>5 DEF p

\* Names of what is under way.
LEMMA NamedJobs ==
    ASSUME NEW q, NEW w, NEW dec, NEW g, NEW s, Joint(q, w, dec, g, s),
           NEW job \in Jobs, NEW i, UnderWay(q, w, dec, job, i)
    PROVE  /\ i \in Ids /\ Named(i, g, s)
           /\ InWorker(w, job, i) \/ Decoding(dec, job, i) => Named(i, w.activeGeneration, s)
           /\ job = "solving" <=> i.serial > 0
           /\ job # "solving" <=> i.serial = 0
<1>0. /\ q \in Seq(Requests) /\ dec \in SUBSET Answers /\ w \in Workers /\ s \in Nat
      /\ w.activeGeneration \in Nat /\ g \in Nat /\ w.activeGeneration <= g
      /\ WorkerForm(w, s) /\ QueueForm(q, w.activeGeneration, g, s)
      /\ DecodingForm(dec, w.activeGeneration, s)
  BY DEF Joint, WorkerInv, Workers, Generations
<1>1. ASSUME Queued(q, job, i)
      PROVE  i \in Ids /\ Named(i, g, s) /\ (IF job = "solving" THEN i.serial > 0 ELSE i.serial = 0)
  <2>1. PICK k \in 1 .. Len(q) : ReqJob(q[k]) = job /\ q[k].id = i
    BY <1>1 DEF Queued
  <2>2. q[k] \in Requests /\ RequestForm(q[k]) /\ Named(q[k].id, g, s)
    BY <1>0 DEF QueueForm
  <2>3. (IsNav(q[k]) <=> job = "solving") /\ ~IsAck(q[k])
    BY <2>1 DEF ReqJob, IsNav, IsAck, Navigation, Jobs
  <2> QED
    BY <2>1, <2>2, <2>3 DEF RequestForm, Requests
<1>2. ASSUME Parked(w, job, i)
      PROVE  /\ i \in Ids /\ Named(i, w.activeGeneration, s)
             /\ IF job = "solving" THEN i.serial > 0 ELSE i.serial = 0
  <2>1. w.deferred # NoRequest
    BY <1>2 DEF Parked, ReqJob, NoRequest, Plain, Navigation, Jobs
  <2>2. IsNav(w.deferred) /\ RequestForm(w.deferred) /\ Named(w.deferred.id, w.activeGeneration, s)
    BY <1>0, <2>1 DEF WorkerForm
  <2>3. job = "solving"
    BY <1>2, <2>2 DEF Parked, ReqJob, IsNav, Navigation
  <2> QED
    BY <1>0, <1>2, <2>2, <2>3 DEF Parked, RequestForm, Workers, Requests
<1>3. ASSUME Encoded(w, job, i)
      PROVE  /\ i \in Ids /\ Named(i, w.activeGeneration, s)
             /\ IF job = "solving" THEN i.serial > 0 ELSE i.serial = 0
  <2>1. PICK e \in w.encodings : EncJob(e) = job /\ e.id = i
    BY <1>3 DEF Encoded
  <2>2. e \in Encodings /\ EncodingForm(e) /\ Named(e.id, w.activeGeneration, s)
    BY <1>0 DEF WorkerForm, Workers
  <2> QED
    BY <2>1, <2>2 DEF EncodingForm, EncJob, Encodings
<1>4. ASSUME NEW a \in Answers, AnswerForm(a), AnsJob(a) = job, a.id = i
      PROVE  i \in Ids /\ (IF job = "solving" THEN i.serial > 0 ELSE i.serial = 0)
  BY <1>4 DEF AnswerForm, Answers, Jobs
<1>5. ASSUME Answered(w, job, i)
      PROVE  /\ i \in Ids /\ Named(i, w.activeGeneration, s)
             /\ IF job = "solving" THEN i.serial > 0 ELSE i.serial = 0
  <2>1. PICK k \in 1 .. Len(w.answers) : AnsJob(w.answers[k]) = job /\ w.answers[k].id = i
    BY <1>5 DEF Answered
  <2>2. w.answers \in Seq(Answers)
    BY <1>0 DEF Workers
  <2>3. w.answers[k] \in Answers /\ AnswerForm(w.answers[k]) /\ Named(w.answers[k].id, w.activeGeneration, s)
    BY <1>0, <2>2 DEF WorkerForm
  <2> QED
    BY <1>4, <2>1, <2>3
<1>6. ASSUME Decoding(dec, job, i)
      PROVE  /\ i \in Ids /\ Named(i, w.activeGeneration, s)
             /\ IF job = "solving" THEN i.serial > 0 ELSE i.serial = 0
  <2>1. PICK d \in dec : AnsJob(d) = job /\ d.id = i
    BY <1>6 DEF Decoding
  <2>2. d \in Answers /\ AnswerForm(d) /\ Named(d.id, w.activeGeneration, s)
    BY <1>0 DEF DecodingForm
  <2> QED
    BY <1>4, <2>1, <2>2
<1>7. i \in Ids /\ (IF job = "solving" THEN i.serial > 0 ELSE i.serial = 0)
      /\ (Named(i, w.activeGeneration, s) \/ Named(i, g, s))
  BY <1>1, <1>2, <1>3, <1>5, <1>6 DEF UnderWay, InWorker
<1>8. Named(i, w.activeGeneration, s) => Named(i, g, s)
  BY <1>0, <1>7 DEF Named, Ids, Generations
<1>9. InWorker(w, job, i) \/ Decoding(dec, job, i) => Named(i, w.activeGeneration, s)
  BY <1>2, <1>3, <1>5, <1>6 DEF InWorker
<1>10. job = "solving" <=> i.serial > 0
  <2>1. i.serial \in Nat
    BY <1>7 DEF Ids
  <2> QED
    BY <1>7, <2>1
<1>11. job # "solving" <=> i.serial = 0
  <2>1. i.serial \in Nat
    BY <1>7 DEF Ids
  <2> QED
    BY <1>7, <2>1
<1> QED
  BY <1>7, <1>8, <1>9, <1>10, <1>11

(***************************************************************************)
(* The client moves on                                                      *)
(***************************************************************************)

\* What everything under way is named, and so what the client has left behind.
LEMMA Left ==
    ASSUME NEW g \in Nat, NEW s \in Nat, NEW g1 \in Nat, NEW s1 \in Nat,
           (g1 = g /\ s1 >= s) \/ (g1 > g /\ s1 = s), NEW i \in Ids
    PROVE  /\ Named(i, g, s) => Named(i, g1, s1)
           /\ Named(i, g, s) /\ Cur(i, g1, s1) =>
                Cur(i, g, s) /\ g1 = g /\ (s1 > s => i.serial = 0)
BY DEF Named, Cur, Ids, Generations

\* A publication carries a job.
LEMMA PublicationJob ==
    ASSUME NEW a \in Answers, AnswerForm(a), a.kind \in Publications
    PROVE  AnsJob(a) \in Jobs /\ AckJob(a.id) = AnsJob(a)
<1>1. a.source = "none" /\ a.kind \in {"ready", "update"}
  BY DEF AnswerForm, Publications, Answers
<1>2. a.kind = "ready" => AnsJob(a) = "loading"
  BY DEF AnsJob
<1>3. a.kind = "update" => AnsJob(a) = "solving"
  BY <1>1 DEF AnsJob
<1>4. a.id.serial \in Nat
  BY DEF Answers, Ids
<1>5. a.kind = "ready" => a.id.serial = 0
  BY <1>2 DEF AnswerForm
<1>6. a.kind = "update" => a.id.serial # 0
  BY <1>3, <1>4 DEF AnswerForm
<1> QED
  BY <1>1, <1>2, <1>3, <1>5, <1>6 DEF AckJob, Jobs

\* The types and the names that the invariant gives to everything under way.
LEMMA JointFacts ==
    ASSUME NEW q, NEW w, NEW dec, NEW g, NEW s, Joint(q, w, dec, g, s)
    PROVE  /\ q \in Seq(Requests) /\ dec \in SUBSET Answers /\ g \in Nat /\ s \in Nat
           /\ w \in Workers /\ w.answers \in Seq(Answers)
           /\ w.activeGeneration \in Nat /\ w.activeGeneration <= g /\ 1 <= g
           /\ \A k \in 1 .. Len(q) :
                /\ q[k] \in Requests /\ q[k].id \in Ids /\ Named(q[k].id, g, s)
                /\ RequestForm(q[k]) /\ (IsAck(q[k]) => q[k].id.gen <= w.activeGeneration)
           /\ \A k \in 1 .. Len(w.answers) :
                /\ w.answers[k] \in Answers /\ w.answers[k].id \in Ids
                /\ AnswerForm(w.answers[k]) /\ Named(w.answers[k].id, w.activeGeneration, s)
                /\ Named(w.answers[k].id, g, s)
           /\ \A d \in dec :
                /\ d \in Answers /\ d.id \in Ids /\ AnswerForm(d)
                /\ Named(d.id, w.activeGeneration, s) /\ Named(d.id, g, s)
           /\ w.deferred # NoRequest => w.deferred.id \in Ids /\ Named(w.deferred.id, g, s)
<1>1. /\ q \in Seq(Requests) /\ dec \in SUBSET Answers /\ g \in Nat /\ s \in Nat
      /\ w \in Workers /\ w.answers \in Seq(Answers) /\ w.deferred \in Requests
      /\ w.activeGeneration \in Nat /\ w.activeGeneration <= g /\ 1 <= g
      /\ QueueForm(q, w.activeGeneration, g, s) /\ DecodingForm(dec, w.activeGeneration, s)
      /\ WorkerForm(w, s)
  BY DEF Joint, WorkerInv, Workers, Generations
<1>2. \A k \in 1 .. Len(q) : q[k] \in Requests
  BY <1>1
<1>3. \A k \in 1 .. Len(w.answers) : w.answers[k] \in Answers
  BY <1>1
<1>4. \A i \in Ids : Named(i, w.activeGeneration, s) => Named(i, g, s)
  BY <1>1, Left
<1>5. \A k \in 1 .. Len(q) :
        /\ q[k] \in Requests /\ q[k].id \in Ids /\ Named(q[k].id, g, s)
        /\ RequestForm(q[k]) /\ (IsAck(q[k]) => q[k].id.gen <= w.activeGeneration)
  BY <1>1, <1>2 DEF QueueForm, Requests
<1>6. \A k \in 1 .. Len(w.answers) :
        /\ w.answers[k] \in Answers /\ w.answers[k].id \in Ids
        /\ AnswerForm(w.answers[k]) /\ Named(w.answers[k].id, w.activeGeneration, s)
        /\ Named(w.answers[k].id, g, s)
  BY <1>1, <1>3, <1>4 DEF WorkerForm, Answers
<1>7. \A d \in dec :
        /\ d \in Answers /\ d.id \in Ids /\ AnswerForm(d)
        /\ Named(d.id, w.activeGeneration, s) /\ Named(d.id, g, s)
  BY <1>1, <1>4 DEF DecodingForm, Answers
<1>8. w.deferred # NoRequest => w.deferred.id \in Ids /\ Named(w.deferred.id, g, s)
  BY <1>1, <1>4 DEF WorkerForm, Requests
<1> QED
  BY <1>1, <1>5, <1>6, <1>7, <1>8

\* A later generation or serial takes nothing that is under way for a serial before it.
LEMMA Bumped ==
    ASSUME NEW q, NEW w, NEW dec, NEW g, NEW s, Joint(q, w, dec, g, s),
           NEW g1 \in Generations, NEW s1 \in Nat,
           (g1 = g /\ s1 >= s) \/ (g1 > g /\ s1 = s)
    PROVE  /\ Joint(q, w, dec, g1, s1)
           /\ \A job \in Jobs, i \in Ids : Cur(i, g1, s1) /\ UnderWay(q, w, dec, job, i) =>
                Cur(i, g, s) /\ g1 = g /\ (s1 > s => job # "solving")
<1>0. /\ q \in Seq(Requests) /\ dec \in SUBSET Answers /\ g \in Nat /\ s \in Nat
      /\ w \in Workers /\ w.answers \in Seq(Answers)
      /\ w.activeGeneration \in Nat /\ w.activeGeneration <= g /\ 1 <= g
      /\ \A k \in 1 .. Len(q) :
           /\ q[k] \in Requests /\ q[k].id \in Ids /\ Named(q[k].id, g, s)
           /\ RequestForm(q[k]) /\ (IsAck(q[k]) => q[k].id.gen <= w.activeGeneration)
      /\ \A k \in 1 .. Len(w.answers) :
           /\ w.answers[k] \in Answers /\ w.answers[k].id \in Ids
           /\ AnswerForm(w.answers[k]) /\ Named(w.answers[k].id, w.activeGeneration, s)
           /\ Named(w.answers[k].id, g, s)
      /\ \A d \in dec :
           /\ d \in Answers /\ d.id \in Ids /\ AnswerForm(d)
           /\ Named(d.id, w.activeGeneration, s) /\ Named(d.id, g, s)
      /\ w.deferred # NoRequest => w.deferred.id \in Ids /\ Named(w.deferred.id, g, s)
  BY JointFacts
<1>1. g1 \in Nat /\ w.activeGeneration <= g1 /\ 1 <= g1 /\ s <= s1
  BY <1>0 DEF Generations
<1>2. \A i \in Ids :
        /\ Named(i, g, s) => Named(i, g1, s1)
        /\ Named(i, g, s) /\ Cur(i, g1, s1) =>
             Cur(i, g, s) /\ g1 = g /\ (s1 > s => i.serial = 0)
  BY <1>0, <1>1, Left
<1>3. \A i \in Ids : Named(i, w.activeGeneration, s) => Named(i, w.activeGeneration, s1)
  BY <1>0, <1>1, Left
<1>4. WorkerInv(w, s1)
  <2>1. WorkerForm(w, s) /\ w \in Workers
    BY DEF Joint, WorkerInv
  <2>2. /\ \A e \in w.encodings : e.id \in Ids
        /\ w.deferred.id \in Ids
    BY <2>1 DEF Workers, Encodings, Requests
  <2>3. WorkerForm(w, s1)
    BY <1>0, <1>3, <2>1, <2>2 DEF WorkerForm
  <2> QED
    BY <2>3 DEF Joint, WorkerInv
<1>5. QueueForm(q, w.activeGeneration, g1, s1)
  BY <1>0, <1>2 DEF QueueForm
<1>6. DecodingForm(dec, w.activeGeneration, s1)
  BY <1>0, <1>3 DEF DecodingForm, Joint
<1>7. \A job \in Jobs, i \in Ids : UnderWay(q, w, dec, job, i) =>
        Named(i, g, s) /\ (job = "solving" <=> i.serial > 0)
  BY NamedJobs
<1>8. ASSUME NEW job \in Jobs, NEW i \in Ids, Cur(i, g1, s1), UnderWay(q, w, dec, job, i)
      PROVE  Cur(i, g, s) /\ g1 = g /\ (s1 > s => job # "solving")
  <2>1. Named(i, g, s) /\ (job = "solving" <=> i.serial > 0)
    BY <1>7, <1>8
  <2> QED
    BY <1>2, <1>8, <2>1
<1>9. ClearInv(q, w, dec, g1, s1)
  <2>1. ClearInv(q, w, dec, g, s)
    BY DEF Joint
  <2>2. \A job \in Jobs, i \in Ids :
          Cur(i, g1, s1) /\ (InWorker(w, job, i) \/ Decoding(dec, job, i))
            => Harmless(q, w.activeGeneration)
    BY <1>8, <2>1 DEF ClearInv, UnderWay
  <2>3. \A k, l \in 1 .. Len(q) :
          k < l /\ Cur(q[k].id, g1, s1) /\ ReqJob(q[k]) \in Jobs => ~Dangerous(w.activeGeneration, q[l])
    BY <1>0, <1>2, <2>1 DEF ClearInv
  <2> QED
    BY <2>2, <2>3 DEF ClearInv
<1>10. AnswersOffered(w, g1, s1) /\ DecodingOffered(w, dec, g1, s1) /\ ParkInv(w, g1, s1)
  BY <1>0, <1>2 DEF Joint, AnswersOffered, DecodingOffered, ParkInv
<1>11. Joint(q, w, dec, g1, s1)
  BY <1>0, <1>1, <1>4, <1>5, <1>6, <1>9, <1>10 DEF Joint
<1> QED
  BY <1>8, <1>11

(***************************************************************************)
(* The client posts                                                         *)
(***************************************************************************)
\* A request of the client joins the port.
LEMMA Posts ==
    ASSUME NEW q, NEW w, NEW dec, NEW g, NEW s, Joint(q, w, dec, g, s),
           NEW r \in Requests, ~IsAck(r), RequestForm(r), Named(r.id, g, s),
           ReqJob(r) \in Jobs =>
              ~UnderWay(q, w, dec, ReqJob(r), r.id) /\ ~(Acked(q, r.id) /\ AckJob(r.id) = ReqJob(r)),
           Dangerous(w.activeGeneration, r) =>
              \A job \in Jobs, i \in Ids : Cur(i, g, s) => ~UnderWay(q, w, dec, job, i),
           r.kind = "create" =>
              r.id.gen > w.activeGeneration /\ \A l \in 1 .. Len(q) : q[l].id.gen < r.id.gen,
           IsNav(r) =>
              /\ \A k \in 1 .. Len(q) : q[k].kind = "create" => q[k].id.gen # r.id.gen
              /\ \A e \in w.encodings : e.kind = "create" => e.id.gen # r.id.gen
    PROVE  /\ Joint(Append(q, r), w, dec, g, s)
           /\ \A job, i : UnderWay(Append(q, r), w, dec, job, i) <=>
                UnderWay(q, w, dec, job, i) \/ (ReqJob(r) = job /\ r.id = i)
<1> DEFINE p == Append(q, r)
<1>0. q \in Seq(Requests) /\ w.activeGeneration \in Nat /\ g \in Nat
  BY JointFacts
<1>1. /\ p \in Seq(Requests) /\ Len(q) \in Nat /\ Len(p) = Len(q) + 1
      /\ p[Len(q) + 1] = r
      /\ \A k \in 1 .. Len(q) : k \in 1 .. Len(p) /\ p[k] = q[k]
      /\ Len(q) + 1 \in 1 .. Len(p)
      /\ \A k \in 1 .. Len(p) : k \in 1 .. Len(q) \/ k = Len(q) + 1
  BY <1>0, Appended
<1>2. \A job, i :
        /\ Queued(p, job, i) <=> Queued(q, job, i) \/ (ReqJob(r) = job /\ r.id = i)
        /\ Acked(p, i) <=> Acked(q, i) \/ (IsAck(r) /\ r.id = i)
        /\ OnceQueued(q, job, i) /\ ~(ReqJob(r) = job /\ r.id = i /\ Queued(q, job, i))
             => OnceQueued(p, job, i)
  BY <1>0, AppendedJobs
<1> HIDE DEF p
<1>3. \A job, i : UnderWay(p, w, dec, job, i) <=>
        UnderWay(q, w, dec, job, i) \/ (ReqJob(r) = job /\ r.id = i)
  BY <1>2 DEF UnderWay
<1>4. QueueForm(p, w.activeGeneration, g, s)
  BY <1>1 DEF QueueForm, Joint
<1>5. OnceInv(p, w, dec)
  <2> SUFFICES ASSUME NEW job \in Jobs, NEW i \in Ids
               PROVE  Once(p, w, dec, job, i)
    BY DEF OnceInv
  <2>1. Once(q, w, dec, job, i)
    BY DEF Joint, OnceInv
  <2>2. CASE ReqJob(r) = job /\ r.id = i
    <3>1. ~UnderWay(q, w, dec, job, i) /\ ~(Acked(q, i) /\ AckJob(i) = job)
      BY <2>2
    <3> QED
      BY <1>2, <2>1, <3>1 DEF Once, UnderWay
  <2>3. CASE ~(ReqJob(r) = job /\ r.id = i)
    <3>1. /\ Queued(p, job, i) <=> Queued(q, job, i)
          /\ UnderWay(p, w, dec, job, i) <=> UnderWay(q, w, dec, job, i)
          /\ Acked(p, i) <=> Acked(q, i)
          /\ OnceQueued(q, job, i) => OnceQueued(p, job, i)
      BY <1>2, <1>3, <2>3
    <3> QED
      BY <2>1, <3>1 DEF Once
  <2> QED
    BY <2>2, <2>3
<1>6. CreatesInv(p, w)
  <2>0. CreatesInv(q, w)
    BY DEF Joint
  <2>1. ASSUME NEW k \in 1 .. Len(p), p[k].kind = "create"
        PROVE  /\ p[k].id.gen > w.activeGeneration
               /\ \A l \in 1 .. Len(p) : l < k => p[l].id.gen < p[k].id.gen
               /\ \A l \in 1 .. Len(p) : IsNav(p[l]) => p[l].id.gen # p[k].id.gen
    <3>1. CASE k \in 1 .. Len(q)
      <4>1. q[k].kind = "create" /\ p[k] = q[k]
        BY <1>1, <2>1, <3>1
      <4>2. \A l \in 1 .. Len(p) : l < k => l \in 1 .. Len(q) /\ p[l] = q[l]
        BY <1>1, <3>1
      <4>3. \A l \in 1 .. Len(p) : IsNav(p[l]) => p[l].id.gen # q[k].id.gen
        BY <1>1, <2>0, <3>1, <4>1 DEF CreatesInv
      <4> QED
        BY <2>0, <3>1, <4>1, <4>2, <4>3 DEF CreatesInv
    <3>2. CASE k = Len(q) + 1
      <4>1. p[k] = r /\ r.kind = "create" /\ ~IsNav(r)
        BY <1>1, <2>1, <3>2 DEF IsNav, Navigation
      <4>2. \A l \in 1 .. Len(q) : q[l].id.gen < r.id.gen /\ q[l].id.gen \in Nat
        BY <4>1, JointFacts DEF Ids, Generations
      <4>3. \A l \in 1 .. Len(p) : l < k => p[l].id.gen < r.id.gen
        BY <1>1, <3>2, <4>2
      <4>4. \A l \in 1 .. Len(p) : IsNav(p[l]) => p[l].id.gen # r.id.gen
        <5>1. r.id.gen \in Nat
          BY DEF Requests, Ids, Generations
        <5> QED
          BY <1>1, <4>1, <4>2, <5>1
      <4> QED
        BY <4>1, <4>3, <4>4
    <3> QED
      BY <1>1, <3>1, <3>2
  <2>2. ASSUME NEW e \in w.encodings, e.kind = "create", NEW l \in 1 .. Len(p), IsNav(p[l])
        PROVE  p[l].id.gen # e.id.gen
    BY <1>1, <2>0, <2>2 DEF CreatesInv
  <2> QED
    BY <2>1, <2>2 DEF CreatesInv
<1>7. AcceptsInv(p, w)
  <2>0. AcceptsInv(q, w)
    BY DEF Joint
  <2> SUFFICES ASSUME NEW k \in 1 .. Len(p), Accepts(p[k])
               PROVE  /\ Judges(w, p[k])
                      /\ \A l \in 1 .. Len(p) : l < k =>
                            ~Dangerous(w.activeGeneration, p[l]) /\ (IsAck(p[l]) => p[l].id # p[k].id)
    BY DEF AcceptsInv
  <2>1. k \in 1 .. Len(q) /\ p[k] = q[k]
    BY <1>1 DEF Accepts
  <2>2. \A l \in 1 .. Len(p) : l < k => l \in 1 .. Len(q) /\ p[l] = q[l]
    BY <1>1, <2>1
  <2> QED
    BY <2>0, <2>1, <2>2 DEF AcceptsInv
<1>8. ClearInv(p, w, dec, g, s)
  <2>0. ClearInv(q, w, dec, g, s)
    BY DEF Joint
  <2>1. ASSUME NEW job \in Jobs, NEW i \in Ids, Cur(i, g, s),
               InWorker(w, job, i) \/ Decoding(dec, job, i)
        PROVE  Harmless(p, w.activeGeneration)
    <3>1. UnderWay(q, w, dec, job, i) /\ Harmless(q, w.activeGeneration)
      BY <2>0, <2>1 DEF UnderWay, ClearInv
    <3>2. ~Dangerous(w.activeGeneration, r)
      BY <2>1, <3>1
    <3> QED
      BY <1>1, <3>1, <3>2 DEF Harmless
  <2>2. ASSUME NEW k \in 1 .. Len(p), NEW l \in 1 .. Len(p), k < l, Cur(p[k].id, g, s),
               ReqJob(p[k]) \in Jobs
        PROVE  ~Dangerous(w.activeGeneration, p[l])
    <3>1. k \in 1 .. Len(q) /\ p[k] = q[k] /\ q[k].id \in Ids
      BY <1>1, <2>2, JointFacts
    <3>2. UnderWay(q, w, dec, ReqJob(q[k]), q[k].id)
      BY <3>1 DEF UnderWay, Queued
    <3>3. l = Len(q) + 1 => ~Dangerous(w.activeGeneration, r)
      BY <2>2, <3>1, <3>2
    <3> QED
      BY <1>1, <2>0, <2>2, <3>1, <3>3 DEF ClearInv
  <2> QED
    BY <2>1, <2>2 DEF ClearInv
<1>9. Joint(p, w, dec, g, s)
  BY <1>1, <1>4, <1>5, <1>6, <1>7, <1>8 DEF Joint
<1> QED
  BY <1>3, <1>9 DEF p

\* A verdict is posted.
LEMMA VerdictPosted ==
    ASSUME NEW q, NEW w, NEW dec, NEW g, NEW s, Joint(q, w, dec, g, s),
           NEW i \in Ids, Named(i, w.activeGeneration, s), NEW verdict \in BOOLEAN,
           ~UnderWay(q, w, dec, AckJob(i), i),
           verdict => /\ Judges(w, Ack(i, verdict)) /\ Harmless(q, w.activeGeneration)
                      /\ ~Acked(q, i)
    PROVE  /\ Joint(Append(q, Ack(i, verdict)), w, dec, g, s)
           /\ \A job \in Jobs : \A j : UnderWay(Append(q, Ack(i, verdict)), w, dec, job, j) <=>
                UnderWay(q, w, dec, job, j)
<1> DEFINE r == Ack(i, verdict)
           p == Append(q, r)
<1>a. /\ r = [kind |-> "ack", id |-> i, target |-> 0, accepted |-> verdict]
  BY DEF Ack, Plain
<1>b. /\ r \in Requests /\ r.kind = "ack" /\ r.id = i /\ r.accepted = verdict
      /\ ReqJob(r) = "none"
  BY <1>a, FlowAssumption DEF Requests, ReqJob, Cursors, Navigation
<1>c. /\ IsAck(r) /\ ~IsNav(r) /\ (r.accepted => r = Ack(r.id, TRUE)) /\ ReqJob(r) \notin Jobs
      /\ ~Dangerous(w.activeGeneration, r)
  <2>1. i.gen \in Nat /\ i.gen <= w.activeGeneration /\ w.activeGeneration \in Nat
    BY JointFacts DEF Named, Ids, Generations
  <2>2. verdict => verdict = TRUE
    OBVIOUS
  <2>3. r.accepted => r = Ack(r.id, TRUE)
    BY <1>b, <2>2
  <2>4. ~Dangerous(w.activeGeneration, r)
    BY <1>b, <2>1 DEF Dangerous, Dialogs
  <2> QED
    BY <1>b, <2>3, <2>4 DEF IsAck, IsNav, Navigation, Jobs
<1> HIDE DEF r
<1>0. q \in Seq(Requests) /\ w.activeGeneration \in Nat /\ g \in Nat /\ w.activeGeneration <= g
  BY JointFacts
<1>1. /\ p \in Seq(Requests) /\ Len(q) \in Nat /\ Len(p) = Len(q) + 1
      /\ p[Len(q) + 1] = r
      /\ \A k \in 1 .. Len(q) : k \in 1 .. Len(p) /\ p[k] = q[k]
      /\ Len(q) + 1 \in 1 .. Len(p)
      /\ \A k \in 1 .. Len(p) : k \in 1 .. Len(q) \/ k = Len(q) + 1
  BY <1>0, <1>b, Appended
<1>2. \A job \in Jobs : \A j :
        /\ Queued(p, job, j) <=> Queued(q, job, j)
        /\ Acked(p, j) <=> Acked(q, j) \/ i = j
        /\ OnceQueued(q, job, j) => OnceQueued(p, job, j)
  BY <1>0, <1>b, <1>c, AppendedJobs
<1> HIDE DEF p
<1>3. \A job \in Jobs : \A j : UnderWay(p, w, dec, job, j) <=> UnderWay(q, w, dec, job, j)
  BY <1>2 DEF UnderWay
<1>4. QueueForm(p, w.activeGeneration, g, s)
  <2>1. Named(i, g, s) /\ i.gen <= w.activeGeneration
    BY <1>0 DEF Named, Ids, Generations
  <2>2. RequestForm(r)
    BY <1>b, <1>c DEF RequestForm
  <2> QED
    BY <1>1, <1>b, <2>1, <2>2 DEF QueueForm, Joint
<1>5. OnceInv(p, w, dec)
  BY <1>2, <1>3 DEF OnceInv, Once, Joint
<1>6. CreatesInv(p, w)
  <2>0. CreatesInv(q, w)
    BY DEF Joint
  <2>1. ASSUME NEW k \in 1 .. Len(p), p[k].kind = "create"
        PROVE  /\ p[k].id.gen > w.activeGeneration
               /\ \A l \in 1 .. Len(p) : l < k => p[l].id.gen < p[k].id.gen
               /\ \A l \in 1 .. Len(p) : IsNav(p[l]) => p[l].id.gen # p[k].id.gen
    <3>1. k \in 1 .. Len(q) /\ q[k].kind = "create" /\ p[k] = q[k]
      BY <1>1, <1>b, <2>1
    <3>2. \A l \in 1 .. Len(p) : l < k => l \in 1 .. Len(q) /\ p[l] = q[l]
      BY <1>1, <3>1
    <3>3. \A l \in 1 .. Len(p) : IsNav(p[l]) => l \in 1 .. Len(q) /\ p[l] = q[l]
      BY <1>1, <1>c
    <3> QED
      BY <2>0, <3>1, <3>2, <3>3 DEF CreatesInv
  <2>2. ASSUME NEW e \in w.encodings, e.kind = "create", NEW l \in 1 .. Len(p), IsNav(p[l])
        PROVE  p[l].id.gen # e.id.gen
    BY <1>1, <1>c, <2>0, <2>2 DEF CreatesInv
  <2> QED
    BY <2>1, <2>2 DEF CreatesInv
<1>7. AcceptsInv(p, w)
  <2>0. AcceptsInv(q, w)
    BY DEF Joint
  <2> SUFFICES ASSUME NEW k \in 1 .. Len(p), Accepts(p[k])
               PROVE  /\ Judges(w, p[k])
                      /\ \A l \in 1 .. Len(p) : l < k =>
                            ~Dangerous(w.activeGeneration, p[l]) /\ (IsAck(p[l]) => p[l].id # p[k].id)
    BY DEF AcceptsInv
  <2>1. CASE k \in 1 .. Len(q)
    <3>1. p[k] = q[k] /\ \A l \in 1 .. Len(p) : l < k => l \in 1 .. Len(q) /\ p[l] = q[l]
      BY <1>1, <2>1
    <3> QED
      BY <2>0, <2>1, <3>1 DEF AcceptsInv
  <2>2. CASE k = Len(q) + 1
    <3>1. p[k] = r /\ verdict
      BY <1>1, <1>b, <2>2 DEF Accepts
    <3>2. Judges(w, r) /\ Harmless(q, w.activeGeneration) /\ ~Acked(q, i)
      BY <3>1 DEF r
    <3>3. \A l \in 1 .. Len(p) : l < k => l \in 1 .. Len(q) /\ p[l] = q[l]
      BY <1>1, <2>2
    <3> QED
      BY <1>b, <3>1, <3>2, <3>3 DEF Harmless, Acked
  <2> QED
    BY <1>1, <2>1, <2>2
<1>8. ClearInv(p, w, dec, g, s)
  <2>0. ClearInv(q, w, dec, g, s)
    BY DEF Joint
  <2>1. Harmless(q, w.activeGeneration) => Harmless(p, w.activeGeneration)
    BY <1>1, <1>c DEF Harmless
  <2>2. ASSUME NEW k \in 1 .. Len(p), NEW l \in 1 .. Len(p), k < l, Cur(p[k].id, g, s),
               ReqJob(p[k]) \in Jobs
        PROVE  ~Dangerous(w.activeGeneration, p[l])
    <3>1. k \in 1 .. Len(q) /\ p[k] = q[k]
      BY <1>1, <2>2
    <3> QED
      BY <1>1, <1>c, <2>0, <2>2, <3>1 DEF ClearInv
  <2> QED
    BY <2>0, <2>1, <2>2 DEF ClearInv
<1>9. Joint(p, w, dec, g, s)
  BY <1>1, <1>4, <1>5, <1>6, <1>7, <1>8 DEF Joint
<1> QED
  BY <1>3, <1>9 DEF p, r

(***************************************************************************)
(* A publication is decoded                                                 *)
(***************************************************************************)
\* A publication leaves the port of the client and is decoded.
LEMMA DecodeStarts ==
    ASSUME NEW q, NEW w, NEW dec, NEW g, NEW s, Joint(q, w, dec, g, s),
           NEW d \in Answers, d.kind \in Publications, AnswerForm(d),
           Named(d.id, w.activeGeneration, s),
           ~UnderWay(q, w, dec, AnsJob(d), d.id),
           ~(Acked(q, d.id) /\ AckJob(d.id) = AnsJob(d)),
           Cur(d.id, g, s) => Harmless(q, w.activeGeneration) /\ Offered(w, d.id, d.view)
    PROVE  /\ Joint(q, w, dec \cup {d}, g, s)
           /\ \A job, i : UnderWay(q, w, dec \cup {d}, job, i) <=>
                UnderWay(q, w, dec, job, i) \/ (AnsJob(d) = job /\ d.id = i)
<1> DEFINE all == dec \cup {d}
<1>1. \A job, i : Decoding(all, job, i) <=> Decoding(dec, job, i) \/ (AnsJob(d) = job /\ d.id = i)
  BY DEF Decoding
<1>2. \A job, i : UnderWay(q, w, all, job, i) <=>
        UnderWay(q, w, dec, job, i) \/ (AnsJob(d) = job /\ d.id = i)
  BY <1>1 DEF UnderWay
<1>3. all \in SUBSET Answers
  BY DEF Joint
<1>4. DecodingForm(all, w.activeGeneration, s)
  BY DEF Joint, DecodingForm
<1>5. DecodingOffered(w, all, g, s)
  BY DEF Joint, DecodingOffered
<1>6. OnceInv(q, w, all)
  <2> SUFFICES ASSUME NEW job \in Jobs, NEW i \in Ids
               PROVE  Once(q, w, all, job, i)
    BY DEF OnceInv
  <2>1. Once(q, w, dec, job, i)
    BY DEF Joint, OnceInv
  <2>2. CASE AnsJob(d) = job /\ d.id = i
    <3>1. ~UnderWay(q, w, dec, job, i) /\ ~(Acked(q, i) /\ AckJob(i) = job)
      BY <2>2
    <3>2. OnceDecoding(all, job, i)
      BY <3>1 DEF OnceDecoding, UnderWay, Decoding
    <3> QED
      BY <1>1, <2>1, <3>1, <3>2 DEF Once, UnderWay
  <2>3. CASE ~(AnsJob(d) = job /\ d.id = i)
    <3>1. OnceDecoding(all, job, i)
      BY <2>1, <2>3 DEF OnceDecoding, Once
    <3> QED
      BY <1>1, <1>2, <2>1, <2>3, <3>1 DEF Once
  <2> QED
    BY <2>2, <2>3
<1>7. ClearInv(q, w, all, g, s)
  <2>0. ClearInv(q, w, dec, g, s)
    BY DEF Joint
  <2> QED
    BY <1>1, <2>0 DEF ClearInv
<1> HIDE DEF all
<1>8. Joint(q, w, all, g, s)
  BY <1>3, <1>4, <1>5, <1>6, <1>7 DEF Joint
<1> QED
  BY <1>2, <1>8 DEF all

\* A decode ends: no job is left of it, and no verdict on it was posted.
LEMMA DecodeEnds ==
    ASSUME NEW q, NEW w, NEW dec, NEW g, NEW s, Joint(q, w, dec, g, s), NEW d \in dec
    PROVE  /\ Joint(q, w, dec \ {d}, g, s)
           /\ \A job \in Jobs, i \in Ids : UnderWay(q, w, dec \ {d}, job, i) =>
                UnderWay(q, w, dec, job, i) /\ ~(AnsJob(d) = job /\ d.id = i)
           /\ ~UnderWay(q, w, dec \ {d}, AckJob(d.id), d.id) /\ ~Acked(q, d.id)
<1> DEFINE rest == dec \ {d}
<1>0. /\ d \in Answers /\ d.id \in Ids /\ AnswerForm(d) /\ d.kind \in Publications
  BY JointFacts DEF Joint, DecodingForm
<1>1. AnsJob(d) \in Jobs /\ AckJob(d.id) = AnsJob(d)
  BY <1>0, PublicationJob
<1>2. \A job, i : Decoding(rest, job, i) => Decoding(dec, job, i)
  BY DEF Decoding
<1>3. \A job, i : UnderWay(q, w, rest, job, i) => UnderWay(q, w, dec, job, i)
  BY <1>2 DEF UnderWay
<1>4. OnceInv(q, w, rest)
  <2>1. \A job, i : OnceDecoding(dec, job, i) => OnceDecoding(rest, job, i)
    BY DEF OnceDecoding
  <2> QED
    BY <1>2, <1>3, <2>1 DEF Joint, OnceInv, Once
<1>5. Once(q, w, dec, AnsJob(d), d.id) /\ Decoding(dec, AnsJob(d), d.id)
  BY <1>0, <1>1 DEF Joint, OnceInv, Decoding
<1>6. ~Decoding(rest, AnsJob(d), d.id)
  BY <1>5 DEF Once, OnceDecoding, Decoding
<1>7. ~UnderWay(q, w, rest, AnsJob(d), d.id) /\ ~Acked(q, d.id)
  BY <1>1, <1>5, <1>6 DEF Once, UnderWay
<1>8. ClearInv(q, w, rest, g, s)
  BY <1>2 DEF Joint, ClearInv
<1>9. Joint(q, w, rest, g, s)
  BY <1>4, <1>8 DEF Joint, DecodingForm, DecodingOffered
<1> QED
  BY <1>1, <1>3, <1>7, <1>9

(***************************************************************************)
(* The Worker moves on                                                      *)
(***************************************************************************)
\* The Worker moves while the ports stay: what the client still takes is kept.
LEMMA WorkerMoves ==
    ASSUME NEW q, NEW w, NEW dec, NEW g, NEW s, Joint(q, w, dec, g, s),
           NEW x, WorkerInv(x, s), x.activeGeneration = w.activeGeneration,
           Tokens(w, x, "none", NoId), Keeps(w, x),
           \A e \in x.encodings : e.kind = "create" => e \in w.encodings,
           AnswersOffered(x, g, s),
           Awake(x) \/ (x.deferred = w.deferred /\ (Blocked(w) => Blocked(x)))
    PROVE  /\ Joint(q, x, dec, g, s)
           /\ \A job \in Jobs, i \in Ids : UnderWay(q, x, dec, job, i) => UnderWay(q, w, dec, job, i)
<1>1. \A job \in Jobs, i \in Ids :
        /\ InWorker(x, job, i) => InWorker(w, job, i)
        /\ OnceInWorker(w, job, i) => OnceInWorker(x, job, i)
  BY DEF Tokens, Jobs
<1>2. \A job \in Jobs, i \in Ids : UnderWay(q, x, dec, job, i) => UnderWay(q, w, dec, job, i)
  BY <1>1 DEF UnderWay
<1>3. OnceInv(q, x, dec)
  BY <1>1, <1>2 DEF OnceInv, Once, Joint
<1>4. CreatesInv(q, x)
  BY DEF Joint, CreatesInv
<1>5. AcceptsInv(q, x)
  <2>1. \A r : Judges(w, r) => Judges(x, r)
    BY DEF Judges, Keeps
  <2> QED
    BY <2>1 DEF Joint, AcceptsInv
<1>6. ClearInv(q, x, dec, g, s)
  <2>1. ClearInv(q, w, dec, g, s)
    BY DEF Joint
  <2> QED
    BY <1>1, <2>1 DEF ClearInv
<1>7. DecodingOffered(x, dec, g, s)
  BY DEF Joint, DecodingOffered, Keeps
<1>8. ParkInv(x, g, s)
  BY DEF Joint, ParkInv, Awake
<1>9. Joint(q, x, dec, g, s)
  BY <1>3, <1>4, <1>5, <1>6, <1>7, <1>8 DEF Joint
<1> QED
  BY <1>2, <1>9

\* A suspended handler continues.
LEMMA Continued ==
    ASSUME NEW q, NEW w, NEW dec, NEW g, NEW s, Joint(q, w, dec, g, s),
           NEW x, Continues(w, x, s)
    PROVE  /\ Joint(q, x, dec, g, s)
           /\ \A job \in Jobs, i \in Ids : UnderWay(q, x, dec, job, i) => UnderWay(q, w, dec, job, i)
<1>1. /\ WorkerInv(x, s) /\ Tokens(w, x, "none", NoId) /\ Grows(w, x) /\ Keeps(w, x)
      /\ Awake(x) \/ (x.deferred = w.deferred /\ (Blocked(w) => Blocked(x)))
  BY DEF Continues
<1>2. x.answers \in Seq(Answers) /\ w.answers \in Seq(Answers)
  BY <1>1, JointFacts DEF WorkerInv, Workers
<1>3. AnswersOffered(x, g, s)
  <2> SUFFICES ASSUME NEW k \in 1 .. Len(x.answers), x.answers[k].kind \in Publications,
                      Cur(x.answers[k].id, g, s)
               PROVE  Offered(x, x.answers[k].id, x.answers[k].view)
    BY DEF AnswersOffered
  <2>1. CASE k > Len(w.answers)
    BY <1>1, <2>1 DEF Grows
  <2>2. CASE ~(k > Len(w.answers))
    <3>1. k \in 1 .. Len(w.answers)
      BY <1>2, <2>2
    <3>2. x.answers[k] = w.answers[k]
      BY <1>1, <3>1 DEF Grows
    <3>3. Offered(w, w.answers[k].id, w.answers[k].view)
      BY <3>1, <3>2 DEF Joint, AnswersOffered
    <3> QED
      BY <1>1, <3>2, <3>3 DEF Keeps
  <2> QED
    BY <2>1, <2>2
<1>4. x.activeGeneration = w.activeGeneration /\ \A e \in x.encodings : e.kind = "create" => e \in w.encodings
  BY <1>1 DEF Grows
<1> QED
  BY <1>1, <1>3, <1>4, WorkerMoves

\* The answers behind the first one.
LEMMA RestOfAnswers ==
    ASSUME NEW seq \in Seq(Answers), seq # <<>>
    PROVE  /\ Tail(seq) \in Seq(Answers) /\ Head(seq) \in Answers /\ Head(seq) = seq[1]
           /\ Len(seq) \in Nat /\ 1 \in 1 .. Len(seq)
           /\ \A k \in 1 .. Len(Tail(seq)) :
                k \in Nat /\ k + 1 \in 1 .. Len(seq) /\ k + 1 # 1 /\ Tail(seq)[k] = seq[k + 1]
OBVIOUS

\* The client takes an answer.
LEMMA AnswerTaken ==
    ASSUME NEW q, NEW w, NEW dec, NEW g, NEW s, Joint(q, w, dec, g, s), w.answers # <<>>
    PROVE  LET x == [w EXCEPT !.answers = Tail(@)]
               a == Head(w.answers)
           IN /\ Joint(q, x, dec, g, s)
              /\ x.activeGeneration = w.activeGeneration /\ x.encodings = w.encodings
              /\ \A i, v : Offered(x, i, v) <=> Offered(w, i, v)
              /\ Standing(x) = Standing(w)
              /\ a \in Answers /\ a.id \in Ids /\ AnswerForm(a) /\ Named(a.id, w.activeGeneration, s)
              /\ \A job \in Jobs, i \in Ids : UnderWay(q, x, dec, job, i) => UnderWay(q, w, dec, job, i)
              /\ AnsJob(a) \in Jobs =>
                   /\ UnderWay(q, w, dec, AnsJob(a), a.id) /\ ~UnderWay(q, x, dec, AnsJob(a), a.id)
                   /\ ~(Acked(q, a.id) /\ AckJob(a.id) = AnsJob(a))
                   /\ Cur(a.id, g, s) => Harmless(q, w.activeGeneration)
              /\ a.kind \in Publications /\ Cur(a.id, g, s) => Offered(w, a.id, a.view)
<1> DEFINE rest == Tail(w.answers)
           x == [w EXCEPT !.answers = rest]
           a == Head(w.answers)
<1>0. w \in Workers /\ w.answers \in Seq(Answers) /\ WorkerInv(w, s)
  BY JointFacts DEF Joint
<1>1. /\ rest \in Seq(Answers) /\ a \in Answers /\ a = w.answers[1]
      /\ Len(w.answers) \in Nat /\ 1 \in 1 .. Len(w.answers)
      /\ \A k \in 1 .. Len(rest) :
           k \in Nat /\ k + 1 \in 1 .. Len(w.answers) /\ k + 1 # 1 /\ rest[k] = w.answers[k + 1]
  BY <1>0, RestOfAnswers
<1>2. a.id \in Ids /\ AnswerForm(a) /\ Named(a.id, w.activeGeneration, s)
  BY <1>1, JointFacts
<1> HIDE DEF rest, a
<1>3. /\ x \in Workers
      /\ x.activeGeneration = w.activeGeneration /\ x.session = w.session
      /\ x.stagedFlowCurrent = w.stagedFlowCurrent
      /\ x.stagedFlowEvent = w.stagedFlowEvent /\ x.stagedFlowSeek = w.stagedFlowSeek
      /\ x.seekOperation = w.seekOperation /\ x.navigation = w.navigation
      /\ x.deferred = w.deferred /\ x.encodings = w.encodings /\ x.answers = rest
  BY <1>0, <1>1 DEF Workers
<1> HIDE DEF x
<1>4. \A i, v : Offered(x, i, v) <=> Offered(w, i, v)
  BY <1>3 DEF Offered
<1>5. Standing(x) = Standing(w) /\ (Blocked(x) <=> Blocked(w))
  BY <1>3 DEF Standing, Blocked, Pending
<1>6. WorkerInv(x, s)
  <2>1. WorkerForm(x, s)
    <3>1. WorkerForm(w, s)
      BY <1>0 DEF WorkerInv
    <3>2. \A k \in 1 .. Len(rest) : Named(rest[k].id, w.activeGeneration, s) /\ AnswerForm(rest[k])
      BY <1>1, <3>1 DEF WorkerForm
    <3> QED
      BY <1>3, <3>1, <3>2 DEF WorkerForm
  <2>2. EncodingInv(x)
    BY <1>0, <1>3, <1>5 DEF WorkerInv, EncodingInv
  <2>3. StagedInv(x)
    BY <1>0, <1>3 DEF WorkerInv, StagedInv, Pending
  <2>4. StepInv(x)
    BY <1>0, <1>3 DEF WorkerInv, StepInv
  <2>5. SeekInv(x)
    BY <1>0, <1>3 DEF WorkerInv, SeekInv, SeeksFor
  <2> QED
    BY <1>3, <2>1, <2>2, <2>3, <2>4, <2>5 DEF WorkerInv
<1>7. \A job, i :
        /\ Parked(x, job, i) <=> Parked(w, job, i)
        /\ Encoded(x, job, i) <=> Encoded(w, job, i)
        /\ Answered(x, job, i) => Answered(w, job, i)
  BY <1>1, <1>3 DEF Parked, Encoded, Answered
<1>8. ASSUME NEW job, NEW i, OnceInWorker(w, job, i)
      PROVE  OnceInWorker(x, job, i)
  <2>1. ASSUME NEW k \in 1 .. Len(rest), NEW l \in 1 .. Len(rest),
               AnsJob(rest[k]) = job /\ rest[k].id = i, AnsJob(rest[l]) = job /\ rest[l].id = i
        PROVE  k = l
    <3>1. k + 1 \in 1 .. Len(w.answers) /\ l + 1 \in 1 .. Len(w.answers)
          /\ rest[k] = w.answers[k + 1] /\ rest[l] = w.answers[l + 1] /\ k \in Nat /\ l \in Nat
      BY <1>1
    <3>2. k + 1 = l + 1
      BY <1>8, <2>1, <3>1 DEF OnceInWorker
    <3> QED
      BY <3>1, <3>2
  <2> QED
    BY <1>3, <1>7, <1>8, <2>1 DEF OnceInWorker
<1>9. Tokens(w, x, "none", NoId)
  BY <1>7, <1>8 DEF Tokens, InWorker
<1>10. AnswersOffered(x, g, s)
  <2>1. AnswersOffered(w, g, s)
    BY DEF Joint
  <2>2. \A k \in 1 .. Len(rest) : rest[k].kind \in Publications /\ Cur(rest[k].id, g, s)
           => Offered(w, rest[k].id, rest[k].view)
    BY <1>1, <2>1 DEF AnswersOffered
  <2> QED
    BY <1>3, <1>4, <2>2 DEF AnswersOffered
<1>11. /\ Joint(q, x, dec, g, s)
       /\ \A job \in Jobs, i \in Ids : UnderWay(q, x, dec, job, i) => UnderWay(q, w, dec, job, i)
  BY <1>3, <1>4, <1>5, <1>6, <1>9, <1>10, WorkerMoves DEF Keeps
<1>12. ASSUME AnsJob(a) \in Jobs
       PROVE  /\ UnderWay(q, w, dec, AnsJob(a), a.id) /\ ~UnderWay(q, x, dec, AnsJob(a), a.id)
              /\ ~(Acked(q, a.id) /\ AckJob(a.id) = AnsJob(a))
              /\ Cur(a.id, g, s) => Harmless(q, w.activeGeneration)
  <2> DEFINE job == AnsJob(a)
             i == a.id
  <2>1. Answered(w, job, i)
    BY <1>1 DEF Answered
  <2>2. Once(q, w, dec, job, i)
    BY <1>2, <1>12 DEF Joint, OnceInv
  <2>3. ASSUME NEW k \in 1 .. Len(rest), AnsJob(rest[k]) = job, rest[k].id = i
        PROVE  FALSE
    <3>1. k + 1 \in 1 .. Len(w.answers) /\ k + 1 # 1 /\ rest[k] = w.answers[k + 1]
      BY <1>1
    <3>2. k + 1 = 1
      BY <1>1, <2>2, <2>3, <3>1 DEF Once, OnceInWorker
    <3> QED
      BY <3>1, <3>2
  <2>4. ~Answered(x, job, i)
    BY <1>3, <2>3 DEF Answered
  <2>5. ~InWorker(x, job, i)
    BY <1>7, <2>1, <2>2, <2>4 DEF InWorker, Once, OnceInWorker
  <2>6. InWorker(w, job, i)
    BY <2>1 DEF InWorker
  <2>7. Cur(i, g, s) => Harmless(q, w.activeGeneration)
    BY <1>2, <1>12, <2>6 DEF Joint, ClearInv
  <2> QED
    BY <2>2, <2>5, <2>6, <2>7 DEF UnderWay, Once
<1>13. a.kind \in Publications /\ Cur(a.id, g, s) => Offered(w, a.id, a.view)
  BY <1>1 DEF Joint, AnswersOffered
<1> QED
  BY <1>1, <1>2, <1>3, <1>4, <1>5, <1>11, <1>12, <1>13 DEF x, a, rest

(***************************************************************************)
(* The Worker takes a request                                               *)
(***************************************************************************)

\* What serving r leaves of what awaits its verdict, and of what is parked.
Spares(w, x, r) ==
    /\ Keeps(w, x) \/ Dangerous(w.activeGeneration, r) \/ (IsAck(r) /\ Judges(w, r))
    /\ Awake(x) \/ x = w \/ (Dangerous(w.activeGeneration, r) /\ ReqJob(r) # "solving")

\* A request that is served is in one place at most, as it was before.
LEMMA ServedOnce ==
    ASSUME NEW q, NEW w, NEW dec, NEW g, NEW s, Joint(q, w, dec, g, s), q # <<>>,
           NEW x, Serves(w, x, Head(q), s)
    PROVE  /\ OnceInv(Tail(q), x, dec)
           /\ \A job \in Jobs, i \in Ids :
                /\ UnderWay(Tail(q), x, dec, job, i) => UnderWay(q, w, dec, job, i)
                /\ InWorker(x, job, i) =>
                     InWorker(w, job, i) \/ (ReqJob(Head(q)) = job /\ Head(q).id = i)
<1> DEFINE p == Tail(q)
           r == Head(q)
<1>0. q \in Seq(Requests)
  BY JointFacts
<1>1. \A job, i :
        /\ Queued(p, job, i) => Queued(q, job, i)
        /\ Acked(p, i) => Acked(q, i)
        /\ OnceQueued(q, job, i) => OnceQueued(p, job, i)
        /\ ReqJob(r) = job /\ r.id = i =>
             /\ Queued(q, job, i)
             /\ OnceQueued(q, job, i) => ~Queued(p, job, i)
  BY <1>0, TakenJobs
<1>2. Tokens(w, x, ReqJob(r), r.id)
  BY DEF Serves
<1> HIDE DEF p, r
<1>3. ASSUME NEW job \in Jobs, NEW i \in Ids
      PROVE  /\ Once(p, x, dec, job, i)
             /\ UnderWay(p, x, dec, job, i) => UnderWay(q, w, dec, job, i)
             /\ InWorker(x, job, i) => InWorker(w, job, i) \/ (ReqJob(r) = job /\ r.id = i)
  <2>1. Once(q, w, dec, job, i)
    BY DEF Joint, OnceInv
  <2>2. /\ InWorker(x, job, i) => InWorker(w, job, i) \/ (ReqJob(r) = job /\ r.id = i)
        /\ OnceInWorker(w, job, i) /\ ~(ReqJob(r) = job /\ r.id = i /\ InWorker(w, job, i))
             => OnceInWorker(x, job, i)
    BY <1>2 DEF Tokens
  <2>3. CASE ReqJob(r) = job /\ r.id = i
    <3>1. Queued(q, job, i) /\ ~Queued(p, job, i) /\ ~InWorker(w, job, i) /\ ~Decoding(dec, job, i)
          /\ ~(Acked(p, i) /\ AckJob(i) = job)
      BY <1>1, <2>1, <2>3 DEF Once, UnderWay
    <3> QED
      BY <1>1, <2>1, <2>2, <3>1 DEF Once, UnderWay
  <2>4. CASE ~(ReqJob(r) = job /\ r.id = i)
    <3>1. InWorker(x, job, i) => InWorker(w, job, i)
      BY <2>2, <2>4
    <3>2. UnderWay(p, x, dec, job, i) => UnderWay(q, w, dec, job, i)
      BY <1>1, <3>1 DEF UnderWay
    <3> QED
      BY <1>1, <2>1, <2>2, <2>4, <3>1, <3>2 DEF Once
  <2> QED
    BY <2>3, <2>4
<1> QED
  BY <1>3 DEF OnceInv, p, r

\* The head of the port is served.
LEMMA Served ==
    ASSUME NEW q, NEW w, NEW dec, NEW g, NEW s, Joint(q, w, dec, g, s), q # <<>>,
           NEW x, Serves(w, x, Head(q), s), Spares(w, x, Head(q))
    PROVE  /\ Joint(Tail(q), x, dec, g, s)
           /\ \A job \in Jobs, i \in Ids :
                UnderWay(Tail(q), x, dec, job, i) => UnderWay(q, w, dec, job, i)
<1> DEFINE p == Tail(q)
           r == Head(q)
           a == w.activeGeneration
           b == x.activeGeneration
<1>0. /\ q \in Seq(Requests) /\ g \in Nat /\ s \in Nat /\ a \in Nat /\ a <= g
      /\ w.answers \in Seq(Answers)
  BY JointFacts
<1>1. /\ p \in Seq(Requests) /\ r \in Requests /\ r = q[1]
      /\ Len(q) \in Nat /\ 1 \in 1 .. Len(q)
      /\ \A k \in 1 .. Len(p) : k + 1 \in 1 .. Len(q) /\ p[k] = q[k + 1]
  BY <1>0, Taken
<1>2. /\ OnceInv(p, x, dec)
      /\ \A job \in Jobs, i \in Ids :
           /\ UnderWay(p, x, dec, job, i) => UnderWay(q, w, dec, job, i)
           /\ InWorker(x, job, i) => InWorker(w, job, i) \/ (ReqJob(r) = job /\ r.id = i)
  BY ServedOnce
<1>3. r.id \in Ids /\ r.id.gen \in Nat /\ Named(r.id, g, s) /\ r.id.gen <= g
  BY <1>1, JointFacts DEF Named, Ids, Generations
<1>4. /\ WorkerInv(x, s) /\ b \in {a, r.id.gen} /\ a <= b /\ b \in Nat /\ b <= g
      /\ x.answers \in Seq(Answers)
  BY <1>0, <1>3 DEF Serves, WorkerInv, Workers
<1>5. /\ Len(w.answers) <= Len(x.answers)
      /\ \A k \in 1 .. Len(w.answers) : x.answers[k] = w.answers[k]
      /\ \A k \in 1 .. Len(x.answers) : k > Len(w.answers) /\ x.answers[k].kind \in Publications
           => Offered(x, x.answers[k].id, x.answers[k].view)
      /\ \A e \in x.encodings :
           e.kind = "create" => e \in w.encodings \/ (r.kind = "create" /\ e.id = r.id)
  BY DEF Serves
<1>6. /\ Keeps(w, x) \/ Dangerous(a, r) \/ (IsAck(r) /\ Judges(w, r))
      /\ Awake(x) \/ x = w \/ (Dangerous(a, r) /\ ReqJob(r) # "solving")
  BY DEF Spares
<1> HIDE DEF p, r, a, b
<1>7. \A k \in 1 .. Len(p) : /\ k \in Nat /\ k + 1 \in 1 .. Len(q) /\ p[k] = q[k + 1] /\ 1 < k + 1
                             /\ q[k + 1] \in Requests /\ q[k + 1].id.gen \in Nat
  BY <1>1, JointFacts DEF Ids, Generations
<1>8. \A k \in 1 .. Len(p) : Dangerous(b, p[k]) => Dangerous(a, p[k])
  BY <1>0, <1>4, <1>7, SMTT(30) DEF Dangerous
<1>9. QueueForm(p, b, g, s)
  <2>1. QueueForm(q, a, g, s)
    BY DEF Joint, a
  <2> QED
    BY <1>0, <1>4, <1>7, <2>1, SMTT(30) DEF QueueForm
<1>10. DecodingForm(dec, b, s)
  <2>1. DecodingForm(dec, a, s) /\ dec \in SUBSET Answers
    BY DEF Joint, a
  <2>2. \A i \in Ids : Named(i, a, s) => Named(i, b, s)
    BY <1>0, <1>4 DEF Named, Ids, Generations
  <2> QED
    BY <2>1, <2>2 DEF DecodingForm, Answers
<1>11. CreatesInv(p, x)
  <2>0. CreatesInv(q, w)
    BY DEF Joint
  <2>1. ASSUME NEW k \in 1 .. Len(p), p[k].kind = "create"
        PROVE  /\ p[k].id.gen > x.activeGeneration
               /\ \A l \in 1 .. Len(p) : l < k => p[l].id.gen < p[k].id.gen
               /\ \A l \in 1 .. Len(p) : IsNav(p[l]) => p[l].id.gen # p[k].id.gen
    <3>1. k + 1 \in 1 .. Len(q) /\ q[k + 1].kind = "create" /\ p[k] = q[k + 1] /\ 1 < k + 1 /\ k \in Nat
      BY <1>7, <2>1
    <3>2. q[k + 1].id.gen > a /\ r.id.gen < q[k + 1].id.gen
      BY <1>1, <2>0, <3>1 DEF CreatesInv, a
    <3>3. p[k].id.gen > x.activeGeneration
      BY <1>4, <3>1, <3>2 DEF b
    <3>4. \A l \in 1 .. Len(p) : l < k => l + 1 < k + 1 /\ l + 1 \in 1 .. Len(q) /\ p[l] = q[l + 1]
      BY <1>7, <3>1
    <3>5. \A l \in 1 .. Len(p) : l < k => p[l].id.gen < p[k].id.gen
      BY <2>0, <3>1, <3>4 DEF CreatesInv
    <3>6. \A l \in 1 .. Len(p) : IsNav(p[l]) => p[l].id.gen # p[k].id.gen
      BY <1>7, <2>0, <3>1 DEF CreatesInv
    <3> QED
      BY <3>3, <3>5, <3>6
  <2>2. ASSUME NEW e \in x.encodings, e.kind = "create", NEW l \in 1 .. Len(p), IsNav(p[l])
        PROVE  p[l].id.gen # e.id.gen
    <3>1. CASE e \in w.encodings
      BY <1>7, <2>0, <2>2, <3>1 DEF CreatesInv
    <3>2. CASE r.kind = "create" /\ e.id = r.id
      BY <1>1, <1>7, <2>0, <2>2, <3>2 DEF CreatesInv
    <3> QED
      BY <1>5, <2>2, <3>1, <3>2
  <2> QED
    BY <2>1, <2>2 DEF CreatesInv
<1>12. StagedInv(w)
  BY DEF Joint, WorkerInv
<1>13. AcceptsInv(p, x)
  <2>0. AcceptsInv(q, w)
    BY DEF Joint
  <2> SUFFICES ASSUME NEW k \in 1 .. Len(p), Accepts(p[k])
               PROVE  /\ Judges(x, p[k])
                      /\ \A l \in 1 .. Len(p) : l < k =>
                            ~Dangerous(x.activeGeneration, p[l]) /\ (IsAck(p[l]) => p[l].id # p[k].id)
    BY DEF AcceptsInv
  <2>1. k + 1 \in 1 .. Len(q) /\ Accepts(q[k + 1]) /\ p[k] = q[k + 1] /\ 1 < k + 1 /\ k \in Nat
    BY <1>7
  <2>2. /\ Judges(w, q[k + 1])
        /\ \A l \in 1 .. Len(q) : l < k + 1 =>
             ~Dangerous(a, q[l]) /\ (IsAck(q[l]) => q[l].id # q[k + 1].id)
    BY <2>0, <2>1 DEF AcceptsInv, a
  <2>3. ~Dangerous(a, r) /\ (IsAck(r) => r.id # q[k + 1].id)
    BY <1>1, <2>1, <2>2
  <2>4. ~(IsAck(r) /\ Judges(w, r))
    <3>1. SUFFICES ASSUME Judges(w, r) PROVE r.id = q[k + 1].id
      BY <2>3
    <3>2. PICK v : Offered(w, r.id, v)
      BY <3>1 DEF Judges
    <3>3. PICK u : Offered(w, q[k + 1].id, u)
      BY <2>2 DEF Judges
    <3> QED
      BY <1>12, <3>2, <3>3, OfferedOnce
  <2>5. Judges(x, p[k])
    BY <1>6, <2>1, <2>2, <2>3, <2>4 DEF Keeps, Judges
  <2>6. \A l \in 1 .. Len(p) : l < k => l + 1 < k + 1 /\ l + 1 \in 1 .. Len(q) /\ p[l] = q[l + 1]
    BY <1>7, <2>1
  <2>7. \A l \in 1 .. Len(p) : l < k =>
           ~Dangerous(a, p[l]) /\ (IsAck(p[l]) => p[l].id # p[k].id)
    BY <2>1, <2>2, <2>6
  <2> QED
    BY <1>8, <2>5, <2>7 DEF b
<1>14. ClearInv(q, w, dec, g, s)
  BY DEF Joint
<1>15. Harmless(q, a) => Harmless(p, b)
  BY <1>7, <1>8 DEF Harmless
<1>16. ClearInv(p, x, dec, g, s)
  <2>1. ASSUME NEW job \in Jobs, NEW i \in Ids, Cur(i, g, s),
               InWorker(x, job, i) \/ Decoding(dec, job, i)
        PROVE  Harmless(p, b)
    <3>1. CASE InWorker(w, job, i) \/ Decoding(dec, job, i)
      BY <1>14, <1>15, <2>1, <3>1 DEF ClearInv, a
    <3>2. CASE ReqJob(r) = job /\ r.id = i
      <4>1. \A l \in 1 .. Len(q) : 1 < l => ~Dangerous(a, q[l])
        BY <1>1, <1>14, <2>1, <3>2 DEF ClearInv, a
      <4>2. \A l \in 1 .. Len(p) : ~Dangerous(a, p[l])
        BY <1>7, <4>1
      <4> QED
        BY <1>8, <4>2 DEF Harmless
    <3> QED
      BY <1>2, <2>1, <3>1, <3>2
  <2>2. ASSUME NEW k \in 1 .. Len(p), NEW l \in 1 .. Len(p), k < l, Cur(p[k].id, g, s),
               ReqJob(p[k]) \in Jobs
        PROVE  ~Dangerous(b, p[l])
    <3>1. k + 1 < l + 1 /\ k + 1 \in 1 .. Len(q) /\ l + 1 \in 1 .. Len(q)
          /\ p[k] = q[k + 1] /\ p[l] = q[l + 1]
      BY <1>7, <2>2
    <3>2. ~Dangerous(a, p[l])
      BY <1>14, <2>2, <3>1 DEF ClearInv, a
    <3> QED
      BY <1>8, <3>2
  <2> QED
    BY <2>1, <2>2 DEF ClearInv, b
<1>17. ASSUME NEW i \in Ids, NEW v, Cur(i, g, s), Offered(w, i, v),
              InWorker(w, AckJob(i), i) \/ Decoding(dec, AckJob(i), i)
       PROVE  Offered(x, i, v)
  <2>0. AckJob(i) \in Jobs
    BY DEF AckJob, Jobs
  <2>1. Harmless(q, a)
    BY <1>14, <1>17, <2>0 DEF ClearInv, a
  <2>2. ~Dangerous(a, r)
    BY <1>1, <2>1 DEF Harmless
  <2>3. ~Acked(q, i)
    <3>1. Once(q, w, dec, AckJob(i), i)
      BY <2>0 DEF Joint, OnceInv
    <3> QED
      BY <1>17, <3>1 DEF Once, UnderWay
  <2>4. ~(IsAck(r) /\ Judges(w, r))
    <3>1. SUFFICES ASSUME IsAck(r), Judges(w, r) PROVE FALSE
      OBVIOUS
    <3>2. PICK u : Offered(w, r.id, u)
      BY <3>1 DEF Judges
    <3>3. r.id = i
      BY <1>12, <1>17, <3>2, OfferedOnce
    <3> QED
      BY <1>1, <2>3, <3>1, <3>3 DEF Acked
  <2> QED
    BY <1>6, <1>17, <2>2, <2>4 DEF Keeps
<1>18. DecodingOffered(x, dec, g, s)
  <2> SUFFICES ASSUME NEW d \in dec, Cur(d.id, g, s) PROVE Offered(x, d.id, d.view)
    BY DEF DecodingOffered
  <2>1. d \in Answers /\ d.id \in Ids /\ AnswerForm(d) /\ d.kind \in Publications
    BY JointFacts DEF Joint, DecodingForm
  <2>2. AnsJob(d) = AckJob(d.id)
    BY <2>1, PublicationJob
  <2>3. Offered(w, d.id, d.view)
    BY DEF Joint, DecodingOffered
  <2>4. Decoding(dec, AckJob(d.id), d.id)
    BY <2>2 DEF Decoding
  <2> QED
    BY <1>17, <2>1, <2>3, <2>4
<1>19. AnswersOffered(x, g, s)
  <2> SUFFICES ASSUME NEW k \in 1 .. Len(x.answers), x.answers[k].kind \in Publications,
                      Cur(x.answers[k].id, g, s)
               PROVE  Offered(x, x.answers[k].id, x.answers[k].view)
    BY DEF AnswersOffered
  <2>1. CASE k > Len(w.answers)
    BY <1>5, <2>1
  <2>2. CASE ~(k > Len(w.answers))
    <3>1. k \in 1 .. Len(w.answers)
      BY <1>0, <1>4, <2>2
    <3>2. x.answers[k] = w.answers[k]
      BY <1>5, <3>1
    <3>3. Offered(w, w.answers[k].id, w.answers[k].view)
      BY <3>1, <3>2 DEF Joint, AnswersOffered
    <3>4. w.answers[k] \in Answers /\ w.answers[k].id \in Ids /\ AnswerForm(w.answers[k])
      BY <3>1, JointFacts
    <3>5. AnsJob(w.answers[k]) = AckJob(w.answers[k].id)
      BY <3>2, <3>4, PublicationJob
    <3>6. InWorker(w, AckJob(w.answers[k].id), w.answers[k].id)
      BY <3>1, <3>5 DEF InWorker, Answered
    <3> QED
      BY <1>17, <3>2, <3>3, <3>4, <3>6
  <2> QED
    BY <2>1, <2>2
<1>20. ParkInv(x, g, s)
  <2> SUFFICES ASSUME x.deferred # NoRequest, Cur(x.deferred.id, g, s) PROVE Blocked(x)
    BY DEF ParkInv
  <2>1. CASE Awake(x)
    BY <2>1 DEF Awake
  <2>2. CASE x = w
    BY <2>2 DEF Joint, ParkInv
  <2>3. CASE Dangerous(a, r) /\ ReqJob(r) # "solving"
    <3>1. IsNav(x.deferred) /\ x.deferred.id \in Ids
      BY <1>4 DEF WorkerInv, WorkerForm, Workers, Requests
    <3>2. InWorker(x, "solving", x.deferred.id)
      BY <3>1 DEF InWorker, Parked, ReqJob, IsNav, Navigation
    <3>3. InWorker(w, "solving", x.deferred.id)
      BY <1>2, <2>3, <3>1, <3>2 DEF Jobs
    <3>4. Harmless(q, a)
      BY <1>14, <3>1, <3>3 DEF ClearInv, a, Jobs
    <3> QED
      BY <1>1, <2>3, <3>4 DEF Harmless
  <2> QED
    BY <1>6, <2>1, <2>2, <2>3
<1>21. Joint(p, x, dec, g, s)
  <2>1. /\ dec \in SUBSET Answers /\ g \in Generations /\ s \in Nat /\ 1 <= g
    BY DEF Joint
  <2> QED
    BY <1>1, <1>2, <1>4, <1>9, <1>10, <1>11, <1>13, <1>16, <1>18, <1>19, <1>20, <2>1 DEF Joint, b
<1> QED
  BY <1>2, <1>21 DEF p

(***************************************************************************)
(* What the Worker settles on                                               *)
(***************************************************************************)
Quiet(q) == \A k \in 1 .. Len(q) : ~Accepts(q[k])
Settles(q, w, v) ==
    \/ \E k \in 1 .. Len(q) : Accepts(q[k]) /\ Offered(w, q[k].id, v)
    \/ Quiet(q) /\ v = Standing(w)

\* A request that accepts nothing changes nothing of what is settled on.
LEMMA SettlesPosted ==
    ASSUME NEW q \in Seq(Requests), NEW r \in Requests, ~Accepts(r), NEW w, NEW v
    PROVE  Settles(Append(q, r), w, v) <=> Settles(q, w, v)
<1> DEFINE p == Append(q, r)
<1>1. /\ Len(q) \in Nat
      /\ p[Len(q) + 1] = r
      /\ \A k \in 1 .. Len(q) : k \in 1 .. Len(p) /\ p[k] = q[k]
      /\ \A k \in 1 .. Len(p) : k \in 1 .. Len(q) \/ k = Len(q) + 1
  BY Appended
<1> HIDE DEF p
<1>2. Quiet(p) <=> Quiet(q)
  BY <1>1 DEF Quiet
<1>3. Settles(p, w, v) <=> Settles(q, w, v)
  BY <1>1, <1>2 DEF Settles
<1> QED
  BY <1>3 DEF p

\* An acceptance settles on what it accepts.
LEMMA SettlesAccepted ==
    ASSUME NEW q \in Seq(Requests), NEW r \in Requests, Accepts(r), NEW w, NEW v, Offered(w, r.id, v)
    PROVE  Settles(Append(q, r), w, v)
<1> DEFINE p == Append(q, r)
<1>1. Len(q) + 1 \in 1 .. Len(p) /\ p[Len(q) + 1] = r
  BY Appended
<1> HIDE DEF p
<1>2. Settles(p, w, v)
  BY <1>1 DEF Settles
<1> QED
  BY <1>2 DEF p

\* The Worker keeps what is offered and stands where it stood.
LEMMA SettlesMoved ==
    ASSUME NEW q, NEW w, NEW x, Keeps(w, x), Standing(x) = Standing(w), NEW v, Settles(q, w, v)
    PROVE  Settles(q, x, v)
BY DEF Settles, Keeps

\* The head of the port is served, and what was settled on is what is settled on.
LEMMA SettlesServed ==
    ASSUME NEW q, NEW w, NEW dec, NEW g, NEW s, Joint(q, w, dec, g, s), q # <<>>,
           NEW x, Spares(w, x, Head(q)),
           ~Accepts(Head(q)) => Standing(x) = Standing(w),
           Accepts(Head(q)) /\ Judges(w, Head(q)) => Offered(w, Head(q).id, Standing(x)),
           NEW v, Settles(q, w, v)
    PROVE  Settles(Tail(q), x, v)
<1> DEFINE p == Tail(q)
           r == Head(q)
<1>0. q \in Seq(Requests) /\ StagedInv(w) /\ AcceptsInv(q, w)
  BY JointFacts DEF Joint, WorkerInv
<1>1. /\ r = q[1] /\ 1 \in 1 .. Len(q) /\ Len(q) \in Nat
      /\ \A k \in 1 .. Len(p) : k + 1 \in 1 .. Len(q) /\ p[k] = q[k + 1] /\ 1 < k + 1
      /\ \A k \in 1 .. Len(q) : k = 1 \/ (k - 1 \in 1 .. Len(p) /\ p[k - 1] = q[k])
  BY <1>0, Taken
<1> HIDE DEF p, r
<1>2. CASE Accepts(r)
  <2>1. Judges(w, r)
    BY <1>0, <1>1, <1>2 DEF AcceptsInv
  <2>2. Offered(w, r.id, Standing(x))
    BY <1>2, <2>1 DEF r
  <2>3. Quiet(p)
    <3> SUFFICES ASSUME NEW k \in 1 .. Len(p), Accepts(p[k]) PROVE FALSE
      BY DEF Quiet
    <3>1. k + 1 \in 1 .. Len(q) /\ Accepts(q[k + 1]) /\ 1 < k + 1
      BY <1>1
    <3>2. Judges(w, q[k + 1]) /\ r.id # q[k + 1].id
      BY <1>0, <1>1, <1>2, <3>1 DEF AcceptsInv, Accepts
    <3>3. PICK u : Offered(w, q[k + 1].id, u)
      BY <3>2 DEF Judges
    <3> QED
      BY <1>0, <2>2, <3>2, <3>3, OfferedOnce
  <2>4. PICK k \in 1 .. Len(q) : Accepts(q[k]) /\ Offered(w, q[k].id, v)
    BY <1>1, <1>2 DEF Settles, Quiet
  <2>5. v = Standing(x)
    BY <1>0, <2>2, <2>4, OfferedOnce
  <2> QED
    BY <2>3, <2>5 DEF Settles, p
<1>3. CASE ~Accepts(r)
  <2>1. Standing(x) = Standing(w)
    BY <1>3 DEF r
  <2>2. CASE Quiet(q) /\ v = Standing(w)
    <3>1. Quiet(p)
      BY <1>1, <2>2 DEF Quiet
    <3> QED
      BY <2>1, <2>2, <3>1 DEF Settles, p
  <2>3. ASSUME NEW k \in 1 .. Len(q), Accepts(q[k]), Offered(w, q[k].id, v)
        PROVE  Settles(p, x, v)
    <3>1. k - 1 \in 1 .. Len(p) /\ p[k - 1] = q[k] /\ 1 < k
      BY <1>1, <1>3, <2>3
    <3>2. ~Dangerous(w.activeGeneration, r) /\ (IsAck(r) => r.id # q[k].id)
      BY <1>0, <1>1, <2>3, <3>1 DEF AcceptsInv
    <3>3. ~(IsAck(r) /\ Judges(w, r))
      <4>1. SUFFICES ASSUME Judges(w, r) PROVE r.id = q[k].id
        BY <3>2
      <4>2. PICK u : Offered(w, r.id, u)
        BY <4>1 DEF Judges
      <4> QED
        BY <1>0, <2>3, <4>2, OfferedOnce
    <3>4. Offered(x, q[k].id, v)
      BY <2>3, <3>2, <3>3 DEF Spares, Keeps, r
    <3> QED
      BY <2>3, <3>1, <3>4 DEF Settles
  <2> QED
    BY <2>2, <2>3 DEF Settles, p
<1> QED
  BY <1>2, <1>3

(***************************************************************************)
(* Each request                                                             *)
(***************************************************************************)
\* While something awaits its verdict no navigation is launched.
LEMMA OfferedBlocks ==
    ASSUME NEW w, NEW i, NEW v, Offered(w, i, v)
    PROVE  Blocked(w)
BY DEF Offered, Blocked, Pending

\* A request that is dropped.
LEMMA Dropped ==
    ASSUME NEW s \in Nat, NEW w, WorkerInv(w, s), NEW r
    PROVE  Serves(w, w, r, s) /\ Spares(w, w, r)
<1>1. Tokens(w, w, "none", NoId) /\ Keeps(w, w)
  BY NothingHappens
<1>2. Tokens(w, w, ReqJob(r), r.id)
  BY <1>1 DEF Tokens, Jobs
<1>3. w.answers \in Seq(Answers) /\ w.activeGeneration \in Nat
  BY DEF WorkerInv, Workers, Generations
<1> QED
  BY <1>1, <1>2, <1>3 DEF Serves, Spares

\* A navigation that is parked.
LEMMA ParkedTokens ==
    ASSUME NEW w, NEW r, NEW x, x.encodings = w.encodings, x.answers = w.answers, x.deferred = r
    PROVE  Tokens(w, x, ReqJob(r), r.id)
<1>1. \A job, i :
        /\ Parked(x, job, i) <=> (ReqJob(r) = job /\ r.id = i)
        /\ Encoded(x, job, i) <=> Encoded(w, job, i)
        /\ Answered(x, job, i) <=> Answered(w, job, i)
  BY DEF Parked, Encoded, Answered
<1> QED
  BY <1>1 DEF Tokens, InWorker, OnceInWorker

\* A navigation is parked behind what blocks it.
LEMMA ParkServed ==
    ASSUME NEW s \in Nat, NEW w, WorkerInv(w, s), NEW r \in Requests, Parks(w, r),
           RequestForm(r), Named(r.id, w.activeGeneration, s)
    PROVE  LET x == [w EXCEPT !.deferred = r]
           IN Serves(w, x, r, s) /\ Spares(w, x, r) /\ Standing(x) = Standing(w)
<1> DEFINE x == [w EXCEPT !.deferred = r]
<1>0. /\ w \in Workers /\ w.answers \in Seq(Answers) /\ IsNav(r)
      /\ r.id.gen = w.activeGeneration /\ Blocked(w) /\ w.activeGeneration \in Nat
  BY DEF WorkerInv, Workers, Parks, IsNav, Generations
<1>1. /\ x \in Workers
      /\ x.activeGeneration = w.activeGeneration /\ x.session = w.session
      /\ x.stagedFlowCurrent = w.stagedFlowCurrent
      /\ x.stagedFlowEvent = w.stagedFlowEvent /\ x.stagedFlowSeek = w.stagedFlowSeek
      /\ x.seekOperation = w.seekOperation /\ x.navigation = w.navigation
      /\ x.deferred = r /\ x.encodings = w.encodings /\ x.answers = w.answers
  BY <1>0 DEF Workers
<1> HIDE DEF x
<1>2. Blocked(x) /\ Standing(x) = Standing(w)
  BY <1>0, <1>1 DEF Blocked, Pending, Standing
<1>3. \A i, v : Offered(x, i, v) <=> Offered(w, i, v)
  BY <1>1 DEF Offered
<1>4. WorkerInv(x, s)
  <2>1. WorkerForm(x, s)
    BY <1>0, <1>1 DEF WorkerInv, WorkerForm
  <2>2. EncodingInv(x)
    <3>1. \A e \in w.encodings : e.kind = "create" => e.id.gen # w.activeGeneration
      BY <1>0 DEF WorkerInv, EncodingInv
    <3> QED
      BY <1>0, <1>1, <1>2, <3>1 DEF WorkerInv, EncodingInv
  <2>3. StagedInv(x)
    BY <1>1 DEF WorkerInv, StagedInv, Pending
  <2>4. StepInv(x)
    BY <1>1 DEF WorkerInv, StepInv
  <2>5. SeekInv(x)
    BY <1>1 DEF WorkerInv, SeekInv, SeeksFor
  <2> QED
    BY <1>1, <2>1, <2>2, <2>3, <2>4, <2>5 DEF WorkerInv
<1>5. Tokens(w, x, ReqJob(r), r.id)
  BY <1>1, ParkedTokens
<1>6. Serves(w, x, r, s)
  BY <1>0, <1>1, <1>4, <1>5 DEF Serves
<1>7. Spares(w, x, r)
  BY <1>2, <1>3 DEF Spares, Keeps, Awake
<1> QED
  BY <1>2, <1>6, <1>7 DEF x

\* What becomes of the Worker by the request at the head of the port.
Handles(w, r, x) ==
    \/ Stale(w, r) /\ x = w
    \/ Parks(w, r) /\ x = [w EXCEPT !.deferred = r]
    \/ /\ ~Stale(w, r) /\ ~Parks(w, r)
       /\ \/ r.kind = "create" /\ x \in Create(Admitted(w, r), r)
          \/ r.kind \in Navigation /\ x \in StartFlowNavigation(Admitted(w, r), r)
          \/ r.kind = "ack" /\ x \in Acknowledge(Admitted(w, r), r)
          \/ r.kind = "configure" /\ x \in SetAlgorithm(Admitted(w, r), r)
          \/ r.kind \in Dialogs /\ x = Respond(Admitted(w, r), Answer(r.kind, r.id))

\* A verdict on the standing publication settles what the Worker stands at.
Decides(w, r, x) ==
    /\ ~Accepts(r) => Standing(x) = Standing(w)
    /\ Accepts(r) /\ Judges(w, r) => Offered(w, r.id, Standing(x))

\* Each request: its job, what it spares and what a verdict decides.
LEMMA HandlesWell ==
    ASSUME NEW q, NEW w, NEW dec, NEW g, NEW s, Joint(q, w, dec, g, s), q # <<>>,
           NEW x, Handles(w, Head(q), x)
    PROVE  Serves(w, x, Head(q), s) /\ Spares(w, x, Head(q)) /\ Decides(w, Head(q), x)
<1> DEFINE r == Head(q)
<1>0. /\ q \in Seq(Requests) /\ w \in Workers /\ WorkerInv(w, s) /\ s \in Nat
      /\ w.activeGeneration \in Nat
      /\ CreatesInv(q, w)
  BY JointFacts DEF Joint
<1>1. r \in Requests /\ r = q[1] /\ 1 \in 1 .. Len(q)
  BY <1>0, Taken
<1>2. /\ r.id \in Ids /\ Named(r.id, g, s) /\ RequestForm(r)
      /\ (IsAck(r) => r.id.gen <= w.activeGeneration) /\ r.id.gen \in Nat /\ r.id.serial \in Nat
  BY <1>1, JointFacts DEF Ids, Generations
<1>3. Named(r.id, r.id.gen, s) /\ (IsAck(r) => Named(r.id, w.activeGeneration, s))
  BY <1>2 DEF Named
<1>a. Handles(w, r, x)
  OBVIOUS
<1> HIDE DEF r
<1>4. ASSUME Stale(w, r), x = w
      PROVE  Serves(w, x, r, s) /\ Spares(w, x, r) /\ Decides(w, r, x)
  <2>1. Serves(w, x, r, s) /\ Spares(w, x, r)
    BY <1>0, <1>4, Dropped
  <2>2. ~Judges(w, r)
    <3> SUFFICES ASSUME NEW v, Offered(w, r.id, v) PROVE FALSE
      BY DEF Judges
    <3>1. StagedInv(w)
      BY <1>0 DEF WorkerInv
    <3>2. \/ r.id = w.stagedFlowCurrent /\ w.stagedFlowCurrent # NoId
          \/ r.id = w.stagedFlowEvent.id /\ w.stagedFlowEvent # Nobody
          \/ r.id = w.stagedFlowSeek.id /\ w.stagedFlowSeek # Nobody
      BY <1>4 DEF Offered
    <3>3. Id(w.activeGeneration, 0).gen = w.activeGeneration
      BY DEF Id
    <3>4. r.id.gen = w.activeGeneration
      BY <3>1, <3>2, <3>3 DEF StagedInv
    <3> QED
      BY <1>0, <1>4, <3>4 DEF Stale
  <2> QED
    BY <1>4, <2>1, <2>2 DEF Decides
<1>5. ASSUME Parks(w, r), x = [w EXCEPT !.deferred = r]
      PROVE  Serves(w, x, r, s) /\ Spares(w, x, r) /\ Decides(w, r, x)
  <2>1. r.id.gen = w.activeGeneration /\ IsNav(r)
    BY <1>5 DEF Parks, IsNav
  <2>2. Named(r.id, w.activeGeneration, s) /\ ~Accepts(r)
    BY <1>3, <2>1 DEF Accepts, IsAck, IsNav, Navigation
  <2>3. Serves(w, x, r, s) /\ Spares(w, x, r) /\ Standing(x) = Standing(w)
    BY <1>0, <1>1, <1>2, <1>5, <2>2, ParkServed
  <2> QED
    BY <2>2, <2>3 DEF Decides
<1>6. ASSUME ~Stale(w, r), r.kind = "create", x \in Create(Admitted(w, r), r)
      PROVE  Serves(w, x, r, s) /\ Spares(w, x, r) /\ Decides(w, r, x)
  <2>1. Fresh(w, r)
    BY <1>0, <1>1, <1>6 DEF CreatesInv, Fresh
  <2>2. Serves(w, x, r, s) /\ Standing(x) = Standing(w) /\ Awake(x)
    BY <1>0, <1>1, <1>2, <1>3, <1>6, <2>1, CreateServed
  <2>3. Dangerous(w.activeGeneration, r) /\ ~Accepts(r)
    BY <1>6 DEF Dangerous, Accepts, IsAck
  <2> QED
    BY <2>2, <2>3 DEF Spares, Decides
<1>7. ASSUME ~Stale(w, r), ~Parks(w, r), r.kind \in Navigation,
             x \in StartFlowNavigation(Admitted(w, r), r)
      PROVE  Serves(w, x, r, s) /\ Spares(w, x, r) /\ Decides(w, r, x)
  <2>1. \A e \in w.encodings : e.kind = "create" => e.id.gen # r.id.gen
    BY <1>0, <1>1, <1>7 DEF CreatesInv, IsNav
  <2>2. Serves(w, x, r, s) /\ Standing(x) = Standing(w) /\ Awake(x)
    BY <1>0, <1>1, <1>2, <1>3, <1>7, <2>1, NavigationServes DEF IsNav
  <2>3. ~Accepts(r)
    BY <1>7 DEF Accepts, IsAck, Navigation
  <2>4. Keeps(w, x) \/ Dangerous(w.activeGeneration, r)
    <3>1. CASE r.id.gen = w.activeGeneration
      <4>1. ~Blocked(w)
        BY <1>7, <3>1 DEF Parks
      <4> QED
        BY <4>1, OfferedBlocks DEF Keeps
    <3>2. CASE r.id.gen # w.activeGeneration
      <4>1. r.id.gen > w.activeGeneration
        BY <1>0, <1>2, <1>7, <3>2 DEF Stale
      <4> QED
        BY <4>1 DEF Dangerous
    <3> QED
      BY <3>1, <3>2
  <2> QED
    BY <2>2, <2>3, <2>4 DEF Spares, Decides
<1>8. ASSUME ~Stale(w, r), r.kind = "ack", x \in Acknowledge(Admitted(w, r), r)
      PROVE  Serves(w, x, r, s) /\ Spares(w, x, r) /\ Decides(w, r, x)
  <2>1. IsAck(r)
    BY <1>8 DEF IsAck
  <2>2. /\ Serves(w, x, r, s)
        /\ ~Judges(w, r) => x = w
        /\ Judges(w, r) => /\ Awake(x) /\ Blocked(w)
                           /\ ~r.accepted => Standing(x) = Standing(w)
                           /\ r.accepted => Offered(w, r.id, Standing(x))
    BY <1>0, <1>1, <1>3, <1>8, <2>1, VerdictServes
  <2>3. Spares(w, x, r)
    <3>1. CASE Judges(w, r)
      BY <2>1, <2>2, <3>1 DEF Spares
    <3>2. CASE ~Judges(w, r)
      BY <2>2, <3>2 DEF Spares, Keeps
    <3> QED
      BY <3>1, <3>2
  <2> QED
    BY <2>1, <2>2, <2>3 DEF Decides, Accepts
<1>9. ASSUME ~Stale(w, r), r.kind = "configure", x \in SetAlgorithm(Admitted(w, r), r)
      PROVE  Serves(w, x, r, s) /\ Spares(w, x, r) /\ Decides(w, r, x)
  <2>1. Serves(w, x, r, s) /\ Standing(x) = Standing(w)
    BY <1>0, <1>1, <1>2, <1>3, <1>9, AlgorithmServed
  <2>2. Dangerous(w.activeGeneration, r) /\ ~Accepts(r) /\ ReqJob(r) # "solving"
    BY <1>9 DEF Dangerous, Accepts, IsAck, ReqJob, Navigation
  <2> QED
    BY <2>1, <2>2 DEF Spares, Decides
<1>10. ASSUME ~Stale(w, r), r.kind \in Dialogs, x = Respond(Admitted(w, r), Answer(r.kind, r.id))
       PROVE  Serves(w, x, r, s) /\ Spares(w, x, r) /\ Decides(w, r, x)
  <2>1. Serves(w, x, r, s) /\ Standing(x) = Standing(w)
    BY <1>0, <1>1, <1>2, <1>3, <1>10, DescriptionServed
  <2>2. Dangerous(w.activeGeneration, r) /\ ~Accepts(r) /\ ReqJob(r) # "solving"
    BY <1>10 DEF Dangerous, Accepts, IsAck, ReqJob, Navigation, Dialogs
  <2> QED
    BY <2>1, <2>2 DEF Spares, Decides
<1>11. Serves(w, x, r, s) /\ Spares(w, x, r) /\ Decides(w, r, x)
  BY <1>a, <1>4, <1>5, <1>6, <1>7, <1>8, <1>9, <1>10 DEF Handles
<1> QED
  BY <1>11 DEF r

(***************************************************************************)
(* The invariant                                                            *)
(***************************************************************************)
\* The scene on screen is what the Worker settles on.
Sees(q, w) ==
    scene # NoView => \E v : /\ Settles(q, w, v)
                             /\ scene = v \/ (scene.session = v.session /\ v.cursor \in Hidden)

FlowInv ==
    /\ ~EditsWhileBusy
    /\ Joint(requests, worker, decoding, generation, serial)
    /\ Controlled(requests, worker, decoding, generation, serial)
    /\ Sees(requests, worker)

\* A step of the Worker, which the client has no part in.
LEMMA WorkerSteps ==
    ASSUME FlowInv, UNCHANGED Client,
           Joint(requests', worker', decoding, generation, serial),
           \A job \in Jobs, i \in Ids : UnderWay(requests', worker', decoding, job, i) =>
              UnderWay(requests, worker, decoding, job, i),
           \A v : Settles(requests, worker, v) => Settles(requests', worker', v)
    PROVE  FlowInv'
<1>1. /\ generation' = generation /\ serial' = serial /\ status' = status /\ failed' = failed
      /\ autoplay' = autoplay /\ timer' = timer /\ direction' = direction /\ scene' = scene
      /\ lifecycle' = lifecycle /\ decoding' = decoding /\ generating' = generating
      /\ pendingFlowGeneration' = pendingFlowGeneration
  BY DEF Client, playback, generator, dialogs
<1>2. Joint(requests, worker, decoding, generation, serial)'
  BY <1>1
<1>3. Sees(requests, worker)'
  BY <1>1 DEF FlowInv, Sees
<1>4. Controlled(requests, worker, decoding, generation, serial)'
  BY <1>1 DEF FlowInv, Controlled
<1> QED
  BY <1>2, <1>3, <1>4 DEF FlowInv

\* The Worker serves a request.
LEMMA ServeSteps ==
    FlowInv /\ Serve => FlowInv'
<1> SUFFICES ASSUME FlowInv, Serve PROVE FlowInv'
  OBVIOUS
<1>1. /\ requests # <<>> /\ requests' = Tail(requests) /\ UNCHANGED Client
      /\ Handles(worker, Head(requests), worker')
  BY DEF Serve, DropStale, Defer, ServeCreate, ServeNavigation, ServeAck, ServeSetAlgorithm,
         ServeDescription, Arrives, Request, Ready, Handles
<1>2. Joint(requests, worker, decoding, generation, serial)
  BY DEF FlowInv
<1>3. /\ Serves(worker, worker', Head(requests), serial) /\ Spares(worker, worker', Head(requests))
      /\ Decides(worker, Head(requests), worker')
  BY <1>1, <1>2, HandlesWell
<1>4. /\ Joint(Tail(requests), worker', decoding, generation, serial)
      /\ \A job \in Jobs, i \in Ids :
           UnderWay(Tail(requests), worker', decoding, job, i) =>
           UnderWay(requests, worker, decoding, job, i)
  BY <1>1, <1>2, <1>3, Served
<1>5. \A v : Settles(requests, worker, v) => Settles(Tail(requests), worker', v)
  BY <1>1, <1>2, <1>3, SettlesServed DEF Decides
<1> QED
  BY <1>1, <1>4, <1>5, WorkerSteps

\* An encoding of the Worker resolves.
LEMMA ResolveSteps ==
    ASSUME FlowInv, NEW e, Resolve(e)
    PROVE  FlowInv'
<1>1. Joint(requests, worker, decoding, generation, serial)
  BY DEF FlowInv
<1>2. WorkerInv(worker, serial) /\ serial \in Nat
  BY <1>1 DEF Joint
<1>3. Continues(worker, worker', serial)
  BY <1>2, Resolves
<1>4. requests' = requests /\ UNCHANGED Client
  BY DEF Resolve, Client
<1>5. /\ Joint(requests, worker', decoding, generation, serial)
      /\ \A job \in Jobs, i \in Ids : UnderWay(requests, worker', decoding, job, i) =>
           UnderWay(requests, worker, decoding, job, i)
  BY <1>1, <1>3, Continued
<1>6. \A v : Settles(requests, worker, v) => Settles(requests, worker', v)
  BY <1>3, SettlesMoved DEF Continues, Grows
<1> QED
  BY <1>4, <1>5, <1>6, WorkerSteps

(***************************************************************************)
(* What the client knows                                                    *)
(***************************************************************************)
\* A publication that is being decoded is a job under way.
LEMMA DecodingUnderWay ==
    ASSUME NEW q, NEW w, NEW dec, NEW g, NEW s, Joint(q, w, dec, g, s), NEW d \in dec
    PROVE  /\ d \in Answers /\ d.id \in Ids /\ AnswerForm(d) /\ d.kind \in Publications
           /\ AnsJob(d) \in Jobs /\ AckJob(d.id) = AnsJob(d) /\ Named(d.id, w.activeGeneration, s)
           /\ UnderWay(q, w, dec, AnsJob(d), d.id)
<1>1. /\ d \in Answers /\ d.id \in Ids /\ AnswerForm(d) /\ d.kind \in Publications
      /\ Named(d.id, w.activeGeneration, s)
  BY JointFacts DEF Joint, DecodingForm
<1> QED
  BY <1>1, PublicationJob DEF UnderWay, Decoding

\* A status that is no job's: nothing the client waits for is under way.
LEMMA AtRest ==
    ASSUME FlowInv, failed = "no", status \notin Jobs \cup {"generating"}
    PROVE  /\ ~timer /\ ~autoplay /\ ~generating /\ pendingFlowGeneration = 0
           /\ \A job \in Jobs, i \in Ids :
                Cur(i, generation, serial) => ~UnderWay(requests, worker, decoding, job, i)
           /\ \A d \in decoding : ~Cur(d.id, generation, serial)
<1>1. Joint(requests, worker, decoding, generation, serial)
  BY DEF FlowInv
<1>2. /\ timer \/ autoplay => status = "solving"
      /\ generating => status = "generating"
      /\ pendingFlowGeneration # 0 => status = "loading"
      /\ \A job \in Jobs, i \in Ids :
           Cur(i, generation, serial) /\ UnderWay(requests, worker, decoding, job, i) => status = job
  BY DEF FlowInv, Controlled
<1>3. \A job \in Jobs, i \in Ids :
        Cur(i, generation, serial) => ~UnderWay(requests, worker, decoding, job, i)
  BY <1>2
<1>4. \A d \in decoding : ~Cur(d.id, generation, serial)
  BY <1>1, <1>3, DecodingUnderWay
<1> QED
  BY <1>2, <1>3, <1>4 DEF Jobs

\* Of each job the client waits for one request.
LEMMA OneCurrent ==
    ASSUME NEW q, NEW w, NEW dec, NEW g, NEW s, Joint(q, w, dec, g, s), NEW job \in Jobs,
           NEW i \in Ids, NEW j \in Ids, Cur(i, g, s), Cur(j, g, s),
           UnderWay(q, w, dec, job, i), UnderWay(q, w, dec, job, j)
    PROVE  i = j
<1>1. /\ job = "solving" <=> i.serial > 0
      /\ job = "solving" <=> j.serial > 0
      /\ job # "solving" <=> i.serial = 0
      /\ job # "solving" <=> j.serial = 0
  BY NamedJobs
<1>2. i.serial = j.serial /\ i.gen = j.gen
  BY <1>1 DEF Cur, Ids
<1> QED
  BY <1>2 DEF Ids

\* The invariant after a step that leaves the scene alone.
LEMMA Rebuilt ==
    ASSUME FlowInv, Joint(requests', worker', decoding', generation', serial'),
           scene' = scene,
           \A v : Settles(requests, worker, v) => Settles(requests', worker', v),
           failed' = "no" =>
              /\ timer' \/ autoplay' => status' = "solving"
              /\ generating' => status' = "generating"
              /\ pendingFlowGeneration' # 0 =>
                   pendingFlowGeneration' = generation' /\ status' = "loading"
              /\ \A d \in decoding' : Cur(d.id, generation', serial') => lifecycle' = d.id
              /\ \A job \in Jobs, i \in Ids :
                   Cur(i, generation', serial') /\ UnderWay(requests', worker', decoding', job, i)
                     => status' = job /\ ~timer'
    PROVE  FlowInv'
<1>1. Sees(requests, worker)'
  BY DEF FlowInv, Sees
<1>2. Controlled(requests, worker, decoding, generation, serial)'
  BY DEF Controlled
<1> QED
  BY <1>1, <1>2 DEF FlowInv

(***************************************************************************)
(* What the client posts                                                    *)
(***************************************************************************)
\* One message and none.
LEMMA Sent ==
    ASSUME NEW q \in Seq(Requests), NEW r \in Requests
    PROVE  q \o <<r>> = Append(q, r) /\ q \o <<>> = q
OBVIOUS

\* A request without a target.
LEMMA PlainForm ==
    ASSUME NEW kind, kind \in {"create", "configure"} \cup Navigation \cup Dialogs, NEW i \in Ids
    PROVE  LET r == Plain(kind, i)
           IN /\ r \in Requests /\ r.kind = kind /\ r.id = i
              /\ ~IsAck(r) /\ ~Accepts(r)
<1> DEFINE r == Plain(kind, i)
<1>1. r = [kind |-> kind, id |-> i, target |-> 0, accepted |-> FALSE]
  BY DEF Plain
<1>2. 0 \in Cursors /\ kind # "ack"
  BY FlowAssumption DEF Cursors, Navigation, Dialogs
<1> QED
  BY <1>1, <1>2 DEF Requests, IsAck, Accepts

\* A create request under a generation of its own: nothing before it is taken any more.
LEMMA CreatePosted ==
    ASSUME NEW q, NEW w, NEW dec, NEW g, NEW s, Joint(q, w, dec, g, s), g < MaxGeneration
    PROVE  LET r == Plain("create", Id(g + 1, 0))
           IN /\ g + 1 \in Generations /\ r \in Requests /\ ~Accepts(r)
              /\ Joint(Append(q, r), w, dec, g + 1, s) /\ Joint(q, w, dec, g + 1, s)
              /\ \A job \in Jobs, i \in Ids : Cur(i, g + 1, s) =>
                   /\ ~UnderWay(q, w, dec, job, i)
                   /\ UnderWay(Append(q, r), w, dec, job, i) => job = "loading"
              /\ \A d \in dec : ~Cur(d.id, g + 1, s)
<1> DEFINE i0 == Id(g + 1, 0)
           r == Plain("create", i0)
<1>0. g \in Nat /\ s \in Nat /\ 1 <= g /\ w.activeGeneration \in Nat /\ w.activeGeneration <= g
  BY JointFacts
<1>1. /\ g + 1 \in Generations /\ i0 \in Ids /\ i0.gen = g + 1 /\ i0.serial = 0
  BY <1>0, FlowAssumption DEF Generations, Ids, Id
<1> HIDE DEF i0
<1>2. /\ r \in Requests /\ r.kind = "create" /\ r.id = i0 /\ ~IsAck(r) /\ ~Accepts(r)
  BY <1>1, PlainForm
<1> HIDE DEF r
<1>3. ~IsNav(r) /\ RequestForm(r) /\ ReqJob(r) = "loading"
  BY <1>1, <1>2 DEF IsNav, Navigation, RequestForm, ReqJob
<1>4. /\ Joint(q, w, dec, g + 1, s)
      /\ \A job \in Jobs, i \in Ids : Cur(i, g + 1, s) => ~UnderWay(q, w, dec, job, i)
  <2>1. /\ Joint(q, w, dec, g + 1, s)
        /\ \A job \in Jobs, i \in Ids : Cur(i, g + 1, s) /\ UnderWay(q, w, dec, job, i) => g + 1 = g
    BY <1>0, <1>1, Bumped
  <2> QED
    BY <1>0, <2>1
<1>5. \A job \in Jobs : ~UnderWay(q, w, dec, job, i0)
  BY <1>1, <1>4 DEF Cur
<1>6. /\ ~Acked(q, i0)
      /\ \A l \in 1 .. Len(q) : q[l].id.gen < r.id.gen
  <2>1. \A l \in 1 .. Len(q) : q[l].id.gen <= g /\ q[l].id.gen \in Nat
    BY JointFacts DEF Named, Ids, Generations
  <2> QED
    BY <1>0, <1>1, <1>2, <2>1 DEF Acked
<1>7. Named(i0, g + 1, s) /\ r.id.gen > w.activeGeneration
  BY <1>0, <1>1, <1>2 DEF Named
<1>8. /\ Joint(Append(q, r), w, dec, g + 1, s)
      /\ \A job, i : UnderWay(Append(q, r), w, dec, job, i) <=>
           UnderWay(q, w, dec, job, i) \/ (ReqJob(r) = job /\ r.id = i)
  BY <1>2, <1>3, <1>4, <1>5, <1>6, <1>7, Posts
<1>9. \A d \in dec : ~Cur(d.id, g + 1, s)
  BY <1>4, DecodingUnderWay
<1> QED
  BY <1>1, <1>2, <1>3, <1>4, <1>8, <1>9 DEF r, i0

\* A navigation under a serial of its own: nothing before it is taken any more.
LEMMA NavigationPosted ==
    ASSUME NEW q, NEW w, NEW dec, NEW g, NEW s, Joint(q, w, dec, g, s),
           NEW r \in Requests, IsNav(r), r.id = Id(g, s + 1),
           \A job \in Jobs, i \in Ids : Cur(i, g, s) /\ UnderWay(q, w, dec, job, i) => job = "solving"
    PROVE  /\ s + 1 \in Nat /\ ~Accepts(r)
           /\ Joint(Append(q, r), w, dec, g, s + 1) /\ Joint(q, w, dec, g, s + 1)
           /\ \A job, i : UnderWay(Append(q, r), w, dec, job, i) <=>
                UnderWay(q, w, dec, job, i) \/ (ReqJob(r) = job /\ r.id = i)
           /\ \A job \in Jobs, i \in Ids : Cur(i, g, s + 1) =>
                /\ ~UnderWay(q, w, dec, job, i)
                /\ UnderWay(Append(q, r), w, dec, job, i) => job = "solving" /\ i = r.id
           /\ \A d \in dec : ~Cur(d.id, g, s + 1)
<1>0. /\ g \in Nat /\ g \in Generations /\ s \in Nat /\ 1 <= g /\ w.activeGeneration \in Nat
      /\ w.activeGeneration <= g /\ r.id \in Ids /\ q \in Seq(Requests)
  BY JointFacts DEF Joint, Requests
<1>1. /\ r.id.gen = g /\ r.id.serial = s + 1
  BY DEF Id
<1>2. /\ ~IsAck(r) /\ ~Accepts(r) /\ ReqJob(r) = "solving" /\ r.kind # "create"
      /\ r.kind # "none" /\ RequestForm(r)
  <2>1. r.kind \in {"next", "seek"} /\ r.kind \in Navigation
    BY DEF IsNav, Navigation
  <2>2. r.id.serial > 0
    BY <1>0, <1>1
  <2>3. ~IsAck(r) /\ r.kind # "create" /\ r.kind # "none"
    BY <2>1 DEF IsAck
  <2>4. RequestForm(r)
    BY <2>2, <2>3 DEF RequestForm
  <2> QED
    BY <2>1, <2>3, <2>4 DEF Accepts, ReqJob
<1>3. /\ Joint(q, w, dec, g, s + 1)
      /\ \A job \in Jobs, i \in Ids : Cur(i, g, s + 1) => ~UnderWay(q, w, dec, job, i)
  <2>1. /\ Joint(q, w, dec, g, s + 1)
        /\ \A job \in Jobs, i \in Ids : Cur(i, g, s + 1) /\ UnderWay(q, w, dec, job, i) =>
             Cur(i, g, s) /\ g = g /\ (s + 1 > s => job # "solving")
    BY <1>0, Bumped
  <2> QED
    BY <1>0, <2>1
<1>4. \A job \in Jobs : ~UnderWay(q, w, dec, job, r.id)
  BY <1>0, <1>1, <1>3 DEF Cur
<1>5. ~Acked(q, r.id)
  <2>1. \A l \in 1 .. Len(q) : q[l].id.serial <= s
    BY JointFacts DEF Named
  <2> QED
    BY <1>0, <1>1, <2>1 DEF Acked
<1>6. /\ \A k \in 1 .. Len(q) : q[k].kind = "create" => q[k].id.gen # g
      /\ \A e \in w.encodings : e.kind = "create" => e.id.gen # g
  <2>1. ASSUME NEW i \in Ids, i.gen = g, i.serial = 0, UnderWay(q, w, dec, "loading", i) PROVE FALSE
    BY <2>1 DEF Cur, Jobs
  <2>2. ASSUME NEW k \in 1 .. Len(q), q[k].kind = "create" PROVE q[k].id.gen # g
    <3>1. q[k].id \in Ids /\ q[k].id.serial = 0
      BY <2>2, JointFacts DEF RequestForm, IsNav, IsAck, Navigation
    <3>2. UnderWay(q, w, dec, "loading", q[k].id)
      BY <2>2 DEF UnderWay, Queued, ReqJob
    <3> QED
      BY <2>1, <3>1, <3>2
  <2>3. ASSUME NEW e \in w.encodings, e.kind = "create" PROVE e.id.gen # g
    <3>1. e.id \in Ids /\ e.id.serial = 0
      <4>1. WorkerForm(w, s) /\ w \in Workers
        BY DEF Joint, WorkerInv
      <4> QED
        BY <2>3, <4>1 DEF WorkerForm, EncodingForm, Workers, Encodings
    <3>2. UnderWay(q, w, dec, "loading", e.id)
      BY <2>3 DEF UnderWay, InWorker, Encoded, EncJob
    <3> QED
      BY <2>1, <3>1, <3>2
  <2> QED
    BY <2>2, <2>3
<1>7. Named(r.id, g, s + 1)
  BY <1>0, <1>1 DEF Named
<1>8. /\ Joint(Append(q, r), w, dec, g, s + 1)
      /\ \A job, i : UnderWay(Append(q, r), w, dec, job, i) <=>
           UnderWay(q, w, dec, job, i) \/ (ReqJob(r) = job /\ r.id = i)
  BY <1>1, <1>2, <1>3, <1>4, <1>5, <1>6, <1>7, Posts
<1>9. \A d \in dec : ~Cur(d.id, g, s + 1)
  BY <1>3, DecodingUnderWay
<1> QED
  BY <1>0, <1>2, <1>3, <1>8, <1>9

(***************************************************************************)
(* The controls                                                             *)
(***************************************************************************)

\* A scenario is posted under a new generation.
LEMMA CreateGoes ==
    ASSUME FlowInv, PostCreate, UNCHANGED <<serial, failed, scene, decoding, worker>>,
           failed = "no" => /\ ~timer' /\ ~autoplay' /\ ~generating'
                            /\ pendingFlowGeneration' \in {0, generation + 1}
    PROVE  FlowInv'
<1> DEFINE r == Plain("create", Id(generation + 1, 0))
<1>0. /\ generation < MaxGeneration /\ generation' = generation + 1 /\ status' = "loading"
      /\ requests' = requests \o Posted(r)
      /\ serial' = serial /\ failed' = failed /\ scene' = scene /\ decoding' = decoding
      /\ worker' = worker
  BY DEF PostCreate, Post, Send
<1>1. Joint(requests, worker, decoding, generation, serial)
  BY DEF FlowInv
<1>2. /\ r \in Requests /\ ~Accepts(r)
      /\ Joint(Append(requests, r), worker, decoding, generation + 1, serial)
      /\ Joint(requests, worker, decoding, generation + 1, serial)
      /\ \A job \in Jobs, i \in Ids :
           Cur(i, generation + 1, serial) /\ UnderWay(Append(requests, r), worker, decoding, job, i)
             => job = "loading"
      /\ \A d \in decoding : ~Cur(d.id, generation + 1, serial)
  BY <1>0, <1>1, CreatePosted
<1>3. requests \in Seq(Requests)
  BY <1>1, JointFacts
<1> HIDE DEF r
<1>4. CASE failed = "no"
  <2>1. requests' = Append(requests, r)
    BY <1>0, <1>2, <1>3, <1>4, Sent DEF Posted
  <2>2. \A v : Settles(requests, worker, v) => Settles(requests', worker', v)
    BY <1>0, <1>2, <1>3, <2>1, SettlesPosted
  <2>3. Joint(requests', worker', decoding', generation', serial')
    BY <1>0, <1>2, <2>1
  <2>4. \A job \in Jobs, i \in Ids :
          Cur(i, generation', serial') /\ UnderWay(requests', worker', decoding', job, i)
            => status' = job
    BY <1>0, <1>2, <2>1
  <2>5. \A d \in decoding' : ~Cur(d.id, generation', serial')
    BY <1>0, <1>2
  <2> QED
    BY <1>0, <1>4, <2>2, <2>3, <2>4, <2>5, Rebuilt
<1>5. CASE failed # "no"
  <2>1. requests' = requests
    BY <1>0, <1>2, <1>3, <1>5, Sent DEF Posted
  <2>2. Joint(requests', worker', decoding', generation', serial')
    BY <1>0, <1>2, <2>1
  <2> QED
    BY <1>0, <1>5, <2>1, <2>2, Rebuilt
<1> QED
  BY <1>4, <1>5

\* A navigation is posted.
LEMMA NavigationGoes ==
    ASSUME FlowInv, NEW r \in Requests, IsNav(r), r.id = Id(generation, serial + 1),
           serial' = serial + 1, Post(r),
           UNCHANGED <<generation, failed, scene, lifecycle, decoding, generator, worker>>,
           failed = "no" =>
              /\ \A job \in Jobs, i \in Ids :
                   Cur(i, generation, serial) /\ UnderWay(requests, worker, decoding, job, i)
                     => job = "solving"
              /\ status' = "solving" /\ ~timer'
              /\ ~generating /\ pendingFlowGeneration = 0
    PROVE  FlowInv'
<1>0. /\ requests' = requests \o Posted(r)
      /\ generation' = generation /\ failed' = failed /\ scene' = scene /\ lifecycle' = lifecycle
      /\ decoding' = decoding /\ worker' = worker /\ generating' = generating
      /\ pendingFlowGeneration' = pendingFlowGeneration
  BY DEF Post, Send, generator
<1>1. Joint(requests, worker, decoding, generation, serial)
  BY DEF FlowInv
<1>2. requests \in Seq(Requests) /\ serial \in Nat /\ generation \in Generations
  BY <1>1, JointFacts DEF Joint
<1>3. CASE failed = "no"
  <2>1. requests' = Append(requests, r)
    BY <1>0, <1>2, <1>3, Sent DEF Posted
  <2>a. \A job \in Jobs, i \in Ids :
          Cur(i, generation, serial) /\ UnderWay(requests, worker, decoding, job, i) => job = "solving"
    BY <1>3
  <2>2. /\ ~Accepts(r)
        /\ Joint(Append(requests, r), worker, decoding, generation, serial + 1)
        /\ \A job \in Jobs, i \in Ids : Cur(i, generation, serial + 1) =>
             /\ ~UnderWay(requests, worker, decoding, job, i)
             /\ UnderWay(Append(requests, r), worker, decoding, job, i) => job = "solving" /\ i = r.id
        /\ \A d \in decoding : ~Cur(d.id, generation, serial + 1)
    BY <1>1, <2>a, NavigationPosted
  <2>3. \A v : Settles(requests, worker, v) => Settles(requests', worker', v)
    BY <1>0, <1>2, <2>1, <2>2, SettlesPosted
  <2>4. Joint(requests', worker', decoding', generation', serial')
    BY <1>0, <2>1, <2>2
  <2>5. \A job \in Jobs, i \in Ids :
          Cur(i, generation', serial') /\ UnderWay(requests', worker', decoding', job, i)
            => status' = job
    BY <1>0, <1>3, <2>1, <2>2
  <2>6. \A d \in decoding' : ~Cur(d.id, generation', serial')
    BY <1>0, <2>2
  <2> QED
    BY <1>0, <1>3, <2>3, <2>4, <2>5, <2>6, Rebuilt
<1>4. CASE failed # "no"
  <2>1. requests' = requests
    BY <1>0, <1>2, <1>4, Sent DEF Posted
  <2>2. Joint(requests, worker, decoding, generation, serial + 1)
    BY <1>1, <1>2, Bumped
  <2>3. Joint(requests', worker', decoding', generation', serial')
    BY <1>0, <2>1, <2>2
  <2> QED
    BY <1>0, <1>4, <2>1, <2>3, Rebuilt
<1> QED
  BY <1>3, <1>4

\* The client does something that changes no message.
LEMMA NothingSent ==
    ASSUME FlowInv, UNCHANGED <<generation, serial, failed, scene, decoding, requests, worker>>,
           failed = "no" =>
              /\ timer' \/ autoplay' => status' = "solving"
              /\ generating' => status' = "generating"
              /\ pendingFlowGeneration' # 0 =>
                   pendingFlowGeneration' = generation /\ status' = "loading"
              /\ \A d \in decoding : Cur(d.id, generation, serial) => lifecycle' = d.id
              /\ \A job \in Jobs, i \in Ids :
                   Cur(i, generation, serial) /\ UnderWay(requests, worker, decoding, job, i)
                     => status' = job /\ ~timer'
    PROVE  FlowInv'
<1>0. /\ generation' = generation /\ serial' = serial /\ failed' = failed /\ scene' = scene
      /\ decoding' = decoding /\ requests' = requests /\ worker' = worker
  OBVIOUS
<1>1. Joint(requests', worker', decoding', generation', serial')
  BY <1>0 DEF FlowInv
<1> QED
  BY <1>0, <1>1, Rebuilt

\* The statuses that leave the controls enabled are no job's.
LEMMA Unbusy ==
    ASSUME ~Busy \/ CanAdvance \/ (~EditsWhileBusy /\ (~Busy \/ EditsWhileBusy))
    PROVE  status \notin Jobs \cup {"generating"} /\ (~Busy => lifecycle = NoId)
BY DEF Busy, CanAdvance, Jobs

\* Load.
LEMMA LoadSteps ==
    FlowInv /\ Load => FlowInv'
<1> SUFFICES ASSUME FlowInv, Load PROVE FlowInv'
  OBVIOUS
<1>1. /\ ~Busy
      /\ autoplay' = FALSE /\ serial' = serial /\ failed' = failed /\ timer' = timer /\ scene' = scene
      /\ lifecycle' = lifecycle /\ decoding' = decoding /\ worker' = worker
      /\ generating' = generating /\ pendingFlowGeneration' = pendingFlowGeneration
  BY DEF Load, generator
<1>2. status \notin Jobs \cup {"generating"}
  BY <1>1, Unbusy
<1>3. CASE PostCreate
  BY <1>1, <1>2, <1>3, AtRest, CreateGoes
<1>4. CASE status' = "error" /\ UNCHANGED <<generation, requests>>
  BY <1>1, <1>2, <1>4, AtRest, NothingSent
<1> QED
  BY <1>3, <1>4 DEF Load

\* A navigation of the user, while nothing is under way.
LEMMA NavigateSteps ==
    ASSUME FlowInv, status \notin Jobs \cup {"generating"}, NEW r \in Requests, IsNav(r),
           r.id = Id(generation, serial + 1), NEW d, NEW continuous, Navigate(r, d, continuous)
    PROVE  FlowInv'
<1>1. /\ serial' = serial + 1 /\ status' = "solving" /\ Post(r) /\ timer' = timer
      /\ UNCHANGED <<generation, failed, scene, lifecycle, decoding, generator, worker>>
  BY DEF Navigate
<1> QED
  BY <1>1, AtRest, NavigationGoes

\* Step forward, and run trace.
LEMMA AdvanceSteps ==
    FlowInv /\ Advance => FlowInv'
<1> SUFFICES ASSUME FlowInv, Advance PROVE FlowInv'
  OBVIOUS
<1> DEFINE r == Plain("next", Id(generation, serial + 1))
<1>1. PICK continuous \in BOOLEAN : Navigate(r, 1, continuous)
  BY DEF Advance
<1>2. status \notin Jobs \cup {"generating"}
  BY Unbusy DEF Advance
<1>3. Id(generation, serial + 1) \in Ids
  BY JointFacts DEF FlowInv, Joint, Ids, Id
<1>4. r \in Requests /\ r.kind = "next" /\ r.id = Id(generation, serial + 1)
  BY <1>3, PlainForm DEF Navigation
<1>5. IsNav(r)
  BY <1>4 DEF IsNav, Navigation
<1> HIDE DEF r
<1> QED
  BY <1>1, <1>2, <1>4, <1>5, NavigateSteps

\* A seek request.
LEMMA SeekForm ==
    ASSUME NEW i \in Ids, NEW t \in Cursors
    PROVE  LET r == SeekRequest(i, t) IN r \in Requests /\ IsNav(r) /\ r.id = i
<1> DEFINE r == SeekRequest(i, t)
           p == [kind |-> "seek", id |-> i, target |-> 0, accepted |-> FALSE]
<1>a. r = [p EXCEPT !.target = t]
  BY DEF SeekRequest, Plain
<1>1. r = [kind |-> "seek", id |-> i, target |-> t, accepted |-> FALSE]
  BY <1>a
<1> QED
  BY <1>1 DEF Requests, IsNav, Navigation

\* The sliders and the keys.
LEMMA SeekSteps ==
    FlowInv /\ Seek => FlowInv'
<1> SUFFICES ASSUME FlowInv, Seek PROVE FlowInv'
  OBVIOUS
<1>a. PICK t \in 0 .. Extent(scene) :
        \E d : Navigate(SeekRequest(Id(generation, serial + 1), t), d, FALSE)
  BY DEF Seek
<1>1. PICK d : Navigate(SeekRequest(Id(generation, serial + 1), t), d, FALSE)
  BY <1>a
<1>2. status \notin Jobs \cup {"generating"}
  BY Unbusy DEF Seek
<1>3. Id(generation, serial + 1) \in Ids /\ t \in Cursors
  BY FlowAssumption, JointFacts DEF FlowInv, Joint, Ids, Id, Extent, Cursors
<1> DEFINE r == SeekRequest(Id(generation, serial + 1), t)
<1>4. r \in Requests /\ IsNav(r) /\ r.id = Id(generation, serial + 1)
  BY <1>3, SeekForm
<1>5. Navigate(r, d, FALSE)
  BY <1>1
<1> HIDE DEF r
<1> QED
  BY <1>2, <1>4, <1>5, NavigateSteps

\* Pause: the serial moves on, and the answer under way is not taken.
LEMMA PauseSteps ==
    FlowInv /\ Pause => FlowInv'
<1> SUFFICES ASSUME FlowInv, Pause PROVE FlowInv'
  OBVIOUS
<1>1. /\ autoplay /\ serial' = serial + 1 /\ autoplay' = FALSE /\ timer' = FALSE
      /\ generation' = generation /\ failed' = failed /\ scene' = scene /\ lifecycle' = lifecycle
      /\ decoding' = decoding /\ requests' = requests /\ worker' = worker
      /\ generating' = generating /\ pendingFlowGeneration' = pendingFlowGeneration
  BY DEF Pause, generator
<1>2. /\ Joint(requests, worker, decoding, generation, serial)
      /\ generation \in Generations /\ serial \in Nat
  BY DEF FlowInv, Joint
<1>3. /\ Joint(requests, worker, decoding, generation, serial + 1)
      /\ \A job \in Jobs, i \in Ids :
           Cur(i, generation, serial + 1) /\ UnderWay(requests, worker, decoding, job, i) =>
             Cur(i, generation, serial) /\ job # "solving"
  BY <1>2, Bumped
<1>4. Joint(requests', worker', decoding', generation', serial')
  BY <1>1, <1>3
<1>5. ASSUME failed = "no"
      PROVE  /\ status = "solving" /\ ~generating /\ pendingFlowGeneration = 0
             /\ \A job \in Jobs, i \in Ids :
                  Cur(i, generation, serial) /\ UnderWay(requests, worker, decoding, job, i)
                    => job = "solving"
  BY <1>1, <1>5 DEF FlowInv, Controlled
<1>6. failed = "no" => \A job \in Jobs, i \in Ids :
        Cur(i, generation, serial + 1) => ~UnderWay(requests, worker, decoding, job, i)
  BY <1>3, <1>5
<1>7. failed = "no" => \A d \in decoding : ~Cur(d.id, generation, serial + 1)
  BY <1>2, <1>6, DecodingUnderWay
<1> QED
  BY <1>1, <1>4, <1>5, <1>6, <1>7, Rebuilt

\* The timer of the trace run fires.
LEMMA AutoplaySteps ==
    FlowInv /\ AutoplayStep => FlowInv'
<1> SUFFICES ASSUME FlowInv, AutoplayStep PROVE FlowInv'
  OBVIOUS
<1> DEFINE r == Plain("next", Id(generation, serial + 1))
<1>1. /\ timer /\ timer' = FALSE /\ serial' = serial + 1 /\ Post(r) /\ status' = status
      /\ UNCHANGED <<generation, failed, scene, lifecycle, decoding, generator, worker>>
  BY DEF AutoplayStep
<1>2. Id(generation, serial + 1) \in Ids
  BY JointFacts DEF FlowInv, Joint, Ids, Id
<1>3. r \in Requests /\ r.kind = "next" /\ r.id = Id(generation, serial + 1)
  BY <1>2, PlainForm DEF Navigation
<1>4. IsNav(r)
  BY <1>3 DEF IsNav, Navigation
<1>5. ASSUME failed = "no"
      PROVE  /\ status = "solving" /\ ~generating /\ pendingFlowGeneration = 0
             /\ \A job \in Jobs, i \in Ids :
                  ~(Cur(i, generation, serial) /\ UnderWay(requests, worker, decoding, job, i))
  BY <1>1, <1>5 DEF FlowInv, Controlled
<1> HIDE DEF r
<1> QED
  BY <1>1, <1>3, <1>4, <1>5, NavigationGoes

\* Typing in the editor.
LEMMA TypeSteps ==
    FlowInv /\ Type => FlowInv'
<1> SUFFICES ASSUME FlowInv, Type PROVE FlowInv'
  OBVIOUS
<1>1. /\ timer' = timer /\ autoplay' = autoplay
      /\ UNCHANGED <<generation, serial, failed, scene, decoding, requests, worker>>
      /\ lifecycle' = lifecycle /\ generating' = generating
      /\ pendingFlowGeneration' = pendingFlowGeneration
  BY DEF Type, playback, generator
<1>2. status \notin Jobs \cup {"generating"}
  BY Unbusy DEF Type, FlowInv
<1> QED
  BY <1>1, <1>2, AtRest, NothingSent

\* Messages move, and nothing the invariant says of the controls changes.
LEMMA ControlsStay ==
    ASSUME FlowInv, UNCHANGED <<generation, serial, status, failed, autoplay, timer, scene,
                                lifecycle, decoding, generator>>,
           Joint(requests', worker', decoding, generation, serial),
           \A job \in Jobs, i \in Ids : UnderWay(requests', worker', decoding, job, i) =>
              UnderWay(requests, worker, decoding, job, i),
           \A v : Settles(requests, worker, v) => Settles(requests', worker', v)
    PROVE  FlowInv'
<1>1. /\ generation' = generation /\ serial' = serial /\ status' = status /\ failed' = failed
      /\ autoplay' = autoplay /\ timer' = timer /\ scene' = scene
      /\ lifecycle' = lifecycle /\ decoding' = decoding /\ generating' = generating
      /\ pendingFlowGeneration' = pendingFlowGeneration
  BY DEF generator
<1>2. Joint(requests', worker', decoding', generation', serial')
  BY <1>1
<1>3. failed' = "no" =>
        /\ timer' \/ autoplay' => status' = "solving"
        /\ generating' => status' = "generating"
        /\ pendingFlowGeneration' # 0 =>
             pendingFlowGeneration' = generation' /\ status' = "loading"
        /\ \A d \in decoding' : Cur(d.id, generation', serial') => lifecycle' = d.id
        /\ \A job \in Jobs, i \in Ids :
             Cur(i, generation', serial') /\ UnderWay(requests', worker', decoding', job, i)
               => status' = job /\ ~timer'
  BY <1>1 DEF FlowInv, Controlled
<1> QED
  BY <1>1, <1>2, <1>3, Rebuilt

\* A dialog is opened.
LEMMA OpenSteps ==
    ASSUME FlowInv, NEW kind \in Dialogs, Open(kind)
    PROVE  FlowInv'
<1> DEFINE r == Plain(kind, Id(generation, 0))
<1>1. /\ UNCHANGED <<generation, serial, status, failed, autoplay, timer, scene, lifecycle,
                     decoding, generator, worker>>
      /\ ~Busy
      /\ requests' = requests \/ requests' = requests \o Posted(r)
  BY DEF Open, Post, Send, playback
<1>2. status \notin Jobs \cup {"generating"}
  BY <1>1, Unbusy
<1>3. Joint(requests, worker, decoding, generation, serial)
  BY DEF FlowInv
<1>4. /\ requests \in Seq(Requests) /\ generation \in Nat /\ generation \in Generations
      /\ 1 <= generation /\ serial \in Nat
  BY <1>3, JointFacts DEF Joint
<1>5. /\ Id(generation, 0) \in Ids /\ Named(Id(generation, 0), generation, serial)
      /\ Id(generation, 0).serial = 0
  BY <1>4 DEF Id, Ids, Named
<1>6. r \in Requests /\ r.kind = kind /\ r.id = Id(generation, 0) /\ ~IsAck(r) /\ ~Accepts(r)
  BY <1>5, PlainForm
<1> HIDE DEF r
<1>7. /\ ReqJob(r) \notin Jobs /\ ~IsNav(r) /\ r.kind # "create" /\ r.kind # "none"
  BY <1>6 DEF ReqJob, Jobs, IsNav, Navigation, Dialogs
<1>8. RequestForm(r)
  BY <1>5, <1>6, <1>7 DEF RequestForm
<1>9. CASE failed = "no" /\ requests' = requests \o Posted(r)
  <2>1. requests' = Append(requests, r)
    BY <1>4, <1>6, <1>9, Sent DEF Posted
  <2>2. \A job \in Jobs, i \in Ids :
          Cur(i, generation, serial) => ~UnderWay(requests, worker, decoding, job, i)
    BY <1>2, <1>9, AtRest
  <2>3. /\ Joint(Append(requests, r), worker, decoding, generation, serial)
        /\ \A job, i : UnderWay(Append(requests, r), worker, decoding, job, i) <=>
             UnderWay(requests, worker, decoding, job, i) \/ (ReqJob(r) = job /\ r.id = i)
    BY <1>3, <1>5, <1>6, <1>7, <1>8, <2>2, Posts
  <2>4. \A v : Settles(requests, worker, v) => Settles(requests', worker, v)
    BY <1>4, <1>6, <2>1, SettlesPosted
  <2> QED
    BY <1>1, <1>7, <2>1, <2>3, <2>4, ControlsStay
<1>10. CASE requests' = requests
  BY <1>1, <1>3, <1>10, ControlsStay
<1>11. CASE failed # "no" /\ requests' = requests \o Posted(r)
  <2>1. requests' = requests
    BY <1>4, <1>6, <1>11, Sent DEF Posted
  <2> QED
    BY <1>1, <1>3, <2>1, ControlsStay
<1> QED
  BY <1>1, <1>9, <1>10, <1>11

\* A dialog is closed.
LEMMA CloseSteps ==
    FlowInv /\ Close => FlowInv'
<1> SUFFICES ASSUME FlowInv, Close PROVE FlowInv'
  OBVIOUS
<1>1. UNCHANGED <<generation, serial, status, failed, autoplay, timer, scene, lifecycle,
                  decoding, generator>>
      /\ requests' = requests /\ worker' = worker
  BY DEF Close, playback
<1>2. Joint(requests, worker, decoding, generation, serial)
  BY DEF FlowInv
<1> QED
  BY <1>1, <1>2, ControlsStay

\* An algorithm is chosen.
LEMMA SelectSteps ==
    FlowInv /\ SelectAlgorithm => FlowInv'
<1> SUFFICES ASSUME FlowInv, SelectAlgorithm PROVE FlowInv'
  OBVIOUS
<1> DEFINE r == Plain("configure", Id(generation, 0))
<1>1. /\ generation' = generation /\ serial' = serial /\ failed' = failed /\ scene' = scene
      /\ decoding' = decoding /\ worker' = worker /\ timer' = timer /\ autoplay' = autoplay
      /\ lifecycle' = lifecycle /\ generating' = generating
      /\ pendingFlowGeneration' = pendingFlowGeneration
      /\ status' = "configuring" /\ requests' = requests \o Posted(r)
  BY DEF SelectAlgorithm, Post, Send, playback, generator
<1>2. status \notin Jobs \cup {"generating"}
  BY Unbusy DEF SelectAlgorithm, FlowInv
<1>3. Joint(requests, worker, decoding, generation, serial)
  BY DEF FlowInv
<1>4. /\ requests \in Seq(Requests) /\ generation \in Nat /\ generation \in Generations
      /\ 1 <= generation /\ serial \in Nat
  BY <1>3, JointFacts DEF Joint
<1>5. /\ Id(generation, 0) \in Ids /\ Named(Id(generation, 0), generation, serial)
      /\ Id(generation, 0).serial = 0 /\ Cur(Id(generation, 0), generation, serial)
  BY <1>4 DEF Id, Ids, Named, Cur
<1>6. r \in Requests /\ r.kind = "configure" /\ r.id = Id(generation, 0) /\ ~IsAck(r) /\ ~Accepts(r)
  BY <1>5, PlainForm
<1> HIDE DEF r
<1>7. /\ ReqJob(r) = "configuring" /\ ~IsNav(r) /\ r.kind # "create" /\ r.kind # "none"
  BY <1>6 DEF ReqJob, IsNav, Navigation
<1>8. RequestForm(r) /\ AckJob(r.id) # ReqJob(r)
  BY <1>5, <1>6, <1>7 DEF RequestForm, AckJob
<1>9. CASE failed = "no"
  <2>1. requests' = Append(requests, r)
    BY <1>1, <1>4, <1>6, <1>9, Sent DEF Posted
  <2>2. /\ ~timer /\ ~autoplay /\ ~generating /\ pendingFlowGeneration = 0
        /\ \A job \in Jobs, i \in Ids :
             Cur(i, generation, serial) => ~UnderWay(requests, worker, decoding, job, i)
        /\ \A d \in decoding : ~Cur(d.id, generation, serial)
    BY <1>2, <1>9, AtRest
  <2>3. ReqJob(r) \in Jobs => ~UnderWay(requests, worker, decoding, ReqJob(r), r.id)
    BY <1>5, <1>6, <2>2
  <2>4. /\ Joint(Append(requests, r), worker, decoding, generation, serial)
        /\ \A job, i : UnderWay(Append(requests, r), worker, decoding, job, i) <=>
             UnderWay(requests, worker, decoding, job, i) \/ (ReqJob(r) = job /\ r.id = i)
    BY <1>3, <1>5, <1>6, <1>7, <1>8, <2>2, <2>3, Posts
  <2>5. \A v : Settles(requests, worker, v) => Settles(requests', worker', v)
    BY <1>1, <1>4, <1>6, <2>1, SettlesPosted
  <2>6. Joint(requests', worker', decoding', generation', serial')
    BY <1>1, <2>1, <2>4
  <2>7. \A job \in Jobs, i \in Ids :
          Cur(i, generation', serial') /\ UnderWay(requests', worker', decoding', job, i)
            => status' = job
    BY <1>1, <1>7, <2>1, <2>2, <2>4
  <2> QED
    BY <1>1, <2>2, <2>5, <2>6, <2>7, Rebuilt
<1>10. CASE failed # "no"
  <2>1. requests' = requests
    BY <1>1, <1>4, <1>6, <1>10, Sent DEF Posted
  <2> QED
    BY <1>1, <1>3, <1>10, <2>1, Rebuilt
<1> QED
  BY <1>9, <1>10

\* A generator job is started.
LEMMA GenerateSteps ==
    FlowInv /\ Generate => FlowInv'
<1> SUFFICES ASSUME FlowInv, Generate PROVE FlowInv'
  OBVIOUS
<1>1. /\ UNCHANGED <<generation, serial, failed, scene, decoding, requests, worker>>
      /\ timer' = timer /\ autoplay' = FALSE /\ status' = "generating"
      /\ lifecycle' = lifecycle /\ pendingFlowGeneration' = pendingFlowGeneration
  BY DEF Generate
<1>2. status \notin Jobs \cup {"generating"}
  BY Unbusy DEF Generate, FlowInv
<1> QED
  BY <1>1, <1>2, AtRest, NothingSent

\* A generator job ends.
LEMMA GeneratedSteps ==
    FlowInv /\ Generated => FlowInv'
<1> SUFFICES ASSUME FlowInv, Generated PROVE FlowInv'
  OBVIOUS
<1>1. /\ generating /\ generating' = FALSE
      /\ serial' = serial /\ failed' = failed /\ scene' = scene /\ decoding' = decoding
      /\ worker' = worker /\ timer' = timer /\ autoplay' = autoplay /\ lifecycle' = lifecycle
  BY DEF Generated, playback
<1>2. Joint(requests, worker, decoding, generation, serial)
  BY DEF FlowInv
<1>3. ASSUME failed = "no"
      PROVE  /\ ~timer /\ ~autoplay /\ pendingFlowGeneration = 0
             /\ \A job \in Jobs, i \in Ids :
                  ~(Cur(i, generation, serial) /\ UnderWay(requests, worker, decoding, job, i))
  BY <1>1, <1>3 DEF FlowInv, Controlled, Jobs
<1>4. CASE PostCreate /\ pendingFlowGeneration' = generation + 1
  BY <1>1, <1>3, <1>4, CreateGoes
<1>5. CASE UNCHANGED <<generation, requests, pendingFlowGeneration>>
  <2>1. failed = "no" => \A d \in decoding : ~Cur(d.id, generation, serial)
    BY <1>2, <1>3, DecodingUnderWay
  <2> QED
    BY <1>1, <1>3, <1>5, <2>1, NothingSent
<1> QED
  BY <1>4, <1>5 DEF Generated

\* A generator job is cancelled, or the loading of its result.
LEMMA CancelSteps ==
    FlowInv /\ CancelGeneration => FlowInv'
<1> SUFFICES ASSUME FlowInv, CancelGeneration PROVE FlowInv'
  OBVIOUS
<1>1. /\ generating' = FALSE /\ pendingFlowGeneration' = 0
      /\ generating \/ pendingFlowGeneration # 0
      /\ serial' = serial /\ failed' = failed /\ scene' = scene /\ decoding' = decoding
      /\ worker' = worker /\ requests' = requests /\ timer' = timer /\ autoplay' = autoplay
      /\ lifecycle' = lifecycle
  BY DEF CancelGeneration, playback
<1>2. /\ Joint(requests, worker, decoding, generation, serial)
      /\ generation \in Generations /\ generation \in Nat /\ serial \in Nat
  BY JointFacts DEF FlowInv, Joint
<1>3. failed = "no" => ~timer /\ ~autoplay
  BY <1>1 DEF FlowInv, Controlled
<1>4. CASE pendingFlowGeneration = 0 /\ generation' = generation
  <2>1. ASSUME failed = "no"
        PROVE  \A job \in Jobs, i \in Ids :
                  ~(Cur(i, generation, serial) /\ UnderWay(requests, worker, decoding, job, i))
    BY <1>1, <1>4, <2>1 DEF FlowInv, Controlled, Jobs
  <2>2. failed = "no" => \A d \in decoding : ~Cur(d.id, generation, serial)
    BY <1>2, <2>1, DecodingUnderWay
  <2> QED
    BY <1>1, <1>3, <1>4, <2>1, <2>2, NothingSent
<1>5. CASE generation < MaxGeneration /\ generation' = generation + 1
  <2>1. generation + 1 \in Generations /\ generation + 1 > generation
    BY <1>2, <1>5, FlowAssumption DEF Generations
  <2>2. /\ Joint(requests, worker, decoding, generation + 1, serial)
        /\ \A job \in Jobs, i \in Ids :
             Cur(i, generation + 1, serial) /\ UnderWay(requests, worker, decoding, job, i) =>
               generation + 1 = generation
    BY <1>2, <2>1, Bumped
  <2>3. \A job \in Jobs, i \in Ids :
          Cur(i, generation + 1, serial) => ~UnderWay(requests, worker, decoding, job, i)
    BY <1>2, <2>2
  <2>4. \A d \in decoding : ~Cur(d.id, generation + 1, serial)
    BY <1>2, <2>3, DecodingUnderWay
  <2>5. Joint(requests', worker', decoding', generation', serial')
    BY <1>1, <1>5, <2>2
  <2> QED
    BY <1>1, <1>3, <1>5, <2>3, <2>4, <2>5, Rebuilt
<1> QED
  BY <1>4, <1>5 DEF CancelGeneration

(***************************************************************************)
(* Answers                                                                  *)
(***************************************************************************)

\* The client takes an answer it still waits for: of that job nothing is left.
LEMMA LatestTaken ==
    ASSUME FlowInv, Arrived, TakeAnswer
    PROVE  /\ Joint(requests, worker, decoding, generation, serial)
           /\ Joint(requests, worker', decoding, generation, serial)
           /\ requests \in Seq(Requests)
           /\ worker'.activeGeneration = worker.activeGeneration
           /\ \A i, v : Offered(worker', i, v) <=> Offered(worker, i, v)
           /\ \A v : Settles(requests, worker, v) => Settles(requests, worker', v)
           /\ Latest \in Answers /\ Latest.id \in Ids /\ AnswerForm(Latest)
           /\ Named(Latest.id, worker.activeGeneration, serial)
           /\ \A job \in Jobs, i \in Ids : UnderWay(requests, worker', decoding, job, i) =>
                UnderWay(requests, worker, decoding, job, i)
           /\ AnsJob(Latest) \in Jobs =>
                /\ ~UnderWay(requests, worker', decoding, AnsJob(Latest), Latest.id)
                /\ ~(Acked(requests, Latest.id) /\ AckJob(Latest.id) = AnsJob(Latest))
                /\ Cur(Latest.id, generation, serial) => Harmless(requests, worker.activeGeneration)
           /\ Latest.kind \in Publications /\ Cur(Latest.id, generation, serial) =>
                Offered(worker, Latest.id, Latest.view)
           /\ failed = "no" /\ Cur(Latest.id, generation, serial) /\ AnsJob(Latest) \in Jobs =>
                /\ status = AnsJob(Latest) /\ ~timer /\ ~generating
                /\ autoplay => status = "solving"
                /\ pendingFlowGeneration # 0 => pendingFlowGeneration = generation /\ status = "loading"
                /\ \A job \in Jobs, i \in Ids :
                     Cur(i, generation, serial) => ~UnderWay(requests, worker', decoding, job, i)
                /\ \A d \in decoding : ~Cur(d.id, generation, serial)
<1> DEFINE x == [worker EXCEPT !.answers = Tail(@)]
           a == Head(worker.answers)
<1>0. /\ Joint(requests, worker, decoding, generation, serial) /\ worker.answers # <<>>
      /\ worker' = x /\ Latest = a
  BY DEF FlowInv, Arrived, TakeAnswer, Latest
<1>1. /\ Joint(requests, x, decoding, generation, serial)
      /\ x.activeGeneration = worker.activeGeneration /\ x.encodings = worker.encodings
      /\ \A i, v : Offered(x, i, v) <=> Offered(worker, i, v)
      /\ Standing(x) = Standing(worker)
      /\ a \in Answers /\ a.id \in Ids /\ AnswerForm(a) /\ Named(a.id, worker.activeGeneration, serial)
      /\ \A job \in Jobs, i \in Ids : UnderWay(requests, x, decoding, job, i) =>
           UnderWay(requests, worker, decoding, job, i)
      /\ AnsJob(a) \in Jobs =>
           /\ UnderWay(requests, worker, decoding, AnsJob(a), a.id)
           /\ ~UnderWay(requests, x, decoding, AnsJob(a), a.id)
           /\ ~(Acked(requests, a.id) /\ AckJob(a.id) = AnsJob(a))
           /\ Cur(a.id, generation, serial) => Harmless(requests, worker.activeGeneration)
      /\ a.kind \in Publications /\ Cur(a.id, generation, serial) => Offered(worker, a.id, a.view)
  BY <1>0, AnswerTaken
<1> HIDE DEF x, a
<1>2. Keeps(worker, x)
  BY <1>1 DEF Keeps
<1>3. \A v : Settles(requests, worker, v) => Settles(requests, x, v)
  BY <1>1, <1>2, SettlesMoved
<1>4. ASSUME failed = "no", Cur(a.id, generation, serial), AnsJob(a) \in Jobs
      PROVE  /\ status = AnsJob(a) /\ ~timer /\ ~generating
             /\ autoplay => status = "solving"
             /\ pendingFlowGeneration # 0 => pendingFlowGeneration = generation /\ status = "loading"
             /\ \A job \in Jobs, i \in Ids :
                  Cur(i, generation, serial) => ~UnderWay(requests, x, decoding, job, i)
             /\ \A d \in decoding : ~Cur(d.id, generation, serial)
  <2>1. status = AnsJob(a) /\ ~timer
    BY <1>1, <1>4 DEF FlowInv, Controlled
  <2>2. /\ ~generating /\ (autoplay => status = "solving")
        /\ pendingFlowGeneration # 0 => pendingFlowGeneration = generation /\ status = "loading"
    BY <1>4, <2>1 DEF FlowInv, Controlled, Jobs
  <2>3. ASSUME NEW job \in Jobs, NEW i \in Ids, Cur(i, generation, serial),
               UnderWay(requests, x, decoding, job, i)
        PROVE  FALSE
    <3>1. UnderWay(requests, worker, decoding, job, i)
      BY <1>1, <2>3
    <3>2. status = job
      BY <1>4, <2>3, <3>1 DEF FlowInv, Controlled
    <3>3. i = a.id
      BY <1>0, <1>1, <1>4, <2>1, <2>3, <3>1, <3>2, OneCurrent
    <3> QED
      BY <1>1, <1>4, <2>1, <2>3, <3>2, <3>3
  <2>4. \A d \in decoding : ~Cur(d.id, generation, serial)
    BY <1>1, <2>3, DecodingUnderWay
  <2> QED
    BY <2>1, <2>2, <2>3, <2>4
<1>5. requests \in Seq(Requests)
  BY <1>0, JointFacts
<1> QED
  BY <1>0, <1>1, <1>3, <1>4, <1>5

\* A verdict.
LEMMA AckForm ==
    ASSUME NEW i \in Ids, NEW verdict \in BOOLEAN
    PROVE  LET r == Ack(i, verdict)
           IN r \in Requests /\ r.id = i /\ (Accepts(r) <=> verdict)
<1> DEFINE r == Ack(i, verdict)
<1>1. r = [kind |-> "ack", id |-> i, target |-> 0, accepted |-> verdict]
  BY DEF Ack, Plain
<1>2. 0 \in Cursors
  BY FlowAssumption DEF Cursors
<1> QED
  BY <1>1, <1>2 DEF Requests, Accepts, IsAck

\* An answer that is not taken, and the refusal of a publication among them.
LEMMA DropSteps ==
    FlowInv /\ DropAnswer => FlowInv'
<1> SUFFICES ASSUME FlowInv, DropAnswer PROVE FlowInv'
  OBVIOUS
<1>1. /\ UNCHANGED <<generation, serial, status, failed, autoplay, timer, scene, lifecycle,
                     decoding, generator>>
      /\ Arrived /\ TakeAnswer
      /\ requests' = requests \o
           (IF Latest.kind \in Publications THEN <<Ack(Latest.id, FALSE)>> ELSE <<>>)
  BY DEF DropAnswer, Client, playback, Send
<1>2. /\ Joint(requests, worker', decoding, generation, serial)
      /\ requests \in Seq(Requests)
      /\ worker'.activeGeneration = worker.activeGeneration
      /\ \A v : Settles(requests, worker, v) => Settles(requests, worker', v)
      /\ Latest \in Answers /\ Latest.id \in Ids /\ AnswerForm(Latest)
      /\ Named(Latest.id, worker.activeGeneration, serial)
      /\ \A job \in Jobs, i \in Ids : UnderWay(requests, worker', decoding, job, i) =>
           UnderWay(requests, worker, decoding, job, i)
      /\ AnsJob(Latest) \in Jobs =>
           ~UnderWay(requests, worker', decoding, AnsJob(Latest), Latest.id)
  BY <1>1, LatestTaken
<1>3. CASE Latest.kind \in Publications
  <2>0. PICK i \in Ids : i = Latest.id
    BY <1>2
  <2> DEFINE r == Ack(i, FALSE)
  <2>1. AnsJob(Latest) \in Jobs /\ AckJob(i) = AnsJob(Latest)
    BY <1>2, <1>3, <2>0, PublicationJob
  <2>a. Named(i, worker'.activeGeneration, serial) /\ ~UnderWay(requests, worker', decoding, AckJob(i), i)
    BY <1>2, <2>0, <2>1
  <2>2. /\ Joint(Append(requests, r), worker', decoding, generation, serial)
        /\ \A job \in Jobs : \A j : UnderWay(Append(requests, r), worker', decoding, job, j) <=>
             UnderWay(requests, worker', decoding, job, j)
    BY <1>2, <2>a, VerdictPosted
  <2>3. r \in Requests /\ ~Accepts(r)
    BY AckForm
  <2> HIDE DEF r
  <2>4. requests' = Append(requests, r)
    BY <1>1, <1>2, <1>3, <2>0, <2>3, Sent DEF r
  <2>5. \A v : Settles(requests, worker', v) => Settles(requests', worker', v)
    BY <1>2, <2>3, <2>4, SettlesPosted
  <2> QED
    BY <1>1, <1>2, <2>2, <2>4, <2>5, ControlsStay
<1>4. CASE Latest.kind \notin Publications
  <2>1. requests' = requests
    BY <1>1, <1>2, <1>4
  <2> QED
    BY <1>1, <1>2, <2>1, ControlsStay
<1> QED
  BY <1>3, <1>4

\* A publication arrives.
LEMMA PublicationSteps ==
    FlowInv /\ ReceivePublication => FlowInv'
<1> SUFFICES ASSUME FlowInv, ReceivePublication PROVE FlowInv'
  OBVIOUS
<1>1. /\ generation' = generation /\ serial' = serial /\ status' = status /\ failed' = failed
      /\ scene' = scene /\ requests' = requests /\ timer' = timer /\ autoplay' = autoplay
      /\ generating' = generating /\ pendingFlowGeneration' = pendingFlowGeneration
      /\ decoding' = decoding \cup {Latest} /\ lifecycle' = Latest.id
      /\ failed = "no" /\ Cur(Latest.id, generation, serial) /\ Latest.kind \in Publications
      /\ Arrived /\ TakeAnswer
  BY DEF ReceivePublication, Applies, Current, OfThisSerial, Cur, playback, generator
<1>2. /\ Joint(requests, worker', decoding, generation, serial)
      /\ worker'.activeGeneration = worker.activeGeneration
      /\ \A i, v : Offered(worker', i, v) <=> Offered(worker, i, v)
      /\ \A v : Settles(requests, worker, v) => Settles(requests, worker', v)
      /\ Latest \in Answers /\ Latest.id \in Ids /\ AnswerForm(Latest)
      /\ Named(Latest.id, worker.activeGeneration, serial)
      /\ AnsJob(Latest) \in Jobs =>
           /\ ~UnderWay(requests, worker', decoding, AnsJob(Latest), Latest.id)
           /\ ~(Acked(requests, Latest.id) /\ AckJob(Latest.id) = AnsJob(Latest))
           /\ Cur(Latest.id, generation, serial) => Harmless(requests, worker.activeGeneration)
      /\ Latest.kind \in Publications /\ Cur(Latest.id, generation, serial) =>
           Offered(worker, Latest.id, Latest.view)
      /\ failed = "no" /\ Cur(Latest.id, generation, serial) /\ AnsJob(Latest) \in Jobs =>
           /\ status = AnsJob(Latest) /\ ~timer /\ ~generating
           /\ autoplay => status = "solving"
           /\ pendingFlowGeneration # 0 => pendingFlowGeneration = generation /\ status = "loading"
           /\ \A job \in Jobs, i \in Ids :
                Cur(i, generation, serial) => ~UnderWay(requests, worker', decoding, job, i)
           /\ \A d \in decoding : ~Cur(d.id, generation, serial)
  BY <1>1, LatestTaken
<1>3. AnsJob(Latest) \in Jobs
  BY <1>1, <1>2, PublicationJob
<1>4. /\ Joint(requests, worker', decoding \cup {Latest}, generation, serial)
      /\ \A job, i : UnderWay(requests, worker', decoding \cup {Latest}, job, i) <=>
           UnderWay(requests, worker', decoding, job, i) \/ (AnsJob(Latest) = job /\ Latest.id = i)
  BY <1>1, <1>2, <1>3, DecodeStarts
<1>5. Joint(requests', worker', decoding', generation', serial')
  BY <1>1, <1>4
<1>6. \A v : Settles(requests, worker, v) => Settles(requests', worker', v)
  BY <1>1, <1>2
<1>7. \A job \in Jobs, i \in Ids :
        Cur(i, generation', serial') /\ UnderWay(requests', worker', decoding', job, i)
          => status' = job /\ ~timer'
  BY <1>1, <1>2, <1>3, <1>4
<1>8. \A d \in decoding' : Cur(d.id, generation', serial') => lifecycle' = d.id
  BY <1>1, <1>2, <1>3
<1> QED
  BY <1>1, <1>2, <1>3, <1>5, <1>6, <1>7, <1>8, Rebuilt

\* The chosen algorithm is prepared, and its scenario is loaded.
LEMMA PreparedSteps ==
    FlowInv /\ ReceivePrepared => FlowInv'
<1> SUFFICES ASSUME FlowInv, ReceivePrepared PROVE FlowInv'
  OBVIOUS
<1> DEFINE r == Plain("create", Id(generation + 1, 0))
<1>1. /\ generation < MaxGeneration /\ generation' = generation + 1 /\ status' = "loading"
      /\ requests' = requests \o Posted(r)
      /\ serial' = serial /\ failed' = failed
      /\ scene' = scene /\ timer' = timer /\ autoplay' = autoplay /\ decoding' = decoding
      /\ generating' = generating /\ pendingFlowGeneration' = pendingFlowGeneration
      /\ failed = "no" /\ Cur(Latest.id, generation, serial) /\ Latest.kind = "prepared"
      /\ Arrived /\ TakeAnswer
  BY DEF ReceivePrepared, Applies, Current, OfThisSerial, Cur, playback, generator, PostCreate,
         Post, Send
<1>2. /\ Joint(requests, worker', decoding, generation, serial)
      /\ requests \in Seq(Requests)
      /\ \A v : Settles(requests, worker, v) => Settles(requests, worker', v)
      /\ Latest \in Answers /\ AnswerForm(Latest)
      /\ failed = "no" /\ Cur(Latest.id, generation, serial) /\ AnsJob(Latest) \in Jobs =>
           /\ status = AnsJob(Latest) /\ ~timer /\ ~generating
           /\ autoplay => status = "solving"
           /\ pendingFlowGeneration # 0 => pendingFlowGeneration = generation /\ status = "loading"
  BY <1>1, LatestTaken
<1>3. AnsJob(Latest) = "configuring"
  BY <1>1, <1>2 DEF AnsJob, AnswerForm
<1>4. ~timer /\ ~generating /\ ~autoplay /\ pendingFlowGeneration = 0
  BY <1>1, <1>2, <1>3 DEF Jobs
<1>5. /\ r \in Requests /\ ~Accepts(r)
      /\ Joint(Append(requests, r), worker', decoding, generation + 1, serial)
      /\ \A job \in Jobs, i \in Ids : Cur(i, generation + 1, serial) /\
           UnderWay(Append(requests, r), worker', decoding, job, i) => job = "loading"
      /\ \A d \in decoding : ~Cur(d.id, generation + 1, serial)
  BY <1>1, <1>2, CreatePosted
<1> HIDE DEF r
<1>6. requests' = Append(requests, r)
  BY <1>1, <1>2, <1>5, Sent DEF Posted
<1>7. \A v : Settles(requests, worker, v) => Settles(requests', worker', v)
  BY <1>2, <1>5, <1>6, SettlesPosted
<1>8. Joint(requests', worker', decoding', generation', serial')
  BY <1>1, <1>5, <1>6
<1>9. \A job \in Jobs, i \in Ids :
        Cur(i, generation', serial') /\ UnderWay(requests', worker', decoding', job, i)
          => status' = job
  BY <1>1, <1>5, <1>6
<1>10. \A d \in decoding' : ~Cur(d.id, generation', serial')
  BY <1>1, <1>5
<1> QED
  BY <1>1, <1>4, <1>7, <1>8, <1>9, <1>10, Rebuilt

\* A description arrives.
LEMMA DescriptionSteps ==
    FlowInv /\ ReceiveDescription => FlowInv'
<1> SUFFICES ASSUME FlowInv, ReceiveDescription PROVE FlowInv'
  OBVIOUS
<1>1. /\ UNCHANGED <<generation, serial, status, failed, autoplay, timer, scene, lifecycle,
                     decoding, generator>>
      /\ requests' = requests /\ Arrived /\ TakeAnswer
  BY DEF ReceiveDescription, playback
<1>2. /\ Joint(requests, worker', decoding, generation, serial)
      /\ \A v : Settles(requests, worker, v) => Settles(requests, worker', v)
      /\ \A job \in Jobs, i \in Ids : UnderWay(requests, worker', decoding, job, i) =>
           UnderWay(requests, worker, decoding, job, i)
  BY <1>1, LatestTaken
<1> QED
  BY <1>1, <1>2, ControlsStay

\* An error arrives.
LEMMA ErrorSteps ==
    FlowInv /\ ReceiveError => FlowInv'
<1> SUFFICES ASSUME FlowInv, ReceiveError PROVE FlowInv'
  OBVIOUS
<1> DEFINE source == Latest.source
           generated == source = "create" /\ pendingFlowGeneration = Latest.id.gen
<1>1. /\ generation' = generation /\ serial' = serial /\ scene' = scene /\ decoding' = decoding
      /\ requests' = requests /\ timer' = timer /\ autoplay' = FALSE
      /\ generating' = generating /\ lifecycle' = lifecycle
      /\ failed' = (IF source \in Fatal THEN source ELSE failed)
      /\ pendingFlowGeneration' = (IF generated THEN 0 ELSE pendingFlowGeneration)
      /\ failed = "no" /\ Cur(Latest.id, generation, serial) /\ Latest.kind = "error"
      /\ Arrived /\ TakeAnswer
  BY DEF ReceiveError, Applies, Current, OfThisSerial, Cur
<1>2. /\ Joint(requests, worker', decoding, generation, serial)
      /\ \A v : Settles(requests, worker, v) => Settles(requests, worker', v)
      /\ Latest \in Answers /\ AnswerForm(Latest)
      /\ failed = "no" /\ Cur(Latest.id, generation, serial) /\ AnsJob(Latest) \in Jobs =>
           /\ status = AnsJob(Latest) /\ ~timer /\ ~generating
           /\ autoplay => status = "solving"
           /\ pendingFlowGeneration # 0 => pendingFlowGeneration = generation /\ status = "loading"
           /\ \A job \in Jobs, i \in Ids :
                Cur(i, generation, serial) => ~UnderWay(requests, worker', decoding, job, i)
           /\ \A d \in decoding : ~Cur(d.id, generation, serial)
  BY <1>1, LatestTaken
<1>3. Joint(requests', worker', decoding', generation', serial')
  BY <1>1, <1>2
<1>4. \A v : Settles(requests, worker, v) => Settles(requests', worker', v)
  BY <1>1, <1>2
<1>5. CASE source \in Fatal
  <2>1. failed' # "no"
    BY <1>1, <1>5 DEF Fatal
  <2> QED
    BY <1>1, <1>3, <1>4, <2>1, Rebuilt
<1>6. CASE source \notin Fatal
  <2>1. source \in {"create", "configure", "input"}
    BY <1>1, <1>2, <1>6 DEF AnswerForm, Answers, Fatal
  <2>2. /\ AnsJob(Latest) \in Jobs
        /\ AnsJob(Latest) = "loading" => source = "create"
    BY <1>1, <2>1 DEF AnsJob, Jobs
  <2>3. /\ status = AnsJob(Latest) /\ ~timer /\ ~generating
        /\ pendingFlowGeneration # 0 => pendingFlowGeneration = generation /\ status = "loading"
        /\ \A job \in Jobs, i \in Ids :
             Cur(i, generation, serial) => ~UnderWay(requests, worker', decoding, job, i)
        /\ \A d \in decoding : ~Cur(d.id, generation, serial)
    BY <1>1, <1>2, <2>2
  <2>4. pendingFlowGeneration' = 0
    BY <1>1, <2>2, <2>3 DEF Cur
  <2>5. \A job \in Jobs, i \in Ids :
          Cur(i, generation', serial') => ~UnderWay(requests', worker', decoding', job, i)
    BY <1>1, <2>3
  <2>6. \A d \in decoding' : ~Cur(d.id, generation', serial')
    BY <1>1, <2>3
  <2> QED
    BY <1>1, <1>3, <1>4, <2>3, <2>4, <2>5, <2>6, Rebuilt
<1> QED
  BY <1>5, <1>6

(***************************************************************************)
(* A decode ends                                                            *)
(***************************************************************************)
\* What the client knows of a publication that was decoded.
LEMMA DecodeTaken ==
    ASSUME FlowInv, NEW d \in decoding
    PROVE  LET rest == decoding \ {d}
           IN /\ Joint(requests, worker, rest, generation, serial)
              /\ requests \in Seq(Requests) /\ generation \in Nat /\ serial \in Nat
              /\ generation \in Generations
              /\ d \in Answers /\ d.id \in Ids /\ AnswerForm(d) /\ d.kind \in Publications
              /\ AckJob(d.id) = AnsJob(d)
              /\ Named(d.id, worker.activeGeneration, serial)
              /\ ~UnderWay(requests, worker, rest, AckJob(d.id), d.id) /\ ~Acked(requests, d.id)
              /\ \A job \in Jobs, i \in Ids : UnderWay(requests, worker, rest, job, i) =>
                   UnderWay(requests, worker, decoding, job, i)
              /\ Cur(d.id, generation, serial) =>
                   Harmless(requests, worker.activeGeneration) /\ Offered(worker, d.id, d.view)
              /\ failed = "no" /\ Cur(d.id, generation, serial) =>
                   /\ status = AnsJob(d) /\ ~timer /\ ~generating /\ lifecycle = d.id
                   /\ pendingFlowGeneration # 0 =>
                        pendingFlowGeneration = generation /\ status = "loading"
                   /\ \A job \in Jobs, i \in Ids :
                        Cur(i, generation, serial) => ~UnderWay(requests, worker, rest, job, i)
                   /\ \A e \in rest : ~Cur(e.id, generation, serial)
<1> DEFINE rest == decoding \ {d}
<1>0. Joint(requests, worker, decoding, generation, serial)
  BY DEF FlowInv
<1>1. /\ d \in Answers /\ d.id \in Ids /\ AnswerForm(d) /\ d.kind \in Publications
      /\ AnsJob(d) \in Jobs /\ AckJob(d.id) = AnsJob(d) /\ Named(d.id, worker.activeGeneration, serial)
      /\ UnderWay(requests, worker, decoding, AnsJob(d), d.id)
  BY <1>0, DecodingUnderWay
<1>2. /\ Joint(requests, worker, rest, generation, serial)
      /\ \A job \in Jobs, i \in Ids : UnderWay(requests, worker, rest, job, i) =>
           UnderWay(requests, worker, decoding, job, i) /\ ~(AnsJob(d) = job /\ d.id = i)
      /\ ~UnderWay(requests, worker, rest, AckJob(d.id), d.id) /\ ~Acked(requests, d.id)
  BY <1>0, DecodeEnds
<1> HIDE DEF rest
<1>3. Cur(d.id, generation, serial) =>
        Harmless(requests, worker.activeGeneration) /\ Offered(worker, d.id, d.view)
  <2>1. Decoding(decoding, AnsJob(d), d.id)
    BY DEF Decoding
  <2> QED
    BY <1>0, <1>1, <2>1 DEF Joint, ClearInv, DecodingOffered
<1>4. ASSUME failed = "no", Cur(d.id, generation, serial)
      PROVE  /\ status = AnsJob(d) /\ ~timer /\ ~generating /\ lifecycle = d.id
             /\ pendingFlowGeneration # 0 =>
                  pendingFlowGeneration = generation /\ status = "loading"
             /\ \A job \in Jobs, i \in Ids :
                  Cur(i, generation, serial) => ~UnderWay(requests, worker, rest, job, i)
             /\ \A e \in rest : ~Cur(e.id, generation, serial)
  <2>1. status = AnsJob(d) /\ ~timer /\ lifecycle = d.id
    BY <1>1, <1>4 DEF FlowInv, Controlled
  <2>2. /\ ~generating
        /\ pendingFlowGeneration # 0 => pendingFlowGeneration = generation /\ status = "loading"
    BY <1>1, <1>4, <2>1 DEF FlowInv, Controlled, Jobs
  <2>3. ASSUME NEW job \in Jobs, NEW i \in Ids, Cur(i, generation, serial),
               UnderWay(requests, worker, rest, job, i)
        PROVE  FALSE
    <3>1. UnderWay(requests, worker, decoding, job, i) /\ ~(AnsJob(d) = job /\ d.id = i)
      BY <1>2, <2>3
    <3>2. status = job
      BY <1>4, <2>3, <3>1 DEF FlowInv, Controlled
    <3>3. i = d.id
      BY <1>0, <1>1, <1>4, <2>1, <2>3, <3>1, <3>2, OneCurrent
    <3> QED
      BY <2>1, <3>1, <3>2, <3>3
  <2>4. \A e \in rest : ~Cur(e.id, generation, serial)
    BY <1>2, <2>3, DecodingUnderWay
  <2> QED
    BY <2>1, <2>2, <2>3, <2>4
<1>5. requests \in Seq(Requests) /\ generation \in Nat /\ serial \in Nat /\ generation \in Generations
  BY <1>0, JointFacts DEF Joint
<1> QED
  BY <1>1, <1>2, <1>3, <1>4, <1>5 DEF rest

\* A publication that is refused.
LEMMA RefusalPosted ==
    ASSUME FlowInv, NEW d \in decoding, Send(<<Ack(d.id, FALSE)>>)
    PROVE  /\ Joint(requests', worker, decoding \ {d}, generation, serial)
           /\ \A job \in Jobs, i \in Ids : UnderWay(requests', worker, decoding \ {d}, job, i) =>
                UnderWay(requests, worker, decoding, job, i)
           /\ \A v : Settles(requests, worker, v) => Settles(requests', worker, v)
<1> DEFINE rest == decoding \ {d}
<1>1. /\ Joint(requests, worker, rest, generation, serial)
      /\ requests \in Seq(Requests)
      /\ d.id \in Ids
      /\ Named(d.id, worker.activeGeneration, serial)
      /\ ~UnderWay(requests, worker, rest, AckJob(d.id), d.id)
      /\ \A job \in Jobs, i \in Ids : UnderWay(requests, worker, rest, job, i) =>
           UnderWay(requests, worker, decoding, job, i)
  BY DecodeTaken
<1> HIDE DEF rest
<1>2. PICK i \in Ids : i = d.id
  BY <1>1
<1> DEFINE r == Ack(i, FALSE)
<1>3. r \in Requests /\ ~Accepts(r)
  BY AckForm
<1>4. Named(i, worker.activeGeneration, serial) /\ ~UnderWay(requests, worker, rest, AckJob(i), i)
  BY <1>1, <1>2
<1>5. /\ Joint(Append(requests, r), worker, rest, generation, serial)
      /\ \A job \in Jobs : \A j : UnderWay(Append(requests, r), worker, rest, job, j) <=>
           UnderWay(requests, worker, rest, job, j)
  BY <1>1, <1>4, VerdictPosted
<1>6. requests' = Append(requests, r)
  <2>1. requests' = requests \o <<r>>
    BY <1>2 DEF Send
  <2> HIDE DEF r
  <2> QED
    BY <1>1, <1>3, <2>1, Sent
<1> HIDE DEF r
<1>7. \A v : Settles(requests, worker, v) => Settles(requests', worker, v)
  BY <1>1, <1>3, <1>6, SettlesPosted
<1> QED
  BY <1>1, <1>5, <1>6, <1>7 DEF rest

\* The publication was overtaken while it was decoded.
LEMMA OvertakenSteps ==
    ASSUME FlowInv, NEW d \in decoding, decoding' = decoding \ {d}, Concluded(d, Current(d)),
           Overtaken(d), UNCHANGED <<generation, failed, direction, described, unasked, generating, worker>>
    PROVE  FlowInv'
<1>1. /\ generation' = generation /\ serial' = serial /\ status' = status /\ failed' = failed
      /\ scene' = scene /\ worker' = worker /\ timer' = timer /\ autoplay' = autoplay
      /\ generating' = generating /\ decoding' = decoding \ {d}
      /\ lifecycle' = (IF lifecycle = d.id THEN NoId ELSE lifecycle)
      /\ pendingFlowGeneration' \in {0, pendingFlowGeneration}
      /\ ~Cur(d.id, generation, serial)
      /\ Send(<<Ack(d.id, FALSE)>>)
  BY DEF Overtaken, Concluded, Current, OfThisSerial, Cur
<1>2. /\ Joint(requests', worker, decoding \ {d}, generation, serial)
      /\ \A job \in Jobs, i \in Ids : UnderWay(requests', worker, decoding \ {d}, job, i) =>
           UnderWay(requests, worker, decoding, job, i)
      /\ \A v : Settles(requests, worker, v) => Settles(requests', worker, v)
  BY <1>1, RefusalPosted
<1>3. Joint(requests', worker', decoding', generation', serial')
  BY <1>1, <1>2
<1>4. ASSUME failed = "no"
      PROVE  /\ timer \/ autoplay => status = "solving"
             /\ generating => status = "generating"
             /\ pendingFlowGeneration # 0 => pendingFlowGeneration = generation /\ status = "loading"
             /\ \A e \in decoding : Cur(e.id, generation, serial) => lifecycle = e.id
             /\ \A job \in Jobs, i \in Ids :
                  Cur(i, generation, serial) /\ UnderWay(requests, worker, decoding, job, i)
                    => status = job /\ ~timer
  BY <1>4 DEF FlowInv, Controlled
<1>5. failed = "no" =>
        \A e \in decoding' : Cur(e.id, generation', serial') => lifecycle' = e.id
  BY <1>1, <1>4
<1>6. failed = "no" =>
        \A job \in Jobs, i \in Ids :
          Cur(i, generation', serial') /\ UnderWay(requests', worker', decoding', job, i)
            => status' = job /\ ~timer'
  BY <1>1, <1>2, <1>4
<1>7. \A v : Settles(requests, worker, v) => Settles(requests', worker', v)
  BY <1>1, <1>2
<1> QED
  BY <1>1, <1>3, <1>4, <1>5, <1>6, <1>7, Rebuilt

\* The publication fails its validation.
LEMMA InvalidSteps ==
    ASSUME FlowInv, NEW d, Invalid(d)
    PROVE  FlowInv'
<1>1. /\ generation' = generation /\ serial' = serial /\ scene' = scene /\ worker' = worker
      /\ d \in decoding /\ decoding' = decoding \ {d} /\ failed' # "no"
      /\ Send(<<Ack(d.id, FALSE)>>)
  BY DEF Invalid
<1>2. /\ Joint(requests', worker, decoding \ {d}, generation, serial)
      /\ \A v : Settles(requests, worker, v) => Settles(requests', worker, v)
  BY <1>1, RefusalPosted
<1>3. Joint(requests', worker', decoding', generation', serial')
  BY <1>1, <1>2
<1>4. \A v : Settles(requests, worker, v) => Settles(requests', worker', v)
  BY <1>1, <1>2
<1> QED
  BY <1>1, <1>3, <1>4, Rebuilt

\* A publication that is accepted.
LEMMA AcceptancePosted ==
    ASSUME NEW q, NEW dec, NEW g, NEW s, Joint(q, worker, dec, g, s),
           NEW i \in Ids, Named(i, worker.activeGeneration, s),
           ~UnderWay(q, worker, dec, AckJob(i), i), ~Acked(q, i),
           Harmless(q, worker.activeGeneration), NEW v, Offered(worker, i, v)
    PROVE  /\ Joint(Append(q, Ack(i, TRUE)), worker, dec, g, s)
           /\ \A job \in Jobs : \A j : UnderWay(Append(q, Ack(i, TRUE)), worker, dec, job, j) <=>
                UnderWay(q, worker, dec, job, j)
           /\ Settles(Append(q, Ack(i, TRUE)), worker, v)
           /\ Ack(i, TRUE) \in Requests
<1> DEFINE r == Ack(i, TRUE)
<1>1. r \in Requests /\ r.id = i /\ Accepts(r)
  BY AckForm
<1>2. Judges(worker, r)
  BY <1>1 DEF Judges
<1>3. /\ Joint(Append(q, r), worker, dec, g, s)
      /\ \A job \in Jobs : \A j : UnderWay(Append(q, r), worker, dec, job, j) <=>
           UnderWay(q, worker, dec, job, j)
  BY <1>2, VerdictPosted
<1>4. Settles(Append(q, r), worker, v)
  BY <1>1, SettlesAccepted, JointFacts
<1> QED
  BY <1>1, <1>3, <1>4

\* The publication becomes the scene.
LEMMA ShownSteps ==
    ASSUME FlowInv, NEW d \in decoding, decoding' = decoding \ {d}, Concluded(d, Current(d)),
           Shown(d), UNCHANGED <<generation, failed, direction, described, unasked, generating, worker>>
    PROVE  FlowInv'
<1> DEFINE rest == decoding \ {d}
           goesOn == autoplay /\ d.view.cursor \in 1 .. EventCount - 1
<1>1. /\ generation' = generation /\ serial' = serial /\ failed' = failed
      /\ scene' = d.view /\ worker' = worker /\ autoplay' = goesOn
      /\ timer' = (IF goesOn THEN TRUE ELSE timer)
      /\ status' = (IF goesOn THEN "solving" ELSE "ready")
      /\ generating' = generating /\ decoding' = rest
      /\ pendingFlowGeneration' =
           (IF lifecycle = d.id /\ d.kind = "ready" /\ pendingFlowGeneration = d.id.gen THEN 0
            ELSE pendingFlowGeneration)
      /\ Cur(d.id, generation, serial)
      /\ requests' = requests \o <<Ack(d.id, TRUE)>>
  BY DEF Shown, Concluded, Current, OfThisSerial, Cur, Send
<1>2. /\ Joint(requests, worker, rest, generation, serial)
      /\ requests \in Seq(Requests)
      /\ d \in Answers /\ d.id \in Ids /\ AnswerForm(d) /\ d.kind \in Publications
      /\ AckJob(d.id) = AnsJob(d)
      /\ Named(d.id, worker.activeGeneration, serial)
      /\ ~UnderWay(requests, worker, rest, AckJob(d.id), d.id) /\ ~Acked(requests, d.id)
      /\ Harmless(requests, worker.activeGeneration) /\ Offered(worker, d.id, d.view)
      /\ failed = "no" =>
           /\ status = AnsJob(d) /\ ~timer /\ ~generating /\ lifecycle = d.id
           /\ pendingFlowGeneration # 0 =>
                pendingFlowGeneration = generation /\ status = "loading"
           /\ \A job \in Jobs, i \in Ids :
                Cur(i, generation, serial) => ~UnderWay(requests, worker, rest, job, i)
           /\ \A e \in rest : ~Cur(e.id, generation, serial)
  BY <1>1, DecodeTaken
<1> HIDE DEF rest, goesOn
<1>3. PICK i \in Ids : i = d.id
  BY <1>2
<1>4. /\ Named(i, worker.activeGeneration, serial) /\ ~UnderWay(requests, worker, rest, AckJob(i), i)
      /\ ~Acked(requests, i) /\ Offered(worker, i, d.view)
  BY <1>2, <1>3
<1>5. /\ Joint(Append(requests, Ack(i, TRUE)), worker, rest, generation, serial)
      /\ \A job \in Jobs : \A j : UnderWay(Append(requests, Ack(i, TRUE)), worker, rest, job, j) <=>
           UnderWay(requests, worker, rest, job, j)
      /\ Settles(Append(requests, Ack(i, TRUE)), worker, d.view)
      /\ Ack(i, TRUE) \in Requests
  BY <1>2, <1>4, AcceptancePosted
<1>6. requests' = Append(requests, Ack(i, TRUE))
  BY <1>1, <1>2, <1>3, <1>5, Sent
<1>7. Joint(requests', worker', decoding', generation', serial')
  BY <1>1, <1>5, <1>6
<1>8. Sees(requests, worker)'
  BY <1>1, <1>5, <1>6 DEF Sees
<1>9. ASSUME failed = "no"
      PROVE  /\ timer' \/ autoplay' => status' = "solving"
             /\ ~generating' /\ pendingFlowGeneration' = 0
             /\ \A e \in decoding' : ~Cur(e.id, generation', serial')
             /\ \A job \in Jobs, j \in Ids :
                  ~(Cur(j, generation', serial') /\ UnderWay(requests', worker', decoding', job, j))
  <2>1. /\ status = AnsJob(d) /\ ~timer /\ ~generating /\ lifecycle = d.id
        /\ pendingFlowGeneration # 0 => pendingFlowGeneration = generation /\ status = "loading"
        /\ \A job \in Jobs, j \in Ids :
             Cur(j, generation, serial) => ~UnderWay(requests, worker, rest, job, j)
        /\ \A e \in rest : ~Cur(e.id, generation, serial)
    BY <1>2, <1>9
  <2>2. AnsJob(d) = "loading" => d.kind = "ready"
    BY <1>2 DEF AnsJob, AnswerForm, Publications
  <2>3. pendingFlowGeneration' = 0
    BY <1>1, <2>1, <2>2 DEF Cur
  <2>4. \A job \in Jobs, j \in Ids :
          ~(Cur(j, generation', serial') /\ UnderWay(requests', worker', decoding', job, j))
    BY <1>1, <1>5, <1>6, <2>1
  <2>5. timer' \/ autoplay' => status' = "solving"
    <3>1. CASE goesOn
      BY <1>1, <3>1
    <3>2. CASE ~goesOn
      BY <1>1, <2>1, <3>2
    <3> QED
      BY <3>1, <3>2
  <2>6. ~generating'
    BY <1>1, <2>1
  <2>7. \A e \in decoding' : ~Cur(e.id, generation', serial')
    BY <1>1, <2>1
  <2> QED
    BY <2>3, <2>4, <2>5, <2>6, <2>7
<1>10. Controlled(requests, worker, decoding, generation, serial)'
  BY <1>1, <1>9 DEF Controlled
<1> QED
  BY <1>7, <1>8, <1>10 DEF FlowInv

\* A publication at a hidden boundary is that of a navigation of the session at hand.
LEMMA HiddenOffered ==
    ASSUME NEW w, StagedInv(w), w \in Workers, NEW i \in Ids, NEW v, Offered(w, i, v), v.cursor \in Hidden
    PROVE  /\ v.session = w.session.id /\ i.serial > 0 /\ AckJob(i) = "solving"
           /\ i.gen = w.activeGeneration
<1>1. 0 \notin Hidden /\ i.serial \in Nat
  BY FlowAssumption DEF Ids
<1>2. View(i.gen, 0, FALSE).cursor = 0
  BY DEF View
<1>3. ~(w.stagedFlowCurrent # NoId /\ w.stagedFlowCurrent = i /\ v = View(i.gen, 0, FALSE))
  BY <1>1, <1>2
<1>4. /\ View(w.session.id, w.session.next, TRUE).session = w.session.id
      /\ View(w.session.id, w.session.seek, w.session.prepared).session = w.session.id
  BY DEF View
<1>5. v.session = w.session.id /\ i.serial > 0 /\ i.gen = w.activeGeneration
  BY <1>3, <1>4 DEF Offered, StagedInv
<1> QED
  BY <1>1, <1>5 DEF AckJob

\* While a publication is with the client, no acceptance is under way.
LEMMA NoneAccepted ==
    ASSUME NEW q, NEW w, NEW dec, NEW g, NEW s, Joint(q, w, dec, g, s),
           NEW i, NEW v, Offered(w, i, v), ~Acked(q, i)
    PROVE  Quiet(q)
<1>1. StagedInv(w) /\ AcceptsInv(q, w)
  BY DEF Joint, WorkerInv
<1> SUFFICES ASSUME NEW k \in 1 .. Len(q), Accepts(q[k]) PROVE FALSE
  BY DEF Quiet
<1>2. PICK u : Offered(w, q[k].id, u)
  BY <1>1 DEF AcceptsInv, Judges
<1>3. q[k].id = i
  BY <1>1, <1>2, OfferedOnce
<1> QED
  BY <1>3 DEF Acked, Accepts

\* The request that follows a hidden boundary.
LEMMA OnwardForm ==
    ASSUME NEW i \in Ids, NEW v, v.cursor \in Hidden,
           NEW r \in {SeekRequest(i, v.cursor - 1), Plain("next", i)}
    PROVE  r \in Requests /\ IsNav(r) /\ r.id = i
<1>1. CASE r = SeekRequest(i, v.cursor - 1)
  <2>1. v.cursor - 1 \in Cursors
    <3>1. v.cursor \in 1 .. EventCount - 1
      BY FlowAssumption
    <3>2. \A c \in 1 .. EventCount - 1 : c - 1 \in 0 .. EventCount
      BY FlowAssumption
    <3> QED
      BY <3>1, <3>2 DEF Cursors
  <2> QED
    BY <1>1, <2>1, SeekForm
<1>2. CASE r = Plain("next", i)
  <2>1. r \in Requests /\ r.kind = "next" /\ r.id = i
    BY <1>2, PlainForm DEF Navigation
  <2> QED
    BY <2>1 DEF IsNav, Navigation
<1> QED
  BY <1>1, <1>2

\* A request ahead of a verdict.
LEMMA SentBoth ==
    ASSUME NEW q \in Seq(Requests), NEW r \in Requests, NEW a \in Requests
    PROVE  q \o (<<r>> \o <<a>>) = Append(Append(q, r), a) /\ q \o (<<>> \o <<a>>) = Append(q, a)
OBVIOUS

\* The next navigation is posted, and nothing else is awaited.
LEMMA OnwardPosted ==
    ASSUME NEW q, NEW w, NEW dec, NEW g, NEW s, Joint(q, w, dec, g, s),
           NEW r \in Requests, IsNav(r), r.id = Id(g, s + 1),
           \A job \in Jobs, i \in Ids : Cur(i, g, s) => ~UnderWay(q, w, dec, job, i)
    PROVE  /\ Joint(Append(q, r), w, dec, g, s + 1)
           /\ \A job, j : UnderWay(Append(q, r), w, dec, job, j) <=>
                UnderWay(q, w, dec, job, j) \/ (ReqJob(r) = job /\ r.id = j)
           /\ \A job \in Jobs, j \in Ids : Cur(j, g, s + 1) /\
                UnderWay(Append(q, r), w, dec, job, j) => job = "solving" /\ j = r.id
           /\ \A e \in dec : ~Cur(e.id, g, s + 1)
<1>1. \A job \in Jobs, i \in Ids : Cur(i, g, s) /\ UnderWay(q, w, dec, job, i) => job = "solving"
  OBVIOUS
<1>2. /\ Joint(Append(q, r), w, dec, g, s + 1)
      /\ \A job, i : UnderWay(Append(q, r), w, dec, job, i) <=>
           UnderWay(q, w, dec, job, i) \/ (ReqJob(r) = job /\ r.id = i)
      /\ \A job \in Jobs, i \in Ids : Cur(i, g, s + 1) =>
           /\ ~UnderWay(q, w, dec, job, i)
           /\ UnderWay(Append(q, r), w, dec, job, i) => job = "solving" /\ i = r.id
      /\ \A d \in dec : ~Cur(d.id, g, s + 1)
  BY <1>1, NavigationPosted, SMTT(30)
<1> QED
  BY <1>2

\* The verdict on a publication at a hidden boundary, behind the requests q.
LEMMA HiddenAccepted ==
    ASSUME NEW q, NEW dec, NEW g, NEW s, Joint(q, worker, dec, g, s),
           NEW i \in Ids, Named(i, worker.activeGeneration, s), AckJob(i) = "solving",
           ~UnderWay(q, worker, dec, "solving", i), ~Acked(q, i),
           Harmless(q, worker.activeGeneration),
           NEW v, Offered(worker, i, v), v.cursor \in Hidden,
           scene # NoView => scene.session = worker.session.id,
           scene' = scene, worker' = worker, requests' = Append(q, Ack(i, TRUE))
    PROVE  /\ Joint(requests', worker', dec, g, s) /\ Sees(requests, worker)'
           /\ \A job \in Jobs, j \in Ids : UnderWay(requests', worker', dec, job, j) <=>
                UnderWay(q, worker, dec, job, j)
<1>0. StagedInv(worker) /\ worker \in Workers
  BY DEF Joint, WorkerInv
<1>1. /\ Joint(Append(q, Ack(i, TRUE)), worker, dec, g, s)
      /\ \A job \in Jobs : \A j : UnderWay(Append(q, Ack(i, TRUE)), worker, dec, job, j) <=>
           UnderWay(q, worker, dec, job, j)
      /\ Settles(Append(q, Ack(i, TRUE)), worker, v)
  BY AcceptancePosted
<1>2. v.session = worker.session.id
  BY <1>0, HiddenOffered
<1>3. Settles(requests', worker', v) /\ (scene' # NoView => scene'.session = v.session)
  BY <1>1, <1>2
<1>4. Sees(requests, worker)'
  BY <1>3 DEF Sees
<1> QED
  BY <1>1, <1>4

\* A boundary that is not shown.
LEMMA SkippedSteps ==
    ASSUME FlowInv, NEW d \in decoding, decoding' = decoding \ {d}, Concluded(d, Current(d)),
           Skipped(d), UNCHANGED <<generation, failed, direction, described, unasked, generating, worker>>
    PROVE  FlowInv'
<1> DEFINE rest == decoding \ {d}
           n == Id(generation, serial + 1)
           onward == IF direction = -1 THEN SeekRequest(n, d.view.cursor - 1) ELSE Plain("next", n)
<1>1. /\ generation' = generation /\ serial' = serial + 1 /\ failed' = failed
      /\ scene' = scene /\ worker' = worker /\ autoplay' = autoplay /\ timer' = timer
      /\ status' = "solving" /\ generating' = generating /\ decoding' = rest
      /\ pendingFlowGeneration' =
           (IF lifecycle = d.id /\ d.kind = "ready" /\ pendingFlowGeneration = d.id.gen THEN 0
            ELSE pendingFlowGeneration)
      /\ Cur(d.id, generation, serial)
      /\ d.view.cursor \in Hidden
      /\ requests' = requests \o (Posted(onward) \o <<Ack(d.id, TRUE)>>)
  BY DEF Skipped, Concluded, Current, OfThisSerial, Cur, Send, Visible
<1>2. /\ Joint(requests, worker, rest, generation, serial)
      /\ requests \in Seq(Requests) /\ generation \in Generations /\ serial \in Nat
      /\ d.id \in Ids /\ AckJob(d.id) = AnsJob(d)
      /\ Named(d.id, worker.activeGeneration, serial)
      /\ ~UnderWay(requests, worker, rest, AckJob(d.id), d.id) /\ ~Acked(requests, d.id)
      /\ Harmless(requests, worker.activeGeneration) /\ Offered(worker, d.id, d.view)
      /\ failed = "no" =>
           /\ status = AnsJob(d) /\ ~timer /\ ~generating /\ lifecycle = d.id
           /\ pendingFlowGeneration # 0 =>
                pendingFlowGeneration = generation /\ status = "loading"
           /\ \A job \in Jobs, i \in Ids :
                Cur(i, generation, serial) => ~UnderWay(requests, worker, rest, job, i)
           /\ \A e \in rest : ~Cur(e.id, generation, serial)
  BY <1>1, DecodeTaken
<1>3. n \in Ids /\ n = Id(generation, serial + 1) /\ n.gen = generation /\ n.serial = serial + 1
  BY <1>2 DEF Id, Ids
<1>4. onward \in Requests /\ IsNav(onward) /\ onward.id = n
  <2>1. onward \in {SeekRequest(n, d.view.cursor - 1), Plain("next", n)}
    OBVIOUS
  <2> HIDE DEF onward, n
  <2> QED
    BY <1>1, <1>3, <2>1, OnwardForm
<1> HIDE DEF rest, onward, n
<1>5. PICK i \in Ids : i = d.id
  BY <1>2
<1>6. /\ Named(i, worker.activeGeneration, serial) /\ ~Acked(requests, i)
      /\ Offered(worker, i, d.view) /\ i.serial > 0 /\ AckJob(i) = "solving"
      /\ AnsJob(d) = "solving" /\ ~UnderWay(requests, worker, rest, "solving", i)
      /\ worker.activeGeneration = generation
  <2>1. StagedInv(worker) /\ worker \in Workers
    BY <1>2 DEF Joint, WorkerInv
  <2>2. Offered(worker, i, d.view)
    BY <1>2, <1>5
  <2>3. i.serial > 0 /\ AckJob(i) = "solving" /\ i.gen = worker.activeGeneration
    BY <1>1, <2>1, <2>2, HiddenOffered
  <2> QED
    BY <1>1, <1>2, <1>5, <2>2, <2>3 DEF Cur
<1>7. scene # NoView => scene.session = worker.session.id
  <2>1. Quiet(requests)
    BY <1>2, <1>6, NoneAccepted
  <2>2. Standing(worker).session = worker.session.id
    BY DEF Standing, View
  <2>3. \A v : Settles(requests, worker, v) => v.session = worker.session.id
    BY <2>1, <2>2 DEF Settles, Quiet
  <2> QED
    BY <2>3 DEF FlowInv, Sees
<1>8. Ack(i, TRUE) \in Requests
  BY AckForm
<1>9. /\ serial + 1 \in Nat /\ serial + 1 >= serial
      /\ Named(i, worker.activeGeneration, serial + 1)
  BY <1>2, <1>6 DEF Named, Ids
<1>10. CASE failed = "no"
  <2> DEFINE q == Append(requests, onward)
  <2>1. requests' = Append(q, Ack(i, TRUE))
    BY <1>1, <1>2, <1>4, <1>5, <1>8, <1>10, SentBoth DEF Posted
  <2>2. \A job \in Jobs, j \in Ids :
          Cur(j, generation, serial) => ~UnderWay(requests, worker, rest, job, j)
    BY <1>2, <1>10
  <2>3. onward.id = Id(generation, serial + 1)
    BY <1>3, <1>4
  <2>4. /\ Joint(q, worker, rest, generation, serial + 1)
        /\ \A job, j : UnderWay(q, worker, rest, job, j) <=>
             UnderWay(requests, worker, rest, job, j) \/ (ReqJob(onward) = job /\ onward.id = j)
        /\ \A job \in Jobs, j \in Ids : Cur(j, generation, serial + 1) /\
             UnderWay(q, worker, rest, job, j) => job = "solving" /\ j = onward.id
        /\ \A e \in rest : ~Cur(e.id, generation, serial + 1)
    <3>1. Joint(requests, worker, rest, generation, serial)
      BY <1>2
    <3> QED
      BY <1>4, <2>2, <2>3, <3>1, OnwardPosted
  <2>5. onward.id # i
    <3>1. i.serial <= serial /\ i.serial \in Nat
      BY <1>6 DEF Named, Ids
    <3> QED
      BY <1>2, <1>3, <1>4, <3>1
  <2>6. ~UnderWay(q, worker, rest, "solving", i)
    BY <1>6, <2>4, <2>5
  <2>7. ~Acked(q, i)
    BY <1>2, <1>4, <1>6, <2>5, AppendedJobs
  <2>8. Harmless(q, worker.activeGeneration)
    <3>1. ~Dangerous(worker.activeGeneration, onward)
      BY <1>2, <1>3, <1>4, <1>6 DEF Dangerous, IsNav, Navigation, Dialogs, Generations
    <3>2. /\ q[Len(requests) + 1] = onward
          /\ \A k \in 1 .. Len(requests) : q[k] = requests[k]
          /\ \A k \in 1 .. Len(q) : k \in 1 .. Len(requests) \/ k = Len(requests) + 1
      BY <1>2, <1>4, Appended
    <3> HIDE DEF q
    <3> QED
      BY <1>2, <3>1, <3>2 DEF Harmless
  <2> HIDE DEF q
  <2>9. /\ Joint(requests', worker', rest, generation, serial + 1) /\ Sees(requests, worker)'
        /\ \A job \in Jobs, j \in Ids : UnderWay(requests', worker', rest, job, j) <=>
             UnderWay(q, worker, rest, job, j)
    BY <1>1, <1>6, <1>7, <1>9, <2>1, <2>4, <2>6, <2>7, <2>8, HiddenAccepted
  <2>10. Joint(requests', worker', decoding', generation', serial')
    BY <1>1, <2>9
  <2>11. /\ timer' \/ autoplay' => status' = "solving"
         /\ ~generating' /\ ~timer' /\ pendingFlowGeneration' = 0
    BY <1>1, <1>2, <1>6, <1>10
  <2>12. \A e \in decoding' : ~Cur(e.id, generation', serial')
    BY <1>1, <2>4
  <2>13. \A job \in Jobs, j \in Ids :
           Cur(j, generation', serial') /\ UnderWay(requests', worker', decoding', job, j)
             => status' = job
    BY <1>1, <2>4, <2>9
  <2>14. Controlled(requests, worker, decoding, generation, serial)'
    BY <2>11, <2>12, <2>13 DEF Controlled
  <2> QED
    BY <2>9, <2>10, <2>14 DEF FlowInv
<1>11. CASE failed # "no"
  <2>1. requests' = Append(requests, Ack(i, TRUE))
    BY <1>1, <1>2, <1>4, <1>5, <1>8, <1>11, SentBoth DEF Posted
  <2>2. Joint(requests, worker, rest, generation, serial + 1)
    BY <1>2, <1>9, Bumped
  <2>3. Joint(requests', worker', rest, generation, serial + 1) /\ Sees(requests, worker)'
    BY <1>1, <1>2, <1>6, <1>7, <1>9, <2>1, <2>2, HiddenAccepted
  <2>4. Joint(requests', worker', decoding', generation', serial')
    BY <1>1, <2>3
  <2>5. Controlled(requests, worker, decoding, generation, serial)'
    BY <1>1, <1>11 DEF Controlled
  <2> QED
    BY <2>3, <2>4, <2>5 DEF FlowInv
<1> QED
  BY <1>10, <1>11

\* A decode ends, one way or another.
LEMMA DecodedSteps ==
    ASSUME FlowInv, NEW d, Decoded(d)
    PROVE  FlowInv'
<1>1. /\ d \in decoding /\ decoding' = decoding \ {d} /\ Concluded(d, Current(d))
      /\ UNCHANGED <<generation, failed, direction, described, unasked, generating, worker>>
      /\ Overtaken(d) \/ Shown(d) \/ Skipped(d)
  BY DEF Decoded
<1>2. CASE Overtaken(d)
  BY <1>1, <1>2, OvertakenSteps
<1>3. CASE Shown(d)
  BY <1>1, <1>3, ShownSteps
<1>4. CASE Skipped(d)
  BY <1>1, <1>4, SkippedSteps
<1> QED
  BY <1>1, <1>2, <1>3, <1>4

(***************************************************************************)
(* The invariant of the specification                                       *)
(***************************************************************************)
\* The Worker before its first request.
LEMMA InitialWorker ==
    ASSUME NEW w, w = [activeGeneration |-> 0, session |-> NoSession, stagedFlowCurrent |-> NoId,
                       stagedFlowEvent |-> Nobody, stagedFlowSeek |-> Nobody,
                       seekOperation |-> NoId, navigation |-> NoId, deferred |-> NoRequest,
                       encodings |-> {}, answers |-> <<>>]
    PROVE  /\ WorkerInv(w, 0) /\ w.activeGeneration = 0 /\ w.encodings = {} /\ w.answers = <<>>
           /\ w.deferred = NoRequest
           /\ \A job \in Jobs : \A i : ~InWorker(w, job, i) /\ OnceInWorker(w, job, i)
<1>1. /\ w.activeGeneration = 0 /\ w.session = NoSession /\ w.stagedFlowCurrent = NoId
      /\ w.stagedFlowEvent = Nobody /\ w.stagedFlowSeek = Nobody
      /\ w.seekOperation = NoId /\ w.navigation = NoId /\ w.deferred = NoRequest
      /\ w.encodings = {} /\ w.answers = <<>>
  OBVIOUS
<1>2. NoId \in Ids /\ 0 \in Generations /\ 0 \in Cursors /\ Nobody \in Owners
  BY FlowAssumption DEF NoId, Id, Ids, Generations, Cursors, Nobody, Owners
<1>3. NoRequest \in Requests /\ NoRequest.kind = "none"
  BY <1>2 DEF NoRequest, Plain, Requests
<1>4. /\ NoSession \in Sessions /\ NoSession.id = 0 /\ NoSession.next = Nothing
      /\ NoSession.seek = Nothing
  BY <1>2 DEF NoSession, NewSession, Sessions
<1>5. <<>> \in Seq(Answers) /\ Len(<<>>) = 0
  OBVIOUS
<1>6. w \in Workers
  BY <1>2, <1>3, <1>4, <1>5 DEF Workers
<1>7. WorkerForm(w, 0) /\ EncodingInv(w) /\ StagedInv(w) /\ StepInv(w) /\ SeekInv(w)
  BY <1>1, <1>4, <1>5 DEF WorkerForm, EncodingInv, StagedInv, StepInv, SeekInv, Pending
<1>8. \A job \in Jobs : \A i : ~InWorker(w, job, i) /\ OnceInWorker(w, job, i)
  <2>1. ReqJob(NoRequest) = "none"
    BY <1>3 DEF ReqJob, Navigation
  <2>2. \A job \in Jobs : \A i : ~Parked(w, job, i) /\ ~Encoded(w, job, i) /\ ~Answered(w, job, i)
    BY <1>1, <1>5, <2>1 DEF Parked, Encoded, Answered, Jobs
  <2>3. \A k \in 1 .. Len(w.answers) : FALSE
    BY <1>1, <1>5
  <2> QED
    BY <2>2, <2>3 DEF InWorker, OnceInWorker
<1> QED
  BY <1>1, <1>6, <1>7, <1>8 DEF WorkerInv

\* A workspace that was just mounted.
LEMMA InitInv ==
    ~EditsWhileBusy /\ Init => FlowInv
<1> SUFFICES ASSUME ~EditsWhileBusy, Init PROVE FlowInv
  OBVIOUS
<1> DEFINE i0 == Id(1, 0)
           r == Plain("create", i0)
<1>1. /\ generation = 1 /\ serial = 0 /\ status = "loading" /\ failed = "no" /\ ~autoplay /\ ~timer
      /\ scene = NoView /\ decoding = {} /\ ~generating /\ pendingFlowGeneration = 0
      /\ requests = <<r>>
  BY DEF Init
<1>2. i0 \in Ids /\ i0.gen = 1 /\ i0.serial = 0 /\ 1 \in Generations
  BY FlowAssumption DEF Id, Ids, Generations
<1> HIDE DEF i0
<1>3. r \in Requests /\ r.kind = "create" /\ r.id = i0 /\ ~IsAck(r) /\ ~Accepts(r)
  BY <1>2, PlainForm
<1> HIDE DEF r
<1>4. /\ requests \in Seq(Requests) /\ Len(requests) = 1 /\ requests[1] = r
      /\ \A k \in 1 .. Len(requests) : k = 1
  BY <1>1, <1>3
<1>5. /\ WorkerInv(worker, 0) /\ worker.activeGeneration = 0 /\ worker.encodings = {}
      /\ worker.answers = <<>> /\ worker.deferred = NoRequest
      /\ \A job \in Jobs : \A i : ~InWorker(worker, job, i) /\ OnceInWorker(worker, job, i)
  BY InitialWorker DEF Init
<1>6. ~IsNav(r) /\ RequestForm(r) /\ ReqJob(r) = "loading" /\ Named(r.id, 1, 0)
  <2>1. ~IsNav(r)
    BY <1>3 DEF IsNav, Navigation
  <2>2. RequestForm(r)
    BY <1>2, <1>3, <2>1 DEF RequestForm
  <2>3. ReqJob(r) = "loading"
    BY <1>3 DEF ReqJob
  <2>4. Named(r.id, 1, 0)
    BY <1>2, <1>3 DEF Named
  <2> QED
    BY <2>1, <2>2, <2>3, <2>4
<1>7. QueueForm(requests, 0, 1, 0) /\ DecodingForm(decoding, 0, 0)
  BY <1>1, <1>3, <1>4, <1>6 DEF QueueForm, DecodingForm
<1>8. /\ \A job, i : Queued(requests, job, i) <=> (job = "loading" /\ i = i0)
      /\ \A i : ~Acked(requests, i)
      /\ \A job, i : ~Decoding(decoding, job, i) /\ OnceDecoding(decoding, job, i)
      /\ \A job, i : OnceQueued(requests, job, i)
  BY <1>1, <1>3, <1>4, <1>6 DEF Queued, Acked, Decoding, OnceDecoding, OnceQueued
<1>9. OnceInv(requests, worker, decoding)
  BY <1>5, <1>8 DEF OnceInv, Once
<1>10. CreatesInv(requests, worker) /\ AcceptsInv(requests, worker)
  BY <1>2, <1>3, <1>4, <1>5, <1>6 DEF CreatesInv, AcceptsInv
<1>11. ClearInv(requests, worker, decoding, 1, 0)
  BY <1>4, <1>5, <1>8 DEF ClearInv
<1>12. /\ AnswersOffered(worker, 1, 0) /\ DecodingOffered(worker, decoding, 1, 0)
       /\ ParkInv(worker, 1, 0)
  BY <1>1, <1>5 DEF AnswersOffered, DecodingOffered, ParkInv
<1>13. Joint(requests, worker, decoding, generation, serial)
  BY <1>1, <1>2, <1>4, <1>5, <1>7, <1>9, <1>10, <1>11, <1>12 DEF Joint
<1>14. Controlled(requests, worker, decoding, generation, serial)
  BY <1>1, <1>5, <1>8 DEF Controlled, UnderWay
<1>15. Sees(requests, worker)
  BY <1>1 DEF Sees
<1> QED
  BY <1>13, <1>14, <1>15 DEF FlowInv

\* Every step keeps the invariant.
LEMMA NextInv ==
    FlowInv /\ [Next]_vars => FlowInv'
<1> SUFFICES ASSUME FlowInv, [Next]_vars PROVE FlowInv'
  OBVIOUS
<1>1. ASSUME Act PROVE FlowInv'
  <2>1. CASE Load
    BY <2>1, LoadSteps
  <2>2. CASE Advance
    BY <2>2, AdvanceSteps
  <2>3. CASE Seek
    BY <2>3, SeekSteps
  <2>4. CASE Pause
    BY <2>4, PauseSteps
  <2>5. CASE Type
    BY <2>5, TypeSteps
  <2>6. ASSUME NEW kind \in Dialogs, Open(kind) PROVE FlowInv'
    BY <2>6, OpenSteps
  <2>7. CASE Close
    BY <2>7, CloseSteps
  <2>8. CASE SelectAlgorithm
    BY <2>8, SelectSteps
  <2>9. CASE Generate
    BY <2>9, GenerateSteps
  <2>10. CASE CancelGeneration
    BY <2>10, CancelSteps
  <2> QED
    BY <1>1, <2>1, <2>2, <2>3, <2>4, <2>5, <2>6, <2>7, <2>8, <2>9, <2>10 DEF Act
<1>2. ASSUME Receive PROVE FlowInv'
  <2>1. CASE DropAnswer
    BY <2>1, DropSteps
  <2>2. CASE ReceivePublication
    BY <2>2, PublicationSteps
  <2>3. CASE ReceivePrepared
    BY <2>3, PreparedSteps
  <2>4. CASE ReceiveDescription
    BY <2>4, DescriptionSteps
  <2>5. CASE ReceiveError
    BY <2>5, ErrorSteps
  <2> QED
    BY <1>2, <2>1, <2>2, <2>3, <2>4, <2>5 DEF Receive
<1>3. ASSUME UNCHANGED vars PROVE FlowInv'
  <2>1. /\ generation' = generation /\ serial' = serial /\ status' = status /\ failed' = failed
        /\ autoplay' = autoplay /\ timer' = timer /\ scene' = scene
        /\ lifecycle' = lifecycle /\ decoding' = decoding /\ generator' = generator
        /\ requests' = requests /\ worker' = worker
    BY <1>3 DEF vars, playback, generator
  <2>2. Joint(requests', worker', decoding, generation, serial)
    BY <2>1 DEF FlowInv
  <2> QED
    BY <2>1, <2>2, ControlsStay
<1>4. ASSUME AutoplayStep PROVE FlowInv'
  BY <1>4, AutoplaySteps
<1>5. ASSUME Generated PROVE FlowInv'
  BY <1>5, GeneratedSteps
<1>6. ASSUME Serve PROVE FlowInv'
  BY <1>6, ServeSteps
<1>7. ASSUME NEW e \in worker.encodings, Resolve(e) PROVE FlowInv'
  BY <1>7, ResolveSteps
<1>8. ASSUME NEW d \in decoding, Decoded(d) \/ Invalid(d) PROVE FlowInv'
  BY <1>8, DecodedSteps, InvalidSteps
<1> QED
  BY <1>1, <1>2, <1>3, <1>4, <1>5, <1>6, <1>7, <1>8 DEF Next

(***************************************************************************)
(* What follows from the invariant                                          *)
(***************************************************************************)

\* An accepted session is at what it offered.
LEMMA Reached ==
    ASSUME NEW s \in Sessions
    PROVE  /\ s.next # Nothing =>
                Committed(s).id = s.id /\ Committed(s).cursor = s.next /\ Committed(s).prepared = TRUE
           /\ s.seek # Nothing =>
                Sought(s).id = s.id /\ Sought(s).cursor = s.seek /\ Sought(s).prepared = s.prepared
           /\ \A g : NewSession(g).id = g /\ NewSession(g).cursor = 0 /\ NewSession(g).prepared = FALSE
BY DEF Sessions, Committed, Sought, NewSession

\* What the Worker settles on is one thing, and Settled computes it.
LEMMA SettledIs ==
    ASSUME Joint(requests, worker, decoding, generation, serial),
           NEW v, Settles(requests, worker, v)
    PROVE  v = Settled
<1>1. /\ worker \in Workers /\ worker.session \in Sessions /\ StagedInv(worker)
      /\ requests \in Seq(Requests)
      /\ \A k \in 1 .. Len(requests) : requests[k].id \in Ids /\ RequestForm(requests[k])
  BY JointFacts DEF Joint, WorkerInv, Workers
<1>2. \A i \in Ids : Accepting(i) <=>
        \E k \in 1 .. Len(requests) : Accepts(requests[k]) /\ requests[k].id = i
  <2>1. ASSUME NEW i \in Ids, NEW k \in 1 .. Len(requests), requests[k] = Ack(i, TRUE)
        PROVE  Accepts(requests[k]) /\ requests[k].id = i
    BY <2>1, AckForm
  <2>2. ASSUME NEW k \in 1 .. Len(requests), Accepts(requests[k])
        PROVE  requests[k] = Ack(requests[k].id, TRUE)
    BY <1>1, <2>2 DEF RequestForm, Accepts
  <2> QED
    BY <2>1, <2>2 DEF Accepting
<1>3. /\ worker.stagedFlowCurrent \in Ids /\ worker.stagedFlowEvent.id \in Ids
      /\ worker.stagedFlowSeek.id \in Ids
  BY <1>1 DEF Workers, Owners
<1> DEFINE s == worker.session
<1>4. /\ s.next # Nothing =>
           Committed(s).id = s.id /\ Committed(s).cursor = s.next /\ Committed(s).prepared = TRUE
      /\ s.seek # Nothing =>
           Sought(s).id = s.id /\ Sought(s).cursor = s.seek /\ Sought(s).prepared = s.prepared
      /\ \A g : NewSession(g).id = g /\ NewSession(g).cursor = 0 /\ NewSession(g).prepared = FALSE
  BY <1>1, Reached
<1>5. ASSUME NEW k \in 1 .. Len(requests), Accepts(requests[k]), Offered(worker, requests[k].id, v)
      PROVE  v = Settled
  <2>1. PICK i \in Ids : i = requests[k].id
    BY <1>1
  <2>2. Accepting(i) /\ Offered(worker, i, v)
    BY <1>2, <1>5, <2>1
  <2>3. CASE worker.stagedFlowEvent # Nobody /\ worker.stagedFlowEvent.id = i
    <3>1. s.next # Nothing /\ worker.stagedFlowCurrent = NoId /\ worker.stagedFlowSeek = Nobody
      BY <1>1, <2>3 DEF StagedInv
    <3>2. v = View(s.id, s.next, TRUE)
      BY <2>2, <3>1 DEF Offered
    <3>3. Settled = View(Committed(s).id, Committed(s).cursor, Committed(s).prepared)
      BY <2>2, <2>3, <3>1 DEF Settled
    <3> QED
      BY <1>4, <3>1, <3>2, <3>3
  <2>4. CASE worker.stagedFlowSeek # Nobody /\ worker.stagedFlowSeek.id = i
    <3>1. s.seek # Nothing /\ worker.stagedFlowCurrent = NoId /\ worker.stagedFlowEvent = Nobody
      BY <1>1, <2>4 DEF StagedInv
    <3>2. v = View(s.id, s.seek, s.prepared)
      BY <2>2, <3>1 DEF Offered
    <3>3. Settled = View(Sought(s).id, Sought(s).cursor, Sought(s).prepared)
      BY <2>2, <2>4, <3>1 DEF Settled
    <3> QED
      BY <1>4, <3>1, <3>2, <3>3
  <2>5. CASE worker.stagedFlowCurrent # NoId /\ worker.stagedFlowCurrent = i
    <3> DEFINE n == NewSession(i.gen)
    <3>1. worker.stagedFlowEvent = Nobody /\ worker.stagedFlowSeek = Nobody
      BY <1>1, <2>5 DEF StagedInv
    <3>2. v = View(i.gen, 0, FALSE)
      BY <2>2, <3>1 DEF Offered
    <3>3. Settled = View(n.id, n.cursor, n.prepared)
      BY <2>2, <2>5, <3>1 DEF Settled
    <3> QED
      BY <1>4, <3>2, <3>3
  <2> QED
    BY <2>2, <2>3, <2>4, <2>5 DEF Offered
<1>6. CASE Quiet(requests) /\ v = Standing(worker)
  <2>1. /\ ~Accepting(worker.stagedFlowCurrent) /\ ~Accepting(worker.stagedFlowEvent.id)
        /\ ~Accepting(worker.stagedFlowSeek.id)
    BY <1>2, <1>3, <1>6 DEF Quiet
  <2> QED
    BY <1>6, <2>1 DEF Settled, Standing
<1> QED
  BY <1>5, <1>6 DEF Settles

\* What the Worker settles on is Settled, so the scene agrees with it.
LEMMA FlowAgrees ==
    FlowInv => Agreement
<1> SUFFICES ASSUME FlowInv, scene # NoView
             PROVE  scene = Settled \/ (scene.session = Settled.session /\ Settled.cursor \in Hidden)
  BY DEF Agreement
<1>1. PICK v : /\ Settles(requests, worker, v)
               /\ scene = v \/ (scene.session = v.session /\ v.cursor \in Hidden)
  BY DEF FlowInv, Sees
<1>2. v = Settled
  BY <1>1, SettledIs DEF FlowInv
<1> QED
  BY <1>1, <1>2

\* The invariant of the Worker has no candidate that nobody holds.
LEMMA FlowHasOneCandidate ==
    FlowInv => OneCandidate
<1> SUFFICES ASSUME FlowInv PROVE OneCandidate
  OBVIOUS
<1>1. StagedInv(worker) /\ StepInv(worker) /\ SeekInv(worker)
  BY DEF FlowInv, Joint, WorkerInv
<1> DEFINE s == worker.session
<1>2. /\ worker.stagedFlowCurrent = NoId \/ worker.stagedFlowEvent = Nobody
      /\ worker.stagedFlowCurrent = NoId \/ worker.stagedFlowSeek = Nobody
      /\ worker.stagedFlowEvent = Nobody \/ worker.stagedFlowSeek = Nobody
      /\ worker.stagedFlowEvent # Nobody =>
           worker.stagedFlowEvent.session = s.id /\ s.next # Nothing
      /\ worker.stagedFlowSeek # Nobody =>
           worker.stagedFlowSeek.session = s.id /\ s.seek # Nothing
  BY <1>1 DEF StagedInv
<1>3. s.next # Nothing =>
        \/ worker.stagedFlowEvent # Nobody /\ worker.stagedFlowEvent.session = s.id
        \/ \E e \in worker.encodings :
              e.kind = "next" /\ e.view.session = s.id /\ e.view.cursor = s.next
  BY <1>1, <1>2 DEF StepInv
<1>4. s.seek # Nothing =>
        \/ worker.stagedFlowSeek # Nobody /\ worker.stagedFlowSeek.session = s.id
        \/ \E e \in worker.encodings :
              e.kind = "seek" /\ e.view.session = s.id /\ e.view.cursor = s.seek
  BY <1>1, <1>2 DEF SeekInv, SeeksFor
<1> QED
  BY <1>2, <1>3, <1>4 DEF OneCandidate

\* A navigation that the client waits for has a current name.
LEMMA FlowAwaits ==
    FlowInv => ParkedIsAwaited
<1> SUFFICES ASSUME FlowInv, worker.deferred.id = Id(generation, serial)
             PROVE  Blocked(worker)
  BY DEF ParkedIsAwaited
<1>1. 1 <= generation /\ generation \in Nat /\ ParkInv(worker, generation, serial)
  BY JointFacts DEF FlowInv, Joint
<1>2. Id(generation, serial).gen = generation /\ Id(generation, serial).serial = serial
  BY DEF Id
<1>3. worker.deferred # NoRequest
  BY <1>1, <1>2 DEF NoRequest, Plain, NoId, Id
<1> QED
  BY <1>1, <1>2, <1>3 DEF ParkInv, Cur

\* The invariant holds from the first state on.
LEMMA FlowInvHolds ==
    ~EditsWhileBusy /\ Spec => []FlowInv
<1>1. ~EditsWhileBusy /\ Init => FlowInv
  BY InitInv
<1>2. FlowInv /\ [Next]_vars => FlowInv'
  BY NextInv
<1> QED
  BY <1>1, <1>2, PTL DEF Spec

\* Agreement: whatever the order in which requests, encodings, verdicts and decodes
\* come to pass, the scene on screen is the session and the event that the Worker holds
\* once the acceptances in its port have arrived, up to hidden boundaries. The user does
\* not edit or reconfigure during a request; without that the scene may be left behind.
THEOREM AgreementAlways ==
    ~EditsWhileBusy /\ Spec => []Agreement
BY FlowInvHolds, FlowAgrees, PTL

\* OneCandidate: at most one publication awaits its verdict, and a staged step or seek is
\* held by a coordinator or by a suspended handler of the same session.
THEOREM OneCandidateAlways ==
    ~EditsWhileBusy /\ Spec => []OneCandidate
BY FlowInvHolds, FlowHasOneCandidate, PTL

\* ParkedIsAwaited: a parked navigation that the client waits for is behind a navigation
\* or a publication whose end will run it.
THEOREM ParkedIsAlwaysAwaited ==
    ~EditsWhileBusy /\ Spec => []ParkedIsAwaited
BY FlowInvHolds, FlowAwaits, PTL

(***************************************************************************)
(* Types                                                                    *)
(***************************************************************************)

\* The types of what the invariant does not speak of.
ClientTypes ==
    /\ status \in {"loading", "ready", "solving", "edited", "error", "fatal", "configuring",
                   "generating"}
    /\ failed \in {"no", "packet"} \cup Fatal
    /\ autoplay \in BOOLEAN /\ timer \in BOOLEAN /\ direction \in {-1, 0, 1}
    /\ scene \in Views
    /\ lifecycle \in Ids
    /\ dialog \in {"none"} \cup Dialogs /\ described \subseteq Dialogs /\ unasked \in 0 .. 2
    /\ generating \in BOOLEAN /\ pendingFlowGeneration \in Generations

\* The user: the status, the controls and the dialogs.
LEMMA ActTypes ==
    ClientTypes /\ Act => ClientTypes'
<1> SUFFICES ASSUME ClientTypes, Act PROVE ClientTypes'
  OBVIOUS
<1>0. Resting \in {"ready", "error"} /\ 0 \in Generations
  BY FlowAssumption DEF Resting, Generations
<1>1. CASE Load
  BY <1>1 DEF Load, ClientTypes, PostCreate, dialogs, generator
<1>2. ASSUME NEW r, NEW d \in {-1, 0, 1}, NEW continuous \in BOOLEAN, Navigate(r, d, continuous)
      PROVE  ClientTypes'
  BY <1>2 DEF Navigate, ClientTypes, dialogs, generator
<1>3. CASE Advance
  BY <1>2, <1>3 DEF Advance
<1>4. CASE Seek
  <2>1. PICK t, d : /\ d \in {Direction(t)} \cup (IF dialog = "none" THEN {0} ELSE {})
                    /\ Navigate(SeekRequest(Id(generation, serial + 1), t), d, FALSE)
    BY <1>4 DEF Seek
  <2>2. d \in {-1, 0, 1}
    BY <2>1 DEF Direction
  <2> QED
    BY <1>2, <2>1, <2>2
<1>5. CASE Pause
  BY <1>5 DEF Pause, ClientTypes, dialogs, generator
<1>6. CASE Type
  BY <1>6 DEF Type, ClientTypes, playback, dialogs, generator
<1>7. ASSUME NEW kind \in Dialogs, Open(kind) PROVE ClientTypes'
  <2>1. unasked' \in 0 .. 2
    BY <1>7 DEF Open, ClientTypes
  <2> QED
    BY <1>7, <2>1 DEF Open, ClientTypes, playback, generator
<1>8. CASE Close
  BY <1>8 DEF Close, ClientTypes, playback, generator
<1>9. CASE SelectAlgorithm
  BY <1>9 DEF SelectAlgorithm, ClientTypes, playback, dialogs, generator
<1>10. CASE Generate
  BY <1>10 DEF Generate, ClientTypes, dialogs
<1>11. CASE CancelGeneration
  BY <1>0, <1>11 DEF CancelGeneration, ClientTypes, playback, dialogs
<1> QED
  BY <1>1, <1>3, <1>4, <1>5, <1>6, <1>7, <1>8, <1>9, <1>10, <1>11 DEF Act

\* The answers of the Worker.
LEMMA ReceiveTypes ==
    FlowInv /\ ClientTypes /\ Receive => ClientTypes'
<1> SUFFICES ASSUME FlowInv, ClientTypes, Receive PROVE ClientTypes'
  OBVIOUS
<1>0. worker.answers \in Seq(Answers) /\ generation \in Nat
  BY JointFacts DEF FlowInv
<1>a. Resting \in {"ready", "error"} /\ 0 \in Generations
  BY FlowAssumption DEF Resting, Generations
<1>1. worker.answers # <<>> => Latest \in Answers
  BY <1>0 DEF Latest
<1>2. CASE DropAnswer
  BY <1>2 DEF DropAnswer, Client, ClientTypes, playback, dialogs, generator
<1>3. CASE ReceivePublication
  <2>1. Latest.id \in Ids
    BY <1>1, <1>3 DEF ReceivePublication, Arrived, Answers
  <2> QED
    BY <1>3, <2>1 DEF ReceivePublication, ClientTypes, playback, dialogs, generator
<1>4. CASE ReceivePrepared
  BY <1>4 DEF ReceivePrepared, PostCreate, ClientTypes, playback, generator
<1>5. CASE ReceiveDescription
  BY <1>5 DEF ReceiveDescription, ClientTypes, playback, generator
<1>6. CASE ReceiveError
  BY <1>a, <1>6 DEF ReceiveError, ClientTypes, dialogs
<1> QED
  BY <1>2, <1>3, <1>4, <1>5, <1>6 DEF Receive

\* The decodes.
LEMMA DecodeTypes ==
    ASSUME FlowInv, ClientTypes, NEW d \in decoding, Decoded(d) \/ Invalid(d)
    PROVE  ClientTypes'
<1>0. d.view \in Views
  BY JointFacts DEF FlowInv, Answers
<1>1. NoId \in Ids /\ 0 \in Generations
  BY FlowAssumption DEF NoId, Id, Ids, Generations
<1>2. ASSUME NEW accepted, Concluded(d, accepted)
      PROVE  /\ lifecycle' \in Ids /\ pendingFlowGeneration' \in Generations
             /\ dialog' \in {"none"} \cup Dialogs
  BY <1>1, <1>2 DEF Concluded, ClientTypes
<1>3. CASE Invalid(d)
  <2>1. /\ lifecycle' \in Ids /\ pendingFlowGeneration' \in Generations
        /\ dialog' \in {"none"} \cup Dialogs
    BY <1>2, <1>3 DEF Invalid
  <2> QED
    BY <1>3, <2>1 DEF Invalid, ClientTypes, playback
<1>4. CASE Decoded(d)
  <2>1. /\ lifecycle' \in Ids /\ pendingFlowGeneration' \in Generations
        /\ dialog' \in {"none"} \cup Dialogs
    BY <1>2, <1>4 DEF Decoded
  <2>2. /\ scene' \in Views /\ autoplay' \in BOOLEAN /\ timer' \in BOOLEAN
        /\ status' \in {"loading", "ready", "solving", "edited", "error", "fatal", "configuring",
                        "generating"}
    BY <1>0, <1>4 DEF Decoded, Overtaken, Shown, Skipped, ClientTypes
  <2> QED
    BY <1>4, <2>1, <2>2 DEF Decoded, ClientTypes
<1> QED
  BY <1>3, <1>4

\* Every step keeps the types of the client.
LEMMA TypesStay ==
    FlowInv /\ ClientTypes /\ [Next]_vars => ClientTypes'
<1> SUFFICES ASSUME FlowInv, ClientTypes, [Next]_vars PROVE ClientTypes'
  OBVIOUS
<1>0. /\ generation \in Nat
      /\ Resting \in {"ready", "error"} /\ 0 \in Generations
  BY FlowAssumption, JointFacts DEF FlowInv, Resting, Generations
<1>1. CASE UNCHANGED Client
  BY <1>1 DEF Client, ClientTypes, playback, dialogs, generator
<1>2. CASE Serve
  BY <1>1, <1>2 DEF Serve, DropStale, Defer, ServeCreate, ServeNavigation, ServeAck,
                    ServeSetAlgorithm, ServeDescription, Arrives
<1>3. CASE \E e \in worker.encodings : Resolve(e)
  BY <1>1, <1>3 DEF Resolve, Client
<1>4. CASE AutoplayStep
  BY <1>4 DEF AutoplayStep, ClientTypes, dialogs, generator
<1>5. CASE Generated
  <2>1. CASE pendingFlowGeneration' = generation + 1 /\ PostCreate
    <3>1. generation + 1 \in Generations
      BY <1>0, <2>1, FlowAssumption DEF PostCreate, Generations
    <3> QED
      BY <1>5, <2>1, <3>1 DEF Generated, PostCreate, ClientTypes, playback, dialogs
  <2>2. CASE status' = Resting /\ pendingFlowGeneration' = pendingFlowGeneration
    BY <1>0, <1>5, <2>2 DEF Generated, ClientTypes, playback, dialogs
  <2> QED
    BY <1>5, <2>1, <2>2 DEF Generated
<1>6. CASE UNCHANGED vars
  BY <1>1, <1>6 DEF vars, Client
<1>7. CASE \E d \in decoding : Decoded(d) \/ Invalid(d)
  BY <1>7, DecodeTypes
<1>8. CASE Act
  BY <1>8, ActTypes
<1>9. CASE Receive
  BY <1>9, ReceiveTypes
<1> QED
  BY <1>2, <1>3, <1>4, <1>5, <1>6, <1>7, <1>8, <1>9 DEF Next

\* The types of a workspace that was just mounted.
LEMMA TypesBegin ==
    Init => ClientTypes
<1>1. 0 \in Generations /\ 0 \in Cursors
  BY FlowAssumption DEF Generations, Cursors
<1>2. NoView \in Views /\ NoId \in Ids
  BY <1>1 DEF NoView, View, Views, NoId, Id, Ids
<1> SUFFICES ASSUME Init PROVE ClientTypes
  OBVIOUS
<1>3. /\ status = "loading" /\ failed = "no" /\ direction = 0 /\ scene = NoView /\ lifecycle = NoId
      /\ dialog = "none" /\ described = {} /\ unasked = 2 /\ pendingFlowGeneration = 0
  BY DEF Init
<1>4. autoplay \in BOOLEAN /\ timer \in BOOLEAN /\ generating \in BOOLEAN
  BY DEF Init
<1> QED
  BY <1>1, <1>2, <1>3, <1>4 DEF ClientTypes

\* The types of both sides.
LEMMA TypesTogether ==
    FlowInv /\ ClientTypes => TypeOK
BY JointFacts DEF FlowInv, ClientTypes, Joint, WorkerInv, Workers, TypeOK

\* TypeOK: every variable of the client, the Worker and the ports has its type.
THEOREM TypeCorrect ==
    ~EditsWhileBusy /\ Spec => []TypeOK
<1>1. FlowInv /\ ClientTypes /\ [Next]_vars => ClientTypes'
  BY TypesStay
<1> QED
  BY <1>1, FlowInvHolds, TypesBegin, TypesTogether, PTL DEF Spec
=============================================================================
