----------------------------- MODULE StreamTurn -----------------------------
(***************************************************************************)
(* One streamed turn of the assistant, from the request to its last frame: *)
(* container/app/agents/orchestrator.py (_stream_turn and what it calls),  *)
(* dispatch_manager.py (the dispatch of one agent and its fallback),       *)
(* ha_client/rest.py and action_marker.py (the service call an agent makes *)
(* and the mark it leaves), filler_coordinator.py, and the handlers of     *)
(* api/routes/conversation.py, which send the frames to the client.        *)
(*                                                                         *)
(* The turn is a chain of generators: when it yields a frame it is         *)
(* suspended until the handler has sent it.  Agents, the generation of the *)
(* filler and the probe for reminders are tasks beside it.  Every agent is *)
(* dispatched under a deadline; time is not modelled, so a deadline passes *)
(* at any moment at which the turn waits under it.                         *)
(***************************************************************************)
EXTENDS Naturals, Sequences

CONSTANTS
  Legs,       \* the agents a turn dispatches to
  Lead,       \* the agent of the first classification
  Sender,     \* the send-agent of a sequential send
  MaxChunks   \* bound: chunks an agent streams before its last one

ASSUME TurnAssumption ==
  /\ Lead \in Legs /\ Sender \in Legs \ {Lead} /\ MaxChunks \in Nat

VARIABLES
  turn,    \* where the turn is, and StreamingContext
  leg,     \* the dispatch of each agent, and what its command did
  filler,  \* the filler generation
  probe,   \* the probe for a reminder, started before the dispatch
  queue,   \* the chunks the reader task took from the agent's stream
  frames   \* what the handler sent to the client

vars == <<turn, leg, filler, probe, queue, frames>>

-----------------------------------------------------------------------------
Terminal == {"answer", "done"}   \* with and without mediated_speech
Frames == {"status", "filler", "token"} \cup Terminal

\* token: one more to come.  last, failed: done, with a text, without and
\* with an error.  broken: done, an error and no text.  end: the sentinel.
LastChunks == {"last", "close", "failed", "broken", "directive"}
Chunks == {"token", "end"} \cup LastChunks

Stages == {"prelude", "status", "legs", "answered", "stream", "item",
           "settle", "fallback", "finish", "mediate", "final", "ended",
           "over"}

Turn == [at : Stages, kind : {"none", "single", "multi", "send"},
         wait : {"threshold", "filler", "answer"},  \* the filler race
         item : Chunks \cup {"none"},
         personality : BOOLEAN,  \* one is configured
         general : BOOLEAN,      \* the agent is the fallback agent itself
         speech : BOOLEAN, relayed : BOOLEAN, error : BOOLEAN,
         directive : BOOLEAN, expired : BOOLEAN, recovered : BOOLEAN,
         failed : BOOLEAN,       \* has_error
         mediated : {"no", "some", "all"},
         sending : BOOLEAN,      \* suspended at a yield
         raised : BOOLEAN, told : BOOLEAN,
         left : {"no", "cancelled", "dropped"}]

Leg == [at : {"idle", "running", "fallback", "done"},
        agent : {"none", "thinking", "posting", "unsent", "gone"},
        started : BOOLEAN,   \* HaActionMarker.started
        called : BOOLEAN, out : 0 .. 1, runs : 0 .. 1,
        retried : BOOLEAN, ok : BOOLEAN, chunks : 0 .. MaxChunks]

\* The states have the types above: in particular a command of an agent is
\* never on its way to Home Assistant twice.
TypeOK ==
  /\ turn \in Turn /\ leg \in [Legs -> Leg]
  /\ filler \in {"none", "running", "text", "failed", "cancelled"}
  /\ probe \in [at : {"none", "running", "done", "cancelled"},
                text : BOOLEAN, marked : BOOLEAN]
  /\ queue \in Seq(Chunks) /\ frames \in Seq(Frames)

NewTurn == [at |-> "prelude", kind |-> "none", wait |-> "answer",
            item |-> "none", personality |-> FALSE, general |-> FALSE,
            speech |-> FALSE, relayed |-> FALSE, error |-> FALSE,
            directive |-> FALSE, expired |-> FALSE, recovered |-> FALSE,
            failed |-> FALSE, mediated |-> "no", sending |-> FALSE,
            raised |-> FALSE, told |-> FALSE, left |-> "no"]

NewLeg == [at |-> "idle", agent |-> "none", started |-> FALSE,
           called |-> FALSE, out |-> 0, runs |-> 0, retried |-> FALSE,
           ok |-> FALSE, chunks |-> 0]

Init ==
  /\ \E p \in BOOLEAN : turn = [NewTurn EXCEPT !.personality = p]
  /\ leg = [l \in Legs |-> NewLeg]
  /\ filler = "none" /\ queue = <<>> /\ frames = <<>>
  /\ probe = [at |-> "none", text |-> FALSE, marked |-> FALSE]

Answered == \E i \in DOMAIN frames : frames[i] \in Terminal

\* The turn yields a frame and stands still until the handler has sent it.
Yield(f, t) ==
  /\ frames' = Append(frames, f)
  /\ turn' = [t EXCEPT !.sending = TRUE]

At(stage) == turn.at = stage /\ ~turn.sending

Stopped(f) == IF f = "running" THEN "cancelled" ELSE f
Claimed(f) == IF f = "none" THEN "running" ELSE f

Dispatched(l) == [NewLeg EXCEPT !.at = "running", !.agent = "thinking"]

\* (faulty) a fallback agent is not cancelled
UnwoundAgent(g) ==
  IF g.at = "running" THEN [g EXCEPT !.at = "done", !.agent = "gone"] ELSE g

Running(g) == g.at \in {"running", "fallback"}

\* A leg whose agent was cancelled and has unwound.
Unwound(g) ==
  IF Running(g)
  THEN [g EXCEPT !.at = "done", !.agent = "gone"] ELSE g

AllUnwound == [l \in Legs |-> Unwound(leg[l])]

\* The turn is cancelled, and with it the legs it waits for: an ended turn
\* waits for none, and has lost those that were beside the one that raised.
Awaited == IF turn.at = "ended" THEN leg ELSE AllUnwound

-----------------------------------------------------------------------------
(* The filler and the probe                                                *)

\* The prelude starts the filler before it classifies.
StartFiller ==
  /\ At("prelude") /\ filler = "none" /\ filler' = "running"
  /\ UNCHANGED <<turn, leg, probe, queue, frames>>

FillerEnds ==
  /\ filler = "running" /\ filler' \in {"text", "failed"}
  /\ UNCHANGED <<turn, leg, probe, queue, frames>>

Dropped ==
  IF probe.at = "running" THEN [probe EXCEPT !.at = "cancelled"] ELSE probe

\* A reminder is marked as fired when its text is made; what fails after
\* that leaves the probe without one.
ProbeEnds ==
  /\ probe.at = "running"
  /\ \E marked \in BOOLEAN, text \in BOOLEAN :
       /\ text => marked
       /\ probe' = [at |-> "done", text |-> text, marked |-> marked]
  /\ UNCHANGED <<turn, leg, filler, queue, frames>>

-----------------------------------------------------------------------------
(* An agent and its command                                                *)

Sent(g, reached) ==
  IF reached THEN [g EXCEPT !.out = @ + 1, !.agent = "posting"]
  ELSE [g EXCEPT !.agent = "unsent"]

\* (faulty) the command goes out without leaving the mark
CallUnmarked(l) ==
  /\ leg[l].agent = "thinking" /\ ~leg[l].called
  /\ \E reached \in BOOLEAN :
       leg' = [leg EXCEPT ![l] = Sent([@ EXCEPT !.called = TRUE], reached)]
  /\ UNCHANGED <<turn, filler, probe, queue, frames>>

\* call_service, once allowed: it marks the dispatch and posts the command,
\* unless no connection can be made.
Call(l) ==
  /\ leg[l].agent = "thinking" /\ ~leg[l].called
  /\ \E reached \in BOOLEAN :
       leg' = [leg EXCEPT ![l] =
         Sent([@ EXCEPT !.called = TRUE, !.started = TRUE], reached)]
  /\ UNCHANGED <<turn, filler, probe, queue, frames>>

\* A command that never left is sent over the WebSocket if it is connected.
Resend(l) ==
  /\ leg[l].agent = "unsent"
  /\ leg' = [leg EXCEPT ![l] = Sent(@, TRUE)]
  /\ UNCHANGED <<turn, filler, probe, queue, frames>>

\* The call returns or fails; whether Home Assistant ran it is not known.
CallEnds(l) ==
  /\ leg[l].agent \in {"posting", "unsent"}
  /\ leg' = [leg EXCEPT ![l].agent = "thinking"]
  /\ UNCHANGED <<turn, filler, probe, queue, frames>>

HomeAssistantRuns(l) ==
  /\ leg[l].out > 0
  /\ leg' = [leg EXCEPT ![l].out = @ - 1, ![l].runs = @ + 1]
  /\ UNCHANGED <<turn, filler, probe, queue, frames>>

Yields(l) ==
  /\ turn.kind = "single" /\ leg[l].agent = "thinking"
  /\ leg[l].chunks < MaxChunks
  /\ leg' = [leg EXCEPT ![l].chunks = @ + 1]
  /\ queue' = Append(queue, "token")
  /\ UNCHANGED <<turn, filler, probe, frames>>

\* The stream ends, with a last chunk or without; the reader adds the end.
StreamEnds(l, last) ==
  /\ turn.kind = "single" /\ leg[l].agent = "thinking"
  /\ leg' = [leg EXCEPT ![l] = Unwound(@)]
  /\ queue' = queue \o last \o <<"end">>
  /\ UNCHANGED <<turn, filler, probe, frames>>

Unary(l) == turn.kind # "single" /\ leg[l].at = "running"

Returns(l) ==
  /\ Unary(l) /\ leg[l].agent = "thinking"
  /\ \E ok \in BOOLEAN :
       leg' = [leg EXCEPT ![l] = [Unwound(@) EXCEPT !.ok = ok]]
  /\ UNCHANGED <<turn, filler, probe, queue, frames>>

\* What becomes of a leg whose agent raised or ran out of time: the fallback
\* agent gets the task, unless it had it already or a command has gone out.
Retries(g) ==
  {Unwound(g)} \cup
    (IF g.started THEN {}
     ELSE {[Unwound(g) EXCEPT !.at = "fallback", !.retried = TRUE]})

Raises(l) ==
  /\ Unary(l) /\ leg[l].agent = "thinking"
  /\ \E g \in Retries(leg[l]) : leg' = [leg EXCEPT ![l] = g]
  /\ UNCHANGED <<turn, filler, probe, queue, frames>>

\* (faulty) the deadline passes and the agent is left running
ExpiresAlone(l) ==
  /\ Unary(l)
  /\ \E g \in Retries(leg[l]) :
       leg' = [leg EXCEPT ![l] = [g EXCEPT !.agent = leg[l].agent]]
  /\ UNCHANGED <<turn, filler, probe, queue, frames>>

\* wait_for cancels the agent, wherever it is, and waits for its end.
Expires(l) ==
  /\ Unary(l)
  /\ \E g \in Retries(leg[l]) : leg' = [leg EXCEPT ![l] = g]
  /\ UNCHANGED <<turn, filler, probe, queue, frames>>

\* The fallback agent answers, fails or runs out of time.
FallbackEnds(l) ==
  /\ turn.kind # "single" /\ leg[l].at = "fallback"
  /\ \E ok \in BOOLEAN : leg' = [leg EXCEPT ![l].at = "done", ![l].ok = ok]
  /\ UNCHANGED <<turn, filler, probe, queue, frames>>

Agent(l) ==
  \/ Call(l) \/ Resend(l) \/ CallEnds(l) \/ HomeAssistantRuns(l)
  \/ Yields(l) \/ StreamEnds(l, <<>>)
  \/ \E last \in LastChunks : StreamEnds(l, <<last>>)
  \/ Returns(l) \/ Raises(l)

-----------------------------------------------------------------------------
(* The turn: routing, and turns of several agents                          *)

\* A cache hit, an answered approval, an enrollment, a background turn, a
\* failed classification, a cancel or noise: one frame, no agent.
Exit ==
  /\ At("prelude")
  /\ Yield("answer", [turn EXCEPT !.at = "ended"])
  /\ filler' = Stopped(filler)
  /\ UNCHANGED <<leg, probe, queue>>

RouteSeveral(kind) ==
  /\ At("prelude")
  /\ Yield("status", [turn EXCEPT !.at = "status", !.kind = kind])
  /\ filler' = IF kind = "multi" THEN Stopped(filler) ELSE filler
  /\ UNCHANGED <<leg, probe, queue>>

\* A sequential send holds the race if its content agent is slow.
StartLegs(slow) ==
  /\ At("status")
  /\ slow => turn.kind = "send"
  /\ turn' = [turn EXCEPT !.at = "legs",
                          !.wait = IF slow THEN "threshold" ELSE "answer"]
  /\ leg' = [l \in Legs |->
       IF turn.kind = "send" /\ l = Sender THEN leg[l] ELSE Dispatched(l)]
  /\ filler' = IF slow THEN Claimed(filler) ELSE Stopped(filler)
  /\ UNCHANGED <<probe, queue, frames>>

ContentDone == \A l \in Legs \ {Sender} : leg[l].at = "done"
ContentGood == \A l \in Legs \ {Sender} : leg[l].ok

\* Nothing is sent unless every part of the content is there.
StartSender ==
  /\ turn.at = "legs" /\ turn.kind = "send" /\ ContentDone /\ ContentGood
  /\ leg[Sender].at = "idle"
  /\ leg' = [leg EXCEPT ![Sender] = Dispatched(Sender)]
  /\ UNCHANGED <<turn, filler, probe, queue, frames>>

\* The dispatch is done and its answer finalized, in a task of its own if
\* a filler races it.
LegsEnd ==
  /\ turn.at = "legs" /\ ContentDone
  /\ \/ leg[Sender].at = "done"
     \/ (turn.kind = "send" /\ ~ContentGood)
  /\ turn' = [turn EXCEPT !.at = "answered"]
  /\ UNCHANGED <<leg, filler, probe, queue, frames>>

AnswerLegs ==
  /\ At("answered")
  /\ Yield("answer", [turn EXCEPT !.at = "ended"])
  /\ filler' = Stopped(filler)
  /\ UNCHANGED <<leg, probe, queue>>

-----------------------------------------------------------------------------
(* The filler race                                                         *)

AnswerThere == turn.at = "answered" \/ queue # <<>>

Racing(stage) ==
  /\ turn.at \in {"legs", "stream"} /\ ~turn.sending
  /\ turn.wait = stage /\ ~AnswerThere

ThresholdPasses ==
  /\ Racing("threshold")
  /\ turn' = [turn EXCEPT !.wait = "filler"]
  /\ UNCHANGED <<leg, filler, probe, queue, frames>>

PushFiller ==
  /\ Racing("filler") /\ filler = "text"
  /\ Yield("filler", [turn EXCEPT !.wait = "answer"])
  /\ UNCHANGED <<leg, filler, probe, queue>>

NoFiller ==
  /\ Racing("filler") /\ filler = "failed"
  /\ turn' = [turn EXCEPT !.wait = "answer"]
  /\ UNCHANGED <<leg, filler, probe, queue, frames>>

-----------------------------------------------------------------------------
(* Turns of one agent                                                      *)

RouteSingle(slow) ==
  /\ At("prelude")
  /\ \E general \in BOOLEAN :
       turn' = [turn EXCEPT !.at = "stream", !.kind = "single",
                            !.wait = IF slow THEN "threshold" ELSE "answer",
                            !.general = general]
  /\ probe' = [probe EXCEPT !.at = "running"]
  /\ leg' = [leg EXCEPT ![Lead] = Dispatched(Lead)]
  /\ filler' = IF slow THEN Claimed(filler) ELSE Stopped(filler)
  /\ UNCHANGED <<queue, frames>>

\* The first item, a chunk or the end, calls the filler off.
TakeItem ==
  /\ At("stream") /\ queue # <<>>
  /\ queue' = Tail(queue) /\ filler' = Stopped(filler)
  /\ turn' = IF Head(queue) = "end"
             THEN [turn EXCEPT !.at = "settle", !.wait = "answer"]
             ELSE [turn EXCEPT !.at = "item", !.item = Head(queue),
                               !.wait = "answer"]
  /\ UNCHANGED <<leg, probe, frames>>

\* Tokens go straight to the client if nothing is to be mediated.
Relaying == ~turn.personality /\ ~probe.text

Noted ==
  [turn EXCEPT !.at = "stream", !.item = "none",
     !.speech = @ \/ turn.item \in {"token", "last", "failed"},
     !.error = @ \/ turn.item \in {"failed", "broken"},
     !.directive = @ \/ turn.item = "directive"]

\* _process_chunk, once the probe has ended.  A single answer in a foreign
\* language is held back to be translated.
ProcessItem ==
  /\ At("item") /\ probe.at # "running"
  /\ \/ /\ Relaying /\ turn.item \in {"token", "last"}
        /\ Yield("token", [Noted EXCEPT !.relayed = TRUE])
     \/ /\ Relaying /\ turn.item = "last" /\ ~turn.relayed
        /\ turn' = Noted /\ UNCHANGED frames
     \/ /\ ~Relaying \/ turn.item \notin {"token", "last"}
        /\ turn' = Noted /\ UNCHANGED frames
  /\ UNCHANGED <<leg, filler, probe, queue>>

\* (faulty) the deadline does not bound the race with the filler
StreamExpiresLate ==
  /\ At("stream") /\ queue = <<>> /\ turn.wait = "answer"
  /\ turn' = [turn EXCEPT !.at = "settle", !.expired = TRUE]
  /\ leg' = [leg EXCEPT ![Lead] = Unwound(@)]
  /\ UNCHANGED <<filler, probe, queue, frames>>

\* The deadline of the stream passes while the turn waits for a chunk.
StreamExpires ==
  /\ At("stream") /\ queue = <<>>
  /\ turn' = [turn EXCEPT !.at = "settle", !.expired = TRUE,
                          !.wait = "answer"]
  /\ leg' = [leg EXCEPT ![Lead] = Unwound(@)]
  /\ filler' = Stopped(filler)
  /\ UNCHANGED <<probe, queue, frames>>

AnswerDirective ==
  /\ At("settle") /\ turn.directive
  /\ Yield("done", [turn EXCEPT !.at = "ended"])
  /\ probe' = Dropped
  /\ UNCHANGED <<leg, filler, queue>>

NeedsRecovery ==
  IF turn.expired THEN ~turn.relayed ELSE (turn.error /\ ~turn.speech)

\* The text of the agent stands, perhaps with an error.
Settle ==
  /\ At("settle") /\ ~turn.directive /\ ~NeedsRecovery
  /\ turn' = [turn EXCEPT !.at = "finish",
                !.failed = turn.expired \/ (turn.error /\ ~turn.general)]
  /\ UNCHANGED <<leg, filler, probe, queue, frames>>

\* _recover_failed_stream: a fixed sentence, or the fallback agent.
Recover ==
  /\ At("settle") /\ ~turn.directive /\ NeedsRecovery
  /\ \E g \in Retries(leg[Lead]) :
       /\ g.retried => ~turn.general
       /\ ~g.retried => turn.general \/ g.started
       /\ leg' = [leg EXCEPT ![Lead] = g]
       /\ turn' = [turn EXCEPT !.recovered = TRUE, !.failed = TRUE,
                     !.at = IF g.retried THEN "fallback" ELSE "finish"]
  /\ UNCHANGED <<filler, probe, queue, frames>>

\* The fallback agent answered, or a fixed sentence stands in for it.
RecoveryEnds ==
  /\ At("fallback")
  /\ \E ok \in BOOLEAN :
       turn' = [turn EXCEPT !.at = "finish",
                            !.failed = turn.expired \/ ~ok]
  /\ leg' = [leg EXCEPT ![Lead] = Unwound(@)]
  /\ UNCHANGED <<filler, probe, queue, frames>>

Mediates == turn.personality /\ turn.speech /\ ~turn.recovered

\* The personality rewrites the answer as a stream, if that is switched on.
Finish ==
  /\ At("finish") /\ probe.at # "running"
  /\ \E next \in {"mediate", "final"} :
       /\ next = "mediate" => Mediates
       /\ turn' = [turn EXCEPT !.at = next]
  /\ UNCHANGED <<leg, filler, probe, queue, frames>>

\* One token stands for all that the stream makes.
Mediate ==
  /\ At("mediate") /\ turn.mediated = "no"
  /\ Yield("token", [turn EXCEPT !.mediated = "some"])
  /\ UNCHANGED <<leg, filler, probe, queue>>

\* It ends, or it stalls or fails and stays as it is; without a token the
\* answer is mediated at once or not at all.
MediationEnds ==
  /\ At("mediate")
  /\ turn' \in {[turn EXCEPT !.at = "final"],
                [turn EXCEPT !.at = "final",
                   !.mediated = IF @ = "some" THEN "all" ELSE @]}
  /\ UNCHANGED <<leg, filler, probe, queue, frames>>

\* (faulty) only relayed tokens count as spoken
StreamedRelayed == turn.relayed

Streamed == turn.relayed \/ turn.mediated # "no"

\* The personality makes the answer at once, not as a stream.
Blocking == turn.personality /\ turn.mediated = "no"

\* (faulty) a reminder is left out of an answer that was streamed
TellsBlocking(told) ==
  IF probe.text /\ ~turn.failed /\ turn.mediated = "no"
  THEN Blocking \/ told ELSE ~told

\* The answer tells a reminder, woven in or appended, unless the mediation
\* broke off.  The blocking mediation leaves it out where the agent said
\* nothing, and where its own rewriting comes back empty.
Tells(told) ==
  IF probe.text /\ ~turn.failed /\ turn.mediated # "some"
  THEN IF Blocking THEN told => turn.speech \/ turn.recovered ELSE told
  ELSE ~told

AnswerSingle ==
  /\ At("final")
  /\ \E told \in {t \in BOOLEAN : Tells(t)} :
       Yield(IF Streamed THEN "done" ELSE "answer",
             [turn EXCEPT !.at = "ended", !.told = told])
  /\ UNCHANGED <<leg, filler, probe, queue>>

-----------------------------------------------------------------------------
(* The handler of the connection                                           *)

FrameSent ==
  /\ turn.sending /\ turn' = [turn EXCEPT !.sending = FALSE]
  /\ UNCHANGED <<leg, filler, probe, queue, frames>>

\* (faulty) a closing frame is sent whenever the stream has ended
CloseAlways ==
  /\ At("ended")
  /\ turn' = [turn EXCEPT !.at = "over"]
  /\ frames' = Append(frames, "done")
  /\ UNCHANGED <<leg, filler, probe, queue>>

\* A stream without a last frame gets one from the handler.
Close ==
  /\ At("ended")
  /\ turn' = [turn EXCEPT !.at = "over"]
  /\ frames' = IF Answered THEN frames ELSE Append(frames, "done")
  /\ UNCHANGED <<leg, filler, probe, queue>>

Raised == [turn EXCEPT !.at = "ended", !.raised = TRUE]

\* Something in the turn raises, other than an agent's leg, which is all
\* that can while legs run: the reader of a stream is cancelled on the way
\* out, the probe is not.
TurnRaises ==
  /\ turn.at \notin {"ended", "over"} /\ ~turn.sending
  /\ turn.at = "legs" => \A l \in Legs : ~Running(leg[l])
  /\ turn' = Raised
  /\ leg' = AllUnwound /\ filler' = Stopped(filler) /\ queue' = <<>>
  /\ UNCHANGED <<probe, frames>>

\* A leg of a sequential send raises something else than a timeout or the
\* error of its agent, before or after its agent ran.  That ends the turn,
\* but gather neither stops the other content legs nor waits for them.
LegRaises(l) ==
  /\ turn.at = "legs" /\ turn.kind = "send" /\ ~turn.sending
  /\ Running(leg[l]) /\ leg[l].agent \in {"thinking", "gone"}
  /\ turn' = Raised
  /\ leg' = [leg EXCEPT ![l] = Unwound(@)]
  /\ filler' = Stopped(filler)
  /\ UNCHANGED <<probe, queue, frames>>

\* The handler is cancelled while the turn waits (server-sent events); the
\* probe is cancelled with it only if the turn waits for the probe.
Cancel ==
  /\ turn.at # "over" /\ ~turn.sending
  /\ turn' = [turn EXCEPT !.at = "over", !.left = "cancelled"]
  /\ leg' = Awaited /\ filler' = Stopped(filler) /\ queue' = <<>>
  /\ probe' = IF turn.at \in {"item", "finish"} THEN Dropped ELSE probe
  /\ UNCHANGED frames

\* A frame cannot be sent.  The handler closes the dispatcher's stream, but
\* the transport and the pipeline iterate over the turn without closing it:
\* what the turn left running runs until the event loop finalizes it.
SendFails ==
  /\ turn.sending
  /\ turn' = [turn EXCEPT !.at = "over", !.left = "dropped",
                          !.sending = FALSE]
  /\ UNCHANGED <<leg, filler, probe, queue, frames>>

Loose ==
  \/ filler = "running"
  \/ \E l \in Legs : Running(leg[l])

Finalizer ==
  /\ turn.left = "dropped" /\ Loose
  /\ leg' = AllUnwound /\ filler' = Stopped(filler) /\ queue' = <<>>
  /\ UNCHANGED <<turn, probe, frames>>

-----------------------------------------------------------------------------
\* What goes on by itself: the steps of the turn and of its handler, its
\* deadlines, and the calls that have deadlines of their own.
Progress ==
  \/ Exit \/ \E kind \in {"multi", "send"} : RouteSeveral(kind)
  \/ \E slow \in BOOLEAN : StartLegs(slow) \/ RouteSingle(slow)
  \/ StartSender \/ LegsEnd \/ AnswerLegs
  \/ ThresholdPasses \/ PushFiller \/ NoFiller
  \/ TakeItem \/ ProcessItem \/ StreamExpires
  \/ AnswerDirective \/ Settle \/ Recover \/ RecoveryEnds
  \/ Finish \/ Mediate \/ MediationEnds \/ AnswerSingle
  \/ FrameSent \/ Close \/ Finalizer \/ ProbeEnds
  \/ \E l \in Legs : Expires(l) \/ FallbackEnds(l)

Next ==
  \/ Progress \/ StartFiller \/ FillerEnds
  \/ \E l \in Legs : Agent(l)
  \/ TurnRaises \/ Cancel \/ SendFails
  \/ \E l \in Legs : LegRaises(l)

\* Agents, fillers and Home Assistant may hang for ever.
Spec == Init /\ [][Next]_vars /\ WF_vars(Progress)

-----------------------------------------------------------------------------
(* Properties                                                              *)

\* action_marker.py's promise: a task is not given to the fallback agent
\* once the command of the first agent may run in Home Assistant, not even
\* if it was cancelled on its way there, and a command that goes over both
\* connections arrives at most once.
CommandOnce ==
  \A l \in Legs :
    /\ leg[l].out + leg[l].runs <= 1
    /\ leg[l].retried => leg[l].out + leg[l].runs = 0

\* A content leg of a sequential send whose turn another leg made raise.
Abandoned(l) == turn.kind = "send" /\ turn.raised /\ l # Sender

\* No command leaves for Home Assistant after the turn gave its answer,
\* however that came about, by a deadline, an error or the fallback agent:
\* but for a content leg whose turn another leg made raise.  The message of
\* the send-agent never leaves late.
NoCommandAfterAnswer ==
  [][Answered =>
       \A l \in Legs : leg'[l].out <= leg[l].out \/ Abandoned(l)]_vars

\* The client gets one last frame with nothing after it, and a turn that
\* nobody left ends with one: the bridge reuses the socket for the next turn
\* and reads until it sees it.
OneLastFrame ==
  /\ \A i \in DOMAIN frames : frames[i] \in Terminal => i = Len(frames)
  /\ (turn.at = "over" /\ turn.left = "no") => Answered

Spoke(f) == \E i \in DOMAIN frames : frames[i] = f

\* The answer is spoken once: as tokens or in the last frame, never in both,
\* and in one of them unless the turn raised, was a directive, or sent no
\* frame before it raised.
SpokenOnce ==
  /\ ~(Spoke("token") /\ Spoke("answer"))
  /\ (turn.at = "over" /\ turn.left = "no" /\ ~turn.raised
        /\ ~turn.directive) => Spoke("token") \/ Spoke("answer")

\* A reminder that was marked as fired, and so never fires again, is told in
\* the answer of its turn, if the turn succeeds, but for an answer that the
\* blocking mediation of a personality made.  (Its docstring, mediation.py
\* 423-427, has the reminder woven in or appended; lines 439-440 and 479 return
\* without it.)
ReminderTold ==
  (turn.at = "over" /\ turn.left = "no" /\ probe.text /\ ~turn.told) =>
    \/ turn.failed \/ turn.directive \/ turn.raised
    \/ turn.mediated = "some" \/ Blocking

\* Nothing a turn started outlives it: no agent, no fallback, no filler.
\* Left are the content legs of a turn that another leg made raise, and the
\* turn whose client was found gone at a frame, whose generators are left to
\* the finalizer of the event loop.  (A probe may outlive a turn that
\* raised: all it does by then is to read the calendars and to mark.)
NothingOutlivesAnswer ==
  (turn.at = "over" /\ turn.left # "dropped") =>
    /\ filler # "running"
    /\ \A l \in Legs : Running(leg[l]) => Abandoned(l)

\* Every turn ends and stops what it started, though agents, fillers and
\* Home Assistant may never answer.
EveryTurnEnds == <>(turn.at = "over" /\ ~Loose)
=============================================================================
