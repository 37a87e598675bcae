-------------------------- MODULE StreamTurnProofs --------------------------
(* The safety of a streamed turn, for any set of agents and any number of  *)
(* chunks: what an agent may still do to Home Assistant, what is running   *)
(* at each stage of the turn, and which frames the client has got.         *)
EXTENDS StreamTurn, SequenceTheorems, TLAPS

Active == {"thinking", "posting", "unsent"}
Underway == {"running", "fallback"}

\* One agent: what it has sent, and that only a running one acts.
LegOK(g) ==
  /\ g.called => g.started
  /\ ~g.called => g.out = 0 /\ g.runs = 0
  /\ g.agent = "unsent" => g.out = 0 /\ g.runs = 0
  /\ g.agent \in {"posting", "unsent"} => g.called
  /\ g.agent \in Active => g.at = "running" /\ ~g.retried
  /\ g.retried => g.out = 0 /\ g.runs = 0
  /\ g.out + g.runs <= 1
LegsOK == \A l \in Legs : LegOK(leg[l])

Idle(l) == leg[l].at = "idle"
Quiet(l) == leg[l].at \notin Underway
AllQuiet == \A l \in Legs : Quiet(l)
Settled == \A l \in Legs : Quiet(l) \/ Abandoned(l)

\* The turn is over, but not because a frame could not be sent.
Closed == turn.at = "over" /\ turn.left # "dropped"

\* Which agents are at work at which stage.
Stage ==
  /\ turn.at = "prelude" => turn.kind = "none"
  /\ turn.at \in {"status", "legs", "answered"} =>
     turn.kind \in {"multi", "send"}
  /\ turn.at \in {"stream", "item", "settle", "fallback", "finish", "mediate",
                  "final"} => turn.kind = "single"
  /\ turn.at # "over" => turn.left = "no"
  /\ turn.kind = "none" \/ turn.at = "status" => \A l \in Legs : Idle(l)
  /\ turn.kind = "single" => \A l \in Legs \ {Lead} : Idle(l)
  /\ turn.kind = "send" /\ turn.at = "legs" /\ ~Idle(Sender) =>
       ContentDone /\ ContentGood

\* The end of an agent's stream is in the queue only when it has ended.
Ends ==
  /\ turn.at \in {"stream", "item"} =>
       \A i \in 1..Len(queue) : queue[i] = "end" => Quiet(Lead)
  /\ turn.at \in {"settle", "finish", "mediate", "final"} => Quiet(Lead)
  /\ turn.at \in {"stream", "item"} => leg[Lead].at # "fallback"
  /\ turn.at = "prelude" => queue = <<>>

\* When the answer is out, or the handler is done, nothing is at work but
\* the legs that a raising one left behind.
Done ==
  /\ turn.at \in {"answered", "ended"} \/ Closed \/ Answered => Settled
  /\ turn.at \in {"item", "settle", "fallback", "finish", "mediate", "final",
                  "ended"} \/ Closed => filler # "running"

\* What the frames say of the turn, and the turn of the frames.
Spoken ==
  /\ Spoke("token") <=> turn.relayed \/ turn.mediated # "no"
  /\ turn.relayed \/ turn.mediated # "no" => turn.kind = "single"
  /\ Answered => turn.at \in {"ended", "over"}
  /\ turn.at = "ended" \/ (turn.at = "over" /\ turn.left = "no") =>
       turn.raised \/ turn.directive \/ Spoke("token") \/ Spoke("answer")
  /\ OneLastFrame
  /\ ~(Spoke("token") /\ Spoke("answer"))

\* The probe for a reminder, and what the answer tells of it.
Reminder ==
  /\ probe.at \in {"none", "running"} => ~probe.text
  /\ turn.kind # "single" => probe.at = "none"
  /\ turn.at \in {"mediate", "final"} => probe.at # "running"
  /\ turn.at = "ended" \/ (turn.at = "over" /\ turn.left = "no") =>
       \/ turn.raised \/ turn.directive
       \/ /\ probe.at # "running"
          /\ probe.text /\ ~turn.told =>
               turn.failed \/ turn.mediated = "some" \/ Blocking

IInv == TypeOK /\ LegsOK /\ Stage /\ Ends /\ Done /\ Spoken /\ Reminder

-----------------------------------------------------------------------------
(* One agent.                                                              *)

LEMMA NewLegIs ==
  /\ NewLeg \in Leg /\ LegOK(NewLeg) /\ NewLeg.at = "idle"
  /\ NewLeg.agent = "none"
  BY TurnAssumption DEF NewLeg, Leg, LegOK, Active

LEMMA DispatchedIs ==
  ASSUME NEW l
  PROVE  /\ Dispatched(l) \in Leg /\ LegOK(Dispatched(l))
         /\ Dispatched(l).at = "running" /\ Dispatched(l).out = 0
  <1> DEFINE k == [NewLeg EXCEPT !.at = "running", !.agent = "thinking"]
  <1>1. NewLeg \in Leg /\ NewLeg.called = FALSE /\ NewLeg.out = 0
        /\ NewLeg.runs = 0 /\ NewLeg.retried = FALSE
    BY NewLegIs DEF NewLeg
  <1> HIDE DEF NewLeg
  <1>2. k \in Leg /\ k.called = FALSE /\ k.out = 0 /\ k.runs = 0
        /\ k.retried = FALSE /\ k.at = "running" /\ k.agent = "thinking"
    BY <1>1 DEF Leg
  <1>3. Dispatched(l) = k
    BY DEF Dispatched
  <1> HIDE DEF k
  <1> QED BY <1>2, <1>3 DEF LegOK, Active

LEMMA UnwoundIs ==
  ASSUME NEW g \in Leg, LegOK(g)
  PROVE  /\ Unwound(g) \in Leg /\ LegOK(Unwound(g))
         /\ Unwound(g).at \notin Underway
         /\ Unwound(g).at = "idle" <=> g.at = "idle"
         /\ Unwound(g).at = "done" <=> g.at \in {"running", "fallback", "done"}
         /\ g.at \in {"running", "fallback"} => Unwound(g).agent = "gone"
         /\ Unwound(g).ok = g.ok /\ Unwound(g).out = g.out
         /\ Unwound(g).retried = g.retried
  <1>1. CASE g.at \in {"running", "fallback"}
    <2> DEFINE k == [g EXCEPT !.at = "done", !.agent = "gone"]
    <2>1. Unwound(g) = k
      BY <1>1 DEF Unwound, Running
    <2>2. k \in Leg
      BY DEF Leg
    <2>3. /\ k.at = "done" /\ k.agent = "gone" /\ k.called = g.called
          /\ k.started = g.started /\ k.out = g.out /\ k.runs = g.runs
          /\ k.retried = g.retried /\ k.ok = g.ok
      BY DEF Leg
    <2> HIDE DEF k
    <2> QED BY <2>1, <2>2, <2>3, <1>1 DEF LegOK, Active, Underway
  <1>2. CASE g.at \notin {"running", "fallback"}
    <2>1. Unwound(g) = g
      BY <1>2 DEF Unwound, Running
    <2>2. g.at \in {"idle", "done"}
      BY <1>2 DEF Leg
    <2> QED BY <2>1, <2>2 DEF Underway
  <1> QED BY <1>1, <1>2

LEMMA RetriesAre ==
  ASSUME NEW g \in Leg, LegOK(g), NEW h \in Retries(g)
  PROVE  /\ h \in Leg /\ LegOK(h) /\ h.agent \notin Active
         /\ h.at # "running"
         /\ g.at # "idle" => h.at # "idle"
         /\ h.at = "fallback" => h.retried
         /\ ~h.retried => h.at \notin Underway
         /\ h.out = g.out
         /\ h.at \in Underway => h.at = "fallback"
         /\ h = Unwound(g) \/ h.at = "fallback"
  <1> DEFINE u == Unwound(g)
  <1>1. /\ u \in Leg /\ LegOK(u) /\ u.at \notin Underway /\ u.out = g.out
        /\ u.at = "idle" <=> g.at = "idle"
        /\ u.retried = g.retried
    BY UnwoundIs
  <1>2. u.agent \notin Active
    BY <1>1 DEF LegOK, Underway
  <1>3. CASE h = u
    BY <1>1, <1>2, <1>3 DEF Underway
  <1>4. CASE h # u
    <2> DEFINE k == [u EXCEPT !.at = "fallback", !.retried = TRUE]
    <2>1. h = k /\ ~g.started
      BY <1>4 DEF Retries
    <2>2. u.started = g.started /\ u.called = g.called /\ u.runs = g.runs
      BY DEF Unwound, Running, Leg
    <2>3. g.out = 0 /\ g.runs = 0 /\ ~g.called
      BY <2>1 DEF LegOK
    <2> HIDE DEF u
    <2>4. k \in Leg
      BY <1>1 DEF Leg
    <2>5. /\ k.at = "fallback" /\ k.retried = TRUE /\ k.agent = u.agent
          /\ k.called = u.called /\ k.started = u.started /\ k.out = u.out
          /\ k.runs = u.runs
      BY <1>1 DEF Leg
    <2> HIDE DEF k
    <2> QED BY <2>1, <2>2, <2>3, <2>4, <2>5, <1>1, <1>2
      DEF LegOK, Active, Underway
  <1> QED BY <1>3, <1>4

LEMMA CallIs ==
  ASSUME NEW l \in Legs, Call(l), leg \in [Legs -> Leg], LegOK(leg[l])
  PROVE  \E h \in Leg : /\ leg' = [leg EXCEPT ![l] = h] /\ LegOK(h)
                        /\ h.at = "running" /\ h.ok = leg[l].ok
                        /\ leg[l].at = "running"
  <1> DEFINE g == leg[l]
             k == [g EXCEPT !.called = TRUE, !.started = TRUE]
             m == [k EXCEPT !.out = k.out + 1, !.agent = "posting"]
             n == [k EXCEPT !.agent = "unsent"]
  <1>1. g \in Leg /\ g.agent = "thinking" /\ g.called = FALSE
        /\ g.at = "running"
        /\ g.retried = FALSE /\ g.out = 0 /\ g.runs = 0
    <2>1. g \in Leg
      OBVIOUS
    <2> QED BY <2>1 DEF Call, LegOK, Active, Leg
  <1>2. PICK reached \in BOOLEAN : leg' = [leg EXCEPT ![l] = Sent(k, reached)]
    BY DEF Call
  <1> HIDE DEF g
  <1>3. /\ k \in Leg /\ k.called = TRUE /\ k.started = TRUE /\ k.at = "running"
        /\ k.retried = FALSE /\ k.out = 0 /\ k.runs = 0 /\ k.ok = g.ok
    BY <1>1 DEF Leg
  <1> HIDE DEF k
  <1>4. /\ m \in Leg /\ LegOK(m) /\ m.at = "running" /\ m.ok = g.ok
    <2>1. /\ m \in Leg /\ m.called = TRUE /\ m.started = TRUE
          /\ m.at = "running"
          /\ m.agent = "posting"
          /\ m.retried = FALSE /\ m.out = 1 /\ m.runs = 0 /\ m.ok = g.ok
      <3>1. k.out + 1 = 1 /\ 1 \in 0..1
        BY <1>3
      <3> QED BY <1>3, <3>1 DEF Leg
    <2> HIDE DEF m
    <2> QED BY <2>1 DEF LegOK, Active
  <1>5. /\ n \in Leg /\ LegOK(n) /\ n.at = "running" /\ n.ok = g.ok
    <2>1. /\ n \in Leg /\ n.called = TRUE /\ n.started = TRUE
          /\ n.at = "running"
          /\ n.agent = "unsent"
          /\ n.retried = FALSE /\ n.out = 0 /\ n.runs = 0 /\ n.ok = g.ok
      BY <1>3 DEF Leg
    <2> HIDE DEF n
    <2> QED BY <2>1 DEF LegOK, Active
  <1>6. Sent(k, reached) = m \/ Sent(k, reached) = n
    BY DEF Sent
  <1> HIDE DEF m, n
  <1> QED BY <1>1, <1>2, <1>4, <1>5, <1>6 DEF g

LEMMA ResendIs ==
  ASSUME NEW l \in Legs, Resend(l), leg \in [Legs -> Leg], LegOK(leg[l])
  PROVE  \E h \in Leg : /\ leg' = [leg EXCEPT ![l] = h] /\ LegOK(h)
                        /\ h.at = "running" /\ h.ok = leg[l].ok
                        /\ leg[l].at = "running"
  <1> DEFINE g == leg[l]
             m == [g EXCEPT !.out = g.out + 1, !.agent = "posting"]
  <1>1. g \in Leg /\ g.agent = "unsent" /\ g.at = "running"
        /\ g.retried = FALSE /\ g.out = 0 /\ g.runs = 0 /\ g.called = TRUE
        /\ g.started = TRUE
    <2>1. g \in Leg
      OBVIOUS
    <2> QED BY <2>1 DEF Resend, LegOK, Active, Leg
  <1>2. leg' = [leg EXCEPT ![l] = m]
    BY DEF Resend, Sent
  <1> HIDE DEF g
  <1>4. /\ m \in Leg /\ LegOK(m) /\ m.at = "running" /\ m.ok = g.ok
    <2>1. g.out + 1 = 1 /\ 1 \in 0..1
      BY <1>1
    <2>2. /\ m \in Leg /\ m.called = TRUE /\ m.started = TRUE
          /\ m.at = "running"
          /\ m.agent = "posting"
          /\ m.retried = FALSE /\ m.out = 1 /\ m.runs = 0 /\ m.ok = g.ok
      BY <1>1, <2>1 DEF Leg
    <2> HIDE DEF m
    <2> QED BY <2>2 DEF LegOK, Active
  <1> QED BY <1>1, <1>2, <1>4 DEF g

LEMMA CallEndsIs ==
  ASSUME NEW l \in Legs, CallEnds(l), leg \in [Legs -> Leg], LegOK(leg[l])
  PROVE  \E h \in Leg : /\ leg' = [leg EXCEPT ![l] = h] /\ LegOK(h)
                        /\ h.at = "running" /\ h.ok = leg[l].ok
                        /\ leg[l].at = "running" /\ h.out = leg[l].out
  <1> DEFINE g == leg[l]
             m == [g EXCEPT !.agent = "thinking"]
  <1>1. g \in Leg /\ g.at = "running" /\ g.retried = FALSE /\ g.called = TRUE
    <2>1. g \in Leg
      OBVIOUS
    <2> QED BY <2>1 DEF CallEnds, LegOK, Active, Leg
  <1>2. leg' = [leg EXCEPT ![l] = m]
    BY DEF CallEnds
  <1>3. LegOK(g)
    OBVIOUS
  <1> HIDE DEF g
  <1>4. /\ m \in Leg /\ m.called = g.called /\ m.started = g.started
        /\ m.at = "running" /\ m.agent = "thinking" /\ m.retried = FALSE
        /\ m.out = g.out /\ m.runs = g.runs /\ m.ok = g.ok
    BY <1>1 DEF Leg
  <1> HIDE DEF m
  <1>5. LegOK(m)
    BY <1>1, <1>3, <1>4 DEF LegOK, Active
  <1> QED BY <1>1, <1>2, <1>4, <1>5 DEF g

LEMMA HomeAssistantRunsIs ==
  ASSUME NEW l \in Legs, HomeAssistantRuns(l), leg \in [Legs -> Leg],
         LegOK(leg[l])
  PROVE  \E h \in Leg : /\ leg' = [leg EXCEPT ![l] = h] /\ LegOK(h)
                        /\ h.at = leg[l].at /\ h.ok = leg[l].ok
                        /\ h.agent = leg[l].agent /\ h.out <= leg[l].out
  <1> DEFINE g == leg[l]
             m == [g EXCEPT !.out = g.out - 1, !.runs = g.runs + 1]
  <1>1. /\ g \in Leg /\ g.out = 1 /\ g.runs = 0 /\ g.retried = FALSE
        /\ g.called = TRUE /\ g.agent # "unsent"
    <2>1. g \in Leg /\ g.out > 0 /\ LegOK(g)
      BY DEF HomeAssistantRuns
    <2> HIDE DEF g
    <2>2. g.out \in 0..1 /\ g.runs \in 0..1 /\ g.called \in BOOLEAN
          /\ g.retried \in BOOLEAN
      BY <2>1 DEF Leg
    <2> QED BY <2>1, <2>2 DEF LegOK
  <1>2. leg' = [leg EXCEPT ![l] = m]
    BY DEF HomeAssistantRuns
  <1>3. LegOK(g)
    OBVIOUS
  <1> HIDE DEF g
  <1>4. /\ m \in Leg /\ m.called = TRUE /\ m.started = g.started
        /\ m.at = g.at /\ m.agent = g.agent /\ m.retried = FALSE
        /\ m.out = 0 /\ m.runs = 1 /\ m.ok = g.ok
    <2>1. g.out - 1 = 0 /\ g.runs + 1 = 1 /\ 0 \in 0..1 /\ 1 \in 0..1
      BY <1>1
    <2> QED BY <1>1, <2>1 DEF Leg
  <1> HIDE DEF m
  <1>5. LegOK(m)
    BY <1>1, <1>3, <1>4 DEF LegOK, Active
  <1>6. m.out <= g.out
    BY <1>1, <1>4
  <1> QED BY <1>1, <1>2, <1>4, <1>5, <1>6 DEF g

\* What a step of an agent, of Home Assistant or of a deadline does to one
\* agent, as the rest of the turn sees it.
LegMoves(l) ==
  \E h \in Leg :
    /\ leg' = [leg EXCEPT ![l] = h] /\ LegOK(h)
    /\ h.at = "idle" <=> leg[l].at = "idle"
    /\ leg[l].at \notin Underway => h.at = leg[l].at /\ h.ok = leg[l].ok
    /\ h.at = "fallback" => leg[l].at = "fallback" \/ turn.kind # "single"
    /\ h.out <= leg[l].out \/ leg[l].agent \in Active

LEMMA LegNumbers ==
  ASSUME NEW g \in Leg
  PROVE  g.out \in Nat /\ g.out <= g.out
  BY DEF Leg

LEMMA AgentMoves ==
  ASSUME NEW l \in Legs, leg \in [Legs -> Leg], LegOK(leg[l]),
         \/ Call(l) \/ Resend(l) \/ CallEnds(l) \/ HomeAssistantRuns(l)
         \/ Yields(l) \/ (\E last \in Seq(Chunks) : StreamEnds(l, last))
         \/ Returns(l) \/ Raises(l) \/ Expires(l) \/ FallbackEnds(l)
  PROVE  LegMoves(l) /\ UNCHANGED <<turn, filler, probe, frames>>
  <1> DEFINE g == leg[l]
  <1>g. g \in Leg /\ LegOK(g) /\ g.out <= g.out
    BY LegNumbers
  <1>a. g.agent \in Active => g.at = "running"
    BY <1>g DEF LegOK
  <1>1. CASE Call(l)
    <2>1. g.agent \in Active
      BY <1>1 DEF Call, Active
    <2> QED BY <1>1, <2>1, CallIs DEF LegMoves, Underway, Call
  <1>2. CASE Resend(l)
    <2>1. g.agent \in Active
      BY <1>2 DEF Resend, Active
    <2> QED BY <1>2, <2>1, ResendIs DEF LegMoves, Underway, Resend
  <1>3. CASE CallEnds(l)
    BY <1>3, <1>g, CallEndsIs DEF LegMoves, Underway, CallEnds
  <1>4. CASE HomeAssistantRuns(l)
    BY <1>4, HomeAssistantRunsIs DEF LegMoves, HomeAssistantRuns
  <1>5. CASE Yields(l)
    <2> DEFINE k == [g EXCEPT !.chunks = g.chunks + 1]
    <2>1. leg' = [leg EXCEPT ![l] = k] /\ g.chunks < MaxChunks
          /\ g.agent = "thinking"
      BY <1>5 DEF Yields
    <2>2. g.at = "running"
      BY <2>1, <1>a DEF Active
    <2>3. g.chunks + 1 \in 0..MaxChunks
      BY <2>1, <1>g, TurnAssumption DEF Leg
    <2> HIDE DEF g
    <2>4. /\ k \in Leg /\ k.called = g.called /\ k.started = g.started
          /\ k.at = g.at /\ k.agent = g.agent /\ k.retried = g.retried
          /\ k.out = g.out /\ k.runs = g.runs /\ k.ok = g.ok
      BY <1>g, <2>3 DEF Leg
    <2> HIDE DEF k
    <2>5. LegOK(k)
      BY <1>g, <2>4 DEF LegOK
    <2>6. k.out <= g.out
      BY <2>4, <1>g
    <2> QED BY <1>5, <2>1, <2>2, <2>4, <2>5, <2>6 DEF LegMoves, Underway,
        Yields, g
  <1>u. ASSUME leg' = [leg EXCEPT ![l] = Unwound(g)] PROVE LegMoves(l)
    <2>1. g.at \notin Underway => Unwound(g) = g
      BY DEF Unwound, Running, Underway
    <2>2. Unwound(g).at # "fallback"
      BY <1>g, UnwoundIs DEF Underway
    <2>3. /\ Unwound(g) \in Leg /\ LegOK(Unwound(g)) /\ Unwound(g).out = g.out
          /\ Unwound(g).at = "idle" <=> g.at = "idle"
      BY <1>g, UnwoundIs
    <2>4. Unwound(g).out <= g.out
      BY <2>3, <1>g
    <2> QED BY <1>u, <2>1, <2>2, <2>3, <2>4 DEF LegMoves
  <1>6. ASSUME NEW last \in Seq(Chunks), StreamEnds(l, last)
        PROVE  LegMoves(l) /\ UNCHANGED <<turn, filler, probe, frames>>
    BY <1>6, <1>u DEF StreamEnds
  <1>7. CASE Returns(l)
    <2> DEFINE u == Unwound(g)
    <2>1. PICK ok \in BOOLEAN : leg' = [leg EXCEPT ![l] = [u EXCEPT !.ok = ok]]
      BY <1>7 DEF Returns
    <2> DEFINE k == [u EXCEPT !.ok = ok]
    <2>2. g.at = "running"
      BY <1>7, <1>a DEF Returns, Active
    <2>3. /\ u \in Leg /\ LegOK(u) /\ u.out = g.out
          /\ u.at = "idle" <=> g.at = "idle"
          /\ u.at # "fallback"
      BY <1>g, UnwoundIs DEF Underway
    <2> HIDE DEF u
    <2>4. /\ k \in Leg /\ k.called = u.called /\ k.started = u.started
          /\ k.at = u.at /\ k.agent = u.agent /\ k.retried = u.retried
          /\ k.out = u.out /\ k.runs = u.runs
      BY <2>3 DEF Leg
    <2>5. leg' = [leg EXCEPT ![l] = k]
      BY <2>1
    <2> HIDE DEF k
    <2>6. LegOK(k)
      BY <2>3, <2>4 DEF LegOK
    <2>7. k.out <= g.out
      BY <2>3, <2>4, <1>g
    <2> QED BY <1>7, <2>5, <2>2, <2>3, <2>4, <2>6, <2>7 DEF LegMoves, Underway,
        Returns
  <1>r. ASSUME NEW h \in Retries(g), leg' = [leg EXCEPT ![l] = h],
               g.at = "running",
               turn.kind # "single"
        PROVE  LegMoves(l)
    <2>1. /\ h \in Leg /\ LegOK(h) /\ h.out = g.out /\ h.at # "idle"
      BY <1>r, <1>g, RetriesAre
    <2>2. h.out <= g.out
      BY <2>1, <1>g
    <2> QED BY <1>r, <2>1, <2>2 DEF LegMoves, Underway
  <1>8. CASE Raises(l)
    BY <1>8, <1>r DEF Raises, Unary
  <1>9. CASE Expires(l)
    BY <1>9, <1>r DEF Expires, Unary
  <1>10. CASE FallbackEnds(l)
    <2>1. PICK ok \in BOOLEAN : leg' = [leg EXCEPT ![l].at = "done",
          ![l].ok = ok]
      BY <1>10 DEF FallbackEnds
    <2> DEFINE k == [g EXCEPT !.at = "done", !.ok = ok]
    <2>2. leg' = [leg EXCEPT ![l] = k] /\ g.at = "fallback"
      BY <2>1, <1>10 DEF FallbackEnds
    <2> HIDE DEF g
    <2>3. /\ k \in Leg /\ k.called = g.called /\ k.started = g.started
          /\ k.at = "done" /\ k.agent = g.agent /\ k.retried = g.retried
          /\ k.out = g.out /\ k.runs = g.runs
      BY <1>g DEF Leg
    <2> HIDE DEF k
    <2>4. LegOK(k)
      BY <2>2, <2>3, <1>g DEF LegOK
    <2>5. k.out <= g.out
      BY <2>3, <1>g
    <2> QED BY <1>10, <2>2, <2>3, <2>4, <2>5 DEF LegMoves, Underway,
        FallbackEnds, g
  <1> QED BY <1>1, <1>2, <1>3, <1>4, <1>5, <1>6, <1>7, <1>8, <1>9, <1>10

LEMMA MovedLeg ==
  ASSUME leg \in [Legs -> Leg], NEW l \in Legs, LegMoves(l), LegsOK
  PROVE  /\ leg' \in [Legs -> Leg] /\ LegsOK'
         /\ \A k \in Legs : /\ Idle(k)' <=> Idle(k)
                            /\ Quiet(k) => /\ Quiet(k)'
                                           /\ leg'[k].at = leg[k].at
                                           /\ leg'[k].ok = leg[k].ok
                            /\ leg'[k].at = "fallback" =>
                                 leg[k].at = "fallback" \/ turn.kind # "single"
  <1>1. PICK h \in Leg :
    /\ leg' = [leg EXCEPT ![l] = h] /\ LegOK(h)
    /\ h.at = "idle" <=> leg[l].at = "idle"
    /\ leg[l].at \notin Underway => h.at = leg[l].at /\ h.ok = leg[l].ok
    /\ h.at = "fallback" => leg[l].at = "fallback" \/ turn.kind # "single"
    BY DEF LegMoves
  <1>2. \A k \in Legs : leg'[k] = IF k = l THEN h ELSE leg[k]
    BY <1>1
  <1> QED BY <1>1, <1>2 DEF LegsOK, Idle, Quiet

LEMMA EndInQueue ==
  ASSUME queue \in Seq(Chunks), NEW c \in Chunks, NEW q, q = Append(queue, c)
  PROVE  /\ q \in Seq(Chunks)
         /\ c # "end" =>
              \A i \in 1..Len(q) : q[i] = "end" =>
                \E j \in 1..Len(queue) : queue[j] = "end"
  <1>1. /\ q \in Seq(Chunks) /\ Len(q) = Len(queue) + 1
        /\ \A i \in 1..Len(queue) : q[i] = queue[i]
        /\ q[Len(queue) + 1] = c
    BY AppendProperties
  <1>2. Len(queue) \in Nat
    BY LenProperties
  <1>3. \A i \in 1..Len(q) : i \in 1..Len(queue) \/ i = Len(queue) + 1
    BY <1>1, <1>2
  <1> QED BY <1>1, <1>3

\* A step of an agent, of Home Assistant, or of the deadline of an agent keeps
\* the invariant.
LEMMA AgentKeeps ==
  ASSUME IInv, NEW l \in Legs,
         \/ Call(l) \/ Resend(l) \/ CallEnds(l) \/ HomeAssistantRuns(l)
         \/ Yields(l) \/ (\E last \in Seq(Chunks) : StreamEnds(l, last))
         \/ Returns(l) \/ Raises(l) \/ Expires(l) \/ FallbackEnds(l)
  PROVE  IInv'
  <1>1. LegMoves(l) /\ UNCHANGED <<turn, filler, probe, frames>>
    BY AgentMoves DEF IInv, TypeOK, LegsOK
  <1>2. /\ leg' \in [Legs -> Leg] /\ LegsOK'
        /\ \A k \in Legs : /\ Idle(k)' <=> Idle(k)
                           /\ Quiet(k) => /\ Quiet(k)'
                                          /\ leg'[k].at = leg[k].at
                                          /\ leg'[k].ok = leg[k].ok
                           /\ leg'[k].at = "fallback" =>
                                leg[k].at = "fallback" \/ turn.kind # "single"
    BY <1>1, MovedLeg DEF IInv, TypeOK
  <1>3. /\ queue' \in Seq(Chunks)
        /\ turn.at \in {"stream", "item"} =>
             \A i \in 1..Len(queue') : queue'[i] = "end" => Quiet(Lead)'
        /\ turn.at = "prelude" => queue' = <<>>
    <2>0. turn.kind = "single" => turn.at # "prelude"
      BY DEF IInv, Stage
    <2>1. CASE UNCHANGED queue
      BY <2>1, <1>2, TurnAssumption DEF IInv, TypeOK, Ends
    <2>2. CASE Yields(l)
      <3>1. queue' = Append(queue, "token") /\ "token" \in Chunks
            /\ queue \in Seq(Chunks)
        BY <2>2 DEF Yields, Chunks, IInv, TypeOK
      <3>2. /\ queue' \in Seq(Chunks)
            /\ \A i \in 1..Len(queue') : queue'[i] = "end" =>
                 \E j \in 1..Len(queue) : queue[j] = "end"
        BY <3>1, EndInQueue
      <3> QED BY <3>2, <1>2, <2>0, <2>2, TurnAssumption DEF IInv, Ends, Yields
    <2>3. ASSUME NEW last \in Seq(Chunks), StreamEnds(l, last)
          PROVE  /\ queue' \in Seq(Chunks)
                 /\ turn.at \in {"stream", "item"} => Quiet(Lead)'
                 /\ turn.at # "prelude"
      <3>1. queue' = queue \o last \o <<"end">> /\ turn.kind = "single"
            /\ leg[l].agent = "thinking"
            /\ leg' = [leg EXCEPT ![l] = Unwound(leg[l])]
        BY <2>3 DEF StreamEnds
      <3>2. queue \o last \in Seq(Chunks) /\ <<"end">> \in Seq(Chunks)
        BY ConcatProperties DEF IInv, TypeOK, Chunks
      <3>3. queue' \in Seq(Chunks)
        BY <3>1, <3>2, ConcatProperties
      <3>4. l = Lead
        BY <3>1, TurnAssumption DEF IInv, LegsOK, LegOK, Active, Stage, Idle
      <3>5. Quiet(Lead)'
        BY <3>1, <3>4, UnwoundIs, TurnAssumption DEF IInv, TypeOK, LegsOK, Quiet
      <3> QED BY <3>1, <3>3, <3>5, <2>0
    <2>4. UNCHANGED queue \/ Yields(l)
          \/ \E last \in Seq(Chunks) : StreamEnds(l, last)
      BY DEF Call, Resend, CallEnds, HomeAssistantRuns, Returns, Raises,
         Expires,
             FallbackEnds
    <2> QED BY <2>1, <2>2, <2>3, <2>4
  <1>4. TypeOK'
    BY <1>1, <1>2, <1>3 DEF IInv, TypeOK
  <1>5. Stage'
    <2>1. \A k \in Legs : leg[k].at = "done" =>
            leg'[k].at = "done" /\ leg'[k].ok = leg[k].ok
      BY <1>2 DEF Quiet, Underway
    <2>2. ContentDone /\ ContentGood => (ContentDone /\ ContentGood)'
      BY <2>1 DEF ContentDone, ContentGood
    <2> QED BY <1>1, <1>2, <2>2, TurnAssumption DEF IInv, Stage
  <1>6. Ends'
    BY <1>1, <1>2, <1>3, TurnAssumption DEF IInv, Stage, Ends
  <1>7. Done'
    BY <1>1, <1>2 DEF IInv, Done, Closed, Answered, Settled, Abandoned
  <1>8. Spoken'
    BY <1>1 DEF IInv, Spoken, Spoke, Answered, OneLastFrame
  <1>9. Reminder'
    BY <1>1 DEF IInv, Reminder, Blocking
  <1> QED BY <1>2, <1>4, <1>5, <1>6, <1>7, <1>8, <1>9 DEF IInv

LEMMA FramesGrow ==
  ASSUME frames \in Seq(Frames), NEW f \in Frames, frames' = Append(frames, f)
  PROVE  /\ frames' \in Seq(Frames)
         /\ \A x : Spoke(x)' <=> Spoke(x) \/ x = f
         /\ Answered' <=> Answered \/ f \in Terminal
         /\ ~Answered =>
              \A i \in DOMAIN frames' : frames'[i] \in Terminal =>
              i = Len(frames')
  <1>1. /\ frames' \in Seq(Frames) /\ Len(frames') = Len(frames) + 1
        /\ \A i \in 1..Len(frames) : frames'[i] = frames[i]
        /\ frames'[Len(frames) + 1] = f
    BY AppendProperties
  <1>2. Len(frames) \in Nat /\ DOMAIN frames = 1..Len(frames)
        /\ DOMAIN frames' = 1..Len(frames')
    BY <1>1, LenProperties
  <1>3. \A i : i \in DOMAIN frames' <=> i \in DOMAIN frames \/ i = Len(frames')
    BY <1>1, <1>2
  <1>4. /\ \A i \in DOMAIN frames : frames'[i] = frames[i]
        /\ frames'[Len(frames')] = f
    BY <1>1, <1>2
  <1> QED BY <1>1, <1>3, <1>4 DEF Spoke, Answered

LEMMA AnsweredIs == Answered <=> Spoke("answer") \/ Spoke("done")
  BY DEF Answered, Spoke, Terminal

LEMMA StartFillerKeeps == ASSUME IInv, StartFiller PROVE IInv'
  <1>1. /\ UNCHANGED <<turn, leg, probe, queue, frames>> /\ filler' = "running"
        /\ turn.at = "prelude"
    BY DEF StartFiller, At
  <1>2. TypeOK' /\ LegsOK' /\ Stage' /\ Ends' /\ Spoken' /\ Reminder'
    BY <1>1 DEF IInv, TypeOK, LegsOK, Stage, Idle, ContentDone, ContentGood,
                Ends, Quiet, Spoken, Spoke, Answered, OneLastFrame, Reminder,
                Blocking
  <1>3. Done'
    BY <1>1 DEF IInv, Done, Closed, Answered, Settled, Abandoned, Quiet
  <1> QED BY <1>2, <1>3 DEF IInv

LEMMA FillerEndsKeeps == ASSUME IInv, FillerEnds PROVE IInv'
  <1>1. /\ UNCHANGED <<turn, leg, probe, queue, frames>>
        /\ filler' \in {"text", "failed"}
    BY DEF FillerEnds
  <1>2. TypeOK' /\ LegsOK' /\ Stage' /\ Ends' /\ Spoken' /\ Reminder'
    BY <1>1 DEF IInv, TypeOK, LegsOK, Stage, Idle, ContentDone, ContentGood,
                Ends, Quiet, Spoken, Spoke, Answered, OneLastFrame, Reminder,
                Blocking
  <1>3. Done'
    BY <1>1 DEF IInv, Done, Closed, Answered, Settled, Abandoned, Quiet
  <1> QED BY <1>2, <1>3 DEF IInv

LEMMA ProbeEndsKeeps == ASSUME IInv, ProbeEnds PROVE IInv'
  <1>1. /\ UNCHANGED <<turn, leg, filler, queue, frames>>
        /\ probe' \in [at : {"none", "running", "done", "cancelled"},
                       text : BOOLEAN, marked : BOOLEAN]
        /\ probe.at = "running" /\ probe'.at = "done"
    BY DEF ProbeEnds
  <1>2. TypeOK' /\ LegsOK' /\ Stage' /\ Ends' /\ Spoken' /\ Done'
    BY <1>1 DEF IInv, TypeOK, LegsOK, Stage, Idle, ContentDone, ContentGood,
                Ends, Quiet, Spoken, Spoke, Answered, OneLastFrame, Done,
                Closed, Settled, Abandoned
  <1>3. Reminder'
    BY <1>1 DEF IInv, Reminder, Stage
  <1> QED BY <1>2, <1>3 DEF IInv

-----------------------------------------------------------------------------
(* Steps of the turn.                                                      *)

LEMMA StoppedIs == Stopped(filler) # "running"
  BY DEF Stopped

LEMMA ExitKeeps == ASSUME IInv, Exit PROVE IInv'
  <1>1. /\ turn.at = "prelude" /\ turn.kind = "none" /\ turn.left = "no"
        /\ UNCHANGED <<leg, probe, queue>> /\ filler' = Stopped(filler)
        /\ frames' = Append(frames, "answer")
        /\ turn' = [turn EXCEPT !.at = "ended", !.sending = TRUE]
    BY DEF Exit, At, Yield, IInv, Stage
  <1>2. /\ turn' \in Turn /\ turn'.at = "ended" /\ turn'.kind = "none"
        /\ turn'.left = "no" /\ turn'.relayed = turn.relayed
        /\ turn'.mediated = turn.mediated /\ turn'.raised = turn.raised
        /\ turn'.directive = turn.directive /\ turn'.told = turn.told
        /\ turn'.failed = turn.failed
    BY <1>1 DEF Turn, IInv, TypeOK, Stages
  <1>3. /\ frames' \in Seq(Frames)
        /\ \A x : Spoke(x)' <=> Spoke(x) \/ x = "answer"
        /\ Answered'
        /\ ~Answered =>
              \A i \in DOMAIN frames' : frames'[i] \in Terminal =>
              i = Len(frames')
    BY <1>1, FramesGrow DEF IInv, TypeOK, Frames, Terminal
  <1>4. TypeOK'
    BY <1>1, <1>2, <1>3 DEF IInv, TypeOK, Stopped
  <1>5. LegsOK'
    BY <1>1 DEF IInv, LegsOK
  <1>6. Stage'
    BY <1>1, <1>2 DEF IInv, Stage, Idle
  <1>7. Ends'
    BY <1>1, <1>2 DEF Ends
  <1>8. Done'
    BY <1>1, <1>2, StoppedIs DEF IInv, Stage, Idle, Done, Settled, Abandoned, Quiet,
       Underway
  <1>9. Spoken'
    BY <1>1, <1>2, <1>3, AnsweredIs DEF IInv, Spoken, OneLastFrame
  <1>10. Reminder'
    BY <1>1, <1>2 DEF IInv, Reminder
  <1> QED BY <1>4, <1>5, <1>6, <1>7, <1>8, <1>9, <1>10 DEF IInv

LEMMA RouteSeveralKeeps ==
  ASSUME IInv, NEW kind \in {"multi", "send"}, RouteSeveral(kind) PROVE IInv'
  <1>1. /\ turn.at = "prelude" /\ turn.kind = "none" /\ turn.left = "no"
        /\ UNCHANGED <<leg, probe, queue>>
        /\ filler' = Stopped(filler) \/ filler' = filler
        /\ frames' = Append(frames, "status")
        /\ turn' = [turn EXCEPT !.at = "status", !.kind = kind,
           !.sending = TRUE]
    BY DEF RouteSeveral, At, Yield, IInv, Stage
  <1>2. /\ turn' \in Turn /\ turn'.at = "status" /\ turn'.kind = kind
        /\ turn'.left = "no" /\ turn'.relayed = turn.relayed
        /\ turn'.mediated = turn.mediated
    BY <1>1 DEF Turn, IInv, TypeOK, Stages
  <1>3. /\ frames' \in Seq(Frames)
        /\ \A x : Spoke(x)' <=> Spoke(x) \/ x = "status"
        /\ Answered' <=> Answered
        /\ ~Answered =>
              \A i \in DOMAIN frames' : frames'[i] \in Terminal =>
              i = Len(frames')
    BY <1>1, FramesGrow DEF IInv, TypeOK, Frames, Terminal
  <1>4. TypeOK'
    BY <1>1, <1>2, <1>3 DEF IInv, TypeOK, Stopped
  <1>5. LegsOK'
    BY <1>1 DEF IInv, LegsOK
  <1>6. Stage'
    BY <1>1, <1>2 DEF IInv, Stage, Idle
  <1>7. Ends'
    BY <1>1, <1>2 DEF Ends
  <1>8. Done'
    BY <1>1, <1>2, <1>3 DEF IInv, Stage, Idle, Done, Settled, Abandoned, Quiet, Closed
  <1>9. Spoken'
    BY <1>1, <1>2, <1>3 DEF IInv, Spoken, OneLastFrame
  <1>10. Reminder'
    BY <1>1, <1>2 DEF IInv, Reminder
  <1> QED BY <1>4, <1>5, <1>6, <1>7, <1>8, <1>9, <1>10 DEF IInv

LEMMA StartLegsKeeps ==
  ASSUME IInv, NEW slow \in BOOLEAN, StartLegs(slow) PROVE IInv'
  <1>1. /\ turn.at = "status" /\ turn.kind \in {"multi", "send"}
        /\ turn.left = "no"
        /\ UNCHANGED <<probe, queue, frames>>
        /\ filler' = Stopped(filler) \/ filler' = Claimed(filler)
        /\ leg' = [l \in Legs |->
             IF turn.kind = "send" /\ l = Sender THEN leg[l] ELSE Dispatched(l)]
        /\ turn' = [turn EXCEPT !.at = "legs",
                      !.wait = IF slow THEN "threshold" ELSE "answer"]
    BY DEF StartLegs, At, IInv, Stage
  <1>2. /\ turn' \in Turn /\ turn'.at = "legs" /\ turn'.kind = turn.kind
        /\ turn'.left = "no" /\ turn'.relayed = turn.relayed
        /\ turn'.mediated = turn.mediated
    BY <1>1 DEF Turn, IInv, TypeOK, Stages
  <1>4. leg' \in [Legs -> Leg] /\ LegsOK'
    BY <1>1, DispatchedIs DEF IInv, TypeOK, LegsOK
  <1>5. TypeOK'
    BY <1>1, <1>2, <1>4 DEF IInv, TypeOK, Stopped, Claimed
  <1>6. Stage'
    <2>1. turn.kind = "send" => Idle(Sender)'
      BY <1>1, TurnAssumption DEF IInv, Stage, Idle
    <2> QED BY <1>1, <1>2, <2>1 DEF IInv, Stage
  <1>7. Ends'
    BY <1>1, <1>2 DEF Ends
  <1>8. Done'
    BY <1>1, <1>2 DEF IInv, Done, Spoken, Settled, Abandoned, Quiet, Closed, Answered
  <1>9. Spoken'
    BY <1>1, <1>2 DEF IInv, Spoken, OneLastFrame, Spoke, Answered
  <1>10. Reminder'
    BY <1>1, <1>2 DEF IInv, Reminder
  <1> QED BY <1>4, <1>5, <1>6, <1>7, <1>8, <1>9, <1>10 DEF IInv

LEMMA StartSenderKeeps == ASSUME IInv, StartSender PROVE IInv'
  <1>1. /\ turn.at = "legs" /\ turn.kind = "send" /\ ContentDone /\ ContentGood
        /\ UNCHANGED <<turn, filler, probe, queue, frames>>
        /\ leg' = [leg EXCEPT ![Sender] = Dispatched(Sender)]
    BY DEF StartSender
  <1>2. leg' \in [Legs -> Leg] /\ LegsOK'
    BY <1>1, DispatchedIs DEF IInv, TypeOK, LegsOK
  <1>3. TypeOK'
    BY <1>1, <1>2 DEF IInv, TypeOK
  <1>4. Stage'
    <2>1. (ContentDone /\ ContentGood)'
      BY <1>1, TurnAssumption DEF ContentDone, ContentGood, IInv, TypeOK
    <2> QED BY <1>1, <2>1 DEF IInv, Stage
  <1>5. Ends'
    BY <1>1 DEF Ends
  <1>6. Done'
    BY <1>1 DEF IInv, Done, Spoken, Settled, Abandoned, Quiet, Closed, Answered
  <1>7. Spoken' /\ Reminder'
    BY <1>1 DEF IInv, Spoken, OneLastFrame, Spoke, Answered, Reminder
  <1> QED BY <1>2, <1>3, <1>4, <1>5, <1>6, <1>7 DEF IInv

LEMMA LegsEndKeeps == ASSUME IInv, LegsEnd PROVE IInv'
  <1>1. /\ turn.at = "legs" /\ turn.kind \in {"multi", "send"} /\ ContentDone
        /\ leg[Sender].at = "done" \/ (turn.kind = "send" /\ ~ContentGood)
        /\ turn.left = "no"
        /\ UNCHANGED <<leg, filler, probe, queue, frames>>
        /\ turn' = [turn EXCEPT !.at = "answered"]
    BY DEF LegsEnd, IInv, Stage
  <1>2. /\ turn' \in Turn /\ turn'.at = "answered" /\ turn'.kind = turn.kind
        /\ turn'.left = "no" /\ turn'.relayed = turn.relayed
        /\ turn'.mediated = turn.mediated
    BY <1>1 DEF Turn, IInv, TypeOK, Stages
  <1>3. AllQuiet
    BY <1>1, TurnAssumption DEF IInv, Stage, Idle, AllQuiet, Quiet, Underway,
       ContentDone
  <1>5. TypeOK' /\ LegsOK'
    BY <1>1, <1>2 DEF IInv, TypeOK, LegsOK
  <1>6. Stage'
    BY <1>1, <1>2 DEF IInv, Stage, Idle
  <1>7. Ends'
    BY <1>1, <1>2 DEF Ends
  <1>8. Done'
    BY <1>1, <1>2, <1>3 DEF IInv, Done, AllQuiet, Settled, Quiet, Closed
  <1>9. Spoken'
    BY <1>1, <1>2 DEF IInv, Spoken, OneLastFrame, Spoke, Answered
  <1>10. Reminder'
    BY <1>1, <1>2 DEF IInv, Reminder
  <1> QED BY <1>5, <1>6, <1>7, <1>8, <1>9, <1>10 DEF IInv

LEMMA AnswerLegsKeeps == ASSUME IInv, AnswerLegs PROVE IInv'
  <1>1. /\ turn.at = "answered" /\ turn.kind \in {"multi", "send"}
        /\ turn.left = "no" /\ Settled
        /\ UNCHANGED <<leg, probe, queue>> /\ filler' = Stopped(filler)
        /\ frames' = Append(frames, "answer")
        /\ turn' = [turn EXCEPT !.at = "ended", !.sending = TRUE]
    BY DEF AnswerLegs, At, Yield, IInv, Stage, Done
  <1>2. /\ turn' \in Turn /\ turn'.at = "ended" /\ turn'.kind = turn.kind
        /\ turn'.left = "no" /\ turn'.relayed = turn.relayed
        /\ turn'.mediated = turn.mediated
    BY <1>1 DEF Turn, IInv, TypeOK, Stages
  <1>3. /\ frames' \in Seq(Frames)
        /\ \A x : Spoke(x)' <=> Spoke(x) \/ x = "answer"
        /\ Answered'
        /\ ~Answered =>
              \A i \in DOMAIN frames' : frames'[i] \in Terminal =>
              i = Len(frames')
    BY <1>1, FramesGrow DEF IInv, TypeOK, Frames, Terminal
  <1>4. TypeOK'
    BY <1>1, <1>2, <1>3 DEF IInv, TypeOK, Stopped
  <1>5. LegsOK'
    BY <1>1 DEF IInv, LegsOK
  <1>6. Stage'
    BY <1>1, <1>2 DEF IInv, Stage, Idle
  <1>7. Ends'
    BY <1>1, <1>2 DEF Ends
  <1>8. Done'
    BY <1>1, <1>2, StoppedIs DEF IInv, Done, Settled, Abandoned, Quiet
  <1>9. Spoken'
    BY <1>1, <1>2, <1>3, AnsweredIs DEF IInv, Spoken, OneLastFrame
  <1>10. Reminder'
    BY <1>1, <1>2 DEF IInv, Reminder
  <1> QED BY <1>4, <1>5, <1>6, <1>7, <1>8, <1>9, <1>10 DEF IInv

\* A step of the race of the filler: only what the turn waits for changes.
LEMMA WaitKeeps ==
  ASSUME IInv, NEW wait \in {"filler", "answer"},
         turn' = [turn EXCEPT !.wait = wait],
         UNCHANGED <<leg, filler, probe, queue, frames>>
  PROVE  IInv'
  <1>1. /\ turn' \in Turn /\ turn'.at = turn.at /\ turn'.kind = turn.kind
        /\ turn'.left = turn.left /\ turn'.relayed = turn.relayed
        /\ turn'.mediated = turn.mediated /\ turn'.raised = turn.raised
        /\ turn'.directive = turn.directive /\ turn'.told = turn.told
        /\ turn'.failed = turn.failed
        /\ turn'.personality = turn.personality
    BY DEF Turn, IInv, TypeOK
  <1>2. TypeOK' /\ LegsOK' /\ Stage' /\ Ends'
    BY <1>1 DEF IInv, TypeOK, LegsOK, Stage, Idle, ContentDone, ContentGood,
                Ends, Quiet
  <1>3. Done' /\ Spoken'
    BY <1>1 DEF IInv, Done, Closed, Spoken, Spoke, Answered, OneLastFrame,
       Settled, Abandoned,
                Quiet
  <1>4. Reminder'
    BY <1>1 DEF IInv, Reminder, Blocking
  <1> QED BY <1>2, <1>3, <1>4 DEF IInv

LEMMA PushFillerKeeps == ASSUME IInv, PushFiller PROVE IInv'
  <1>1. /\ turn.at \in {"legs", "stream"} /\ turn.left = "no" /\ ~Answered
        /\ UNCHANGED <<leg, filler, probe, queue>>
        /\ frames' = Append(frames, "filler")
        /\ turn' = [turn EXCEPT !.wait = "answer", !.sending = TRUE]
    BY DEF PushFiller, Racing, Yield, IInv, Stage, Spoken
  <1>2. /\ turn' \in Turn /\ turn'.at = turn.at /\ turn'.kind = turn.kind
        /\ turn'.left = "no" /\ turn'.relayed = turn.relayed
        /\ turn'.mediated = turn.mediated
    BY <1>1 DEF Turn, IInv, TypeOK, Stages
  <1>3. /\ frames' \in Seq(Frames)
        /\ \A x : Spoke(x)' <=> Spoke(x) \/ x = "filler"
        /\ Answered' <=> Answered
        /\ \A i \in DOMAIN frames' : frames'[i] \in Terminal => i = Len(frames')
    BY <1>1, FramesGrow DEF IInv, TypeOK, Frames, Terminal
  <1>4. TypeOK' /\ LegsOK'
    BY <1>1, <1>2, <1>3 DEF IInv, TypeOK, LegsOK
  <1>6. Stage'
    BY <1>1, <1>2 DEF IInv, Stage, Idle, ContentDone, ContentGood
  <1>7. Ends'
    BY <1>1, <1>2 DEF IInv, Ends, Quiet
  <1>8. Done'
    BY <1>1, <1>2, <1>3 DEF IInv, Done, Settled, Abandoned, Quiet, Closed
  <1>9. Spoken'
    BY <1>1, <1>2, <1>3 DEF IInv, Spoken, OneLastFrame
  <1>10. Reminder'
    BY <1>1, <1>2 DEF IInv, Reminder
  <1> QED BY <1>4, <1>6, <1>7, <1>8, <1>9, <1>10 DEF IInv

LEMMA RouteSingleKeeps ==
  ASSUME IInv, NEW slow \in BOOLEAN, RouteSingle(slow) PROVE IInv'
  <1>0. PICK general \in BOOLEAN :
          turn' = [turn EXCEPT !.at = "stream", !.kind = "single",
                            !.wait = IF slow THEN "threshold" ELSE "answer",
                            !.general = general]
    BY DEF RouteSingle
  <1>1. /\ turn.at = "prelude" /\ turn.kind = "none" /\ turn.left = "no"
        /\ UNCHANGED <<queue, frames>>
        /\ probe' = [probe EXCEPT !.at = "running"]
        /\ filler' = Stopped(filler) \/ filler' = Claimed(filler)
        /\ leg' = [leg EXCEPT ![Lead] = Dispatched(Lead)]
        /\ ~Answered /\ probe.at = "none" /\ queue = <<>>
    BY DEF RouteSingle, At, IInv, Stage, Spoken, Reminder, Ends
  <1>2. /\ turn' \in Turn /\ turn'.at = "stream" /\ turn'.kind = "single"
        /\ turn'.left = "no" /\ turn'.relayed = turn.relayed
        /\ turn'.mediated = turn.mediated
    BY <1>0, <1>1 DEF Turn, IInv, TypeOK, Stages
  <1>3. /\ probe' \in [at : {"none", "running", "done", "cancelled"},
                       text : BOOLEAN, marked : BOOLEAN]
        /\ probe'.at = "running" /\ probe'.text = FALSE
    BY <1>1 DEF IInv, TypeOK, Reminder
  <1>4. /\ leg' \in [Legs -> Leg] /\ LegsOK' /\ leg'[Lead].at = "running"
        /\ \A l \in Legs \ {Lead} : leg'[l] = leg[l]
    BY <1>1, DispatchedIs, TurnAssumption DEF IInv, TypeOK, LegsOK
  <1>5. TypeOK'
    BY <1>1, <1>2, <1>3, <1>4 DEF IInv, TypeOK, Stopped, Claimed
  <1>6. Stage'
    BY <1>1, <1>2, <1>4 DEF IInv, Stage, Idle
  <1>7. Ends'
    BY <1>1, <1>2, <1>4 DEF Ends, Quiet, IInv
  <1>8. Done'
    BY <1>1, <1>2 DEF IInv, Done, Closed, Answered
  <1>9. Spoken'
    BY <1>1, <1>2 DEF IInv, Spoken, OneLastFrame, Spoke, Answered
  <1>10. Reminder'
    BY <1>1, <1>2, <1>3 DEF IInv, Reminder
  <1> QED BY <1>4, <1>5, <1>6, <1>7, <1>8, <1>9, <1>10 DEF IInv

LEMMA TakeItemKeeps == ASSUME IInv, TakeItem PROVE IInv'
  <1>1. /\ turn.at = "stream" /\ turn.kind = "single" /\ turn.left = "no"
        /\ queue # <<>> /\ queue' = Tail(queue)
        /\ UNCHANGED <<leg, probe, frames>> /\ filler' = Stopped(filler)
        /\ turn' = IF Head(queue) = "end"
             THEN [turn EXCEPT !.at = "settle", !.wait = "answer"]
             ELSE [turn EXCEPT !.at = "item", !.item = Head(queue),
                               !.wait = "answer"]
        /\ ~Answered
    BY DEF TakeItem, At, IInv, Stage, Spoken
  <1>2. /\ queue' \in Seq(Chunks) /\ Head(queue) \in Chunks /\ Len(queue) > 0
        /\ Head(queue) = queue[1]
        /\ \A i \in 1..Len(queue') : queue'[i] = queue[i + 1]
           /\ i + 1 \in 1..Len(queue)
    BY <1>1, HeadTailProperties, EmptySeq, LenProperties DEF IInv, TypeOK
  <1>3. /\ turn' \in Turn /\ turn'.kind = "single"
        /\ IF Head(queue) = "end" THEN turn'.at = "settle"
           ELSE turn'.at = "item"
        /\ turn'.left = "no" /\ turn'.relayed = turn.relayed
        /\ turn'.mediated = turn.mediated
    BY <1>1, <1>2 DEF Turn, IInv, TypeOK, Stages
  <1>4. Head(queue) = "end" => Quiet(Lead)
    BY <1>1, <1>2, LenProperties DEF IInv, Ends, TypeOK
  <1>5. TypeOK' /\ LegsOK'
    BY <1>1, <1>2, <1>3 DEF IInv, TypeOK, LegsOK, Stopped
  <1>6. Stage'
    BY <1>1, <1>3 DEF IInv, Stage, Idle
  <1>7. Ends'
    BY <1>1, <1>2, <1>3, <1>4 DEF Ends, Quiet, IInv
  <1>8. Done'
    BY <1>1, <1>3, StoppedIs DEF IInv, Done, Closed, Answered
  <1>9. Spoken'
    BY <1>1, <1>3 DEF IInv, Spoken, OneLastFrame, Spoke, Answered
  <1>10. Reminder'
    BY <1>1, <1>3 DEF IInv, Reminder
  <1> QED BY <1>5, <1>6, <1>7, <1>8, <1>9, <1>10 DEF IInv

LEMMA ProcessItemKeeps == ASSUME IInv, ProcessItem PROVE IInv'
  <1>1. /\ turn.at = "item" /\ turn.kind = "single" /\ turn.left = "no"
        /\ UNCHANGED <<leg, filler, probe, queue>> /\ ~Answered
        /\ ~Spoke("answer")
    BY AnsweredIs DEF ProcessItem, At, IInv, Stage, Spoken
  <1>2. /\ Noted \in Turn /\ Noted.at = "stream" /\ Noted.kind = "single"
        /\ Noted.left = "no" /\ Noted.relayed = turn.relayed
        /\ Noted.mediated = turn.mediated
    <2> DEFINE speech == turn.speech
        \/ turn.item \in {"token", "last", "failed"}
               error == turn.error \/ turn.item \in {"failed", "broken"}
               directive == turn.directive \/ turn.item = "directive"
    <2>1. speech \in BOOLEAN /\ error \in BOOLEAN /\ directive \in BOOLEAN
      BY DEF Turn, IInv, TypeOK
    <2>2. Noted = [turn EXCEPT !.at = "stream", !.item = "none",
            !.speech = speech, !.error = error, !.directive = directive]
      BY DEF Noted
    <2> HIDE DEF speech, error, directive
    <2>3. turn \in Turn
      BY DEF IInv, TypeOK
    <2> DEFINE a == [turn EXCEPT !.at = "stream", !.item = "none"]
    <2>4. /\ a \in Turn /\ a.at = "stream" /\ a.kind = turn.kind
          /\ a.left = turn.left /\ a.relayed = turn.relayed
          /\ a.mediated = turn.mediated
      BY <2>3 DEF Turn, Stages
    <2>5. Noted = [a EXCEPT !.speech = speech, !.error = error,
                            !.directive = directive]
      BY <2>2
    <2> HIDE DEF a
    <2>p. PICK s \in BOOLEAN, e \in BOOLEAN, d \in BOOLEAN :
            Noted = [a EXCEPT !.speech = s, !.error = e, !.directive = d]
      BY <2>1, <2>5
    <2>6. /\ Noted \in Turn /\ Noted.at = a.at /\ Noted.kind = a.kind
          /\ Noted.left = a.left /\ Noted.relayed = a.relayed
          /\ Noted.mediated = a.mediated
      <3>1. a \in Turn
        BY <2>4
      <3>2. Noted \in Turn
        BY <3>1, <2>p DEF Turn
      <3>3. /\ Noted.at = a.at /\ Noted.kind = a.kind
          /\ Noted.left = a.left /\ Noted.relayed = a.relayed
          /\ Noted.mediated = a.mediated
        BY <3>1, <2>p DEF Turn
      <3> QED BY <3>2, <3>3
    <2> QED BY <1>1, <2>4, <2>6
  <1>3. \/ turn' = Noted /\ UNCHANGED frames
        \/ /\ frames' = Append(frames, "token")
           /\ turn' = [Noted EXCEPT !.relayed = TRUE, !.sending = TRUE]
    BY DEF ProcessItem, Yield
  <1>4. /\ turn' \in Turn /\ turn'.at = "stream" /\ turn'.kind = "single"
        /\ turn'.left = "no" /\ turn'.mediated = turn.mediated
        /\ turn' = Noted => turn'.relayed = turn.relayed
        /\ frames' = Append(frames, "token") /\ turn' # Noted =>
           turn'.relayed = TRUE
    <2> DEFINE n == Noted
    <2>1. n \in Turn
      BY <1>2
    <2>2. CASE turn' = Noted
      BY <2>2, <1>2
    <2>3. CASE turn' = [n EXCEPT !.relayed = TRUE, !.sending = TRUE]
      <3>1. /\ turn' \in Turn /\ turn'.at = n.at /\ turn'.kind = n.kind
            /\ turn'.left = n.left /\ turn'.mediated = n.mediated
            /\ turn'.relayed = TRUE
        <4> HIDE DEF n
        <4> QED BY <2>1, <2>3 DEF Turn
      <3> QED BY <3>1, <1>2
    <2> QED BY <1>3, <2>2, <2>3
  <1>5. \/ UNCHANGED frames /\ turn'.relayed = turn.relayed
        \/ frames' = Append(frames, "token") /\ turn'.relayed = TRUE
    <2>1. CASE turn' = Noted /\ UNCHANGED frames
      BY <2>1, <1>2
    <2>2. CASE /\ frames' = Append(frames, "token")
               /\ turn' = [Noted EXCEPT !.relayed = TRUE, !.sending = TRUE]
      <3> DEFINE n == Noted
      <3>1. n \in Turn
        BY <1>2
      <3> HIDE DEF n
      <3>2. [n EXCEPT !.relayed = TRUE, !.sending = TRUE].relayed = TRUE
        BY <3>1 DEF Turn
      <3> QED BY <2>2, <3>2 DEF n
    <2> QED BY <1>3, <2>1, <2>2
  <1>6. /\ frames' \in Seq(Frames)
        /\ \A x \in Frames : Spoke(x)' <=> Spoke(x)
           \/ (x = "token" /\ turn'.relayed /\ ~UNCHANGED frames)
        /\ ~Answered' /\ ~Spoke("answer")'
        /\ Spoke("token")' <=> turn'.relayed \/ turn'.mediated # "no"
        /\ \A i \in DOMAIN frames' : frames'[i] \in Terminal => i = Len(frames')
    <2>1. CASE UNCHANGED frames /\ turn'.relayed = turn.relayed
      BY <2>1, <1>1, <1>4 DEF IInv, TypeOK, Spoken, Spoke, Answered,
         OneLastFrame
    <2>2. CASE frames' = Append(frames, "token") /\ turn'.relayed = TRUE
      <3>1. /\ frames' \in Seq(Frames)
            /\ \A x : Spoke(x)' <=> Spoke(x) \/ x = "token"
            /\ Answered' <=> Answered
            /\ \A i \in DOMAIN frames' : frames'[i] \in Terminal =>
               i = Len(frames')
        BY <2>2, <1>1, FramesGrow DEF IInv, TypeOK, Frames, Terminal
      <3>2. frames # frames'
        BY <2>2, AppendProperties, LenProperties DEF IInv, TypeOK, Frames
      <3> QED BY <3>1, <3>2, <2>2, <1>1
    <2> QED BY <1>5, <2>1, <2>2
  <1>7. TypeOK' /\ LegsOK'
    BY <1>1, <1>4, <1>6 DEF IInv, TypeOK, LegsOK
  <1>8. Stage'
    BY <1>1, <1>4 DEF IInv, Stage, Idle
  <1>9. Ends'
    BY <1>1, <1>4 DEF Ends, Quiet, IInv
  <1>10. Done'
    BY <1>1, <1>4, <1>6 DEF IInv, Done, Closed
  <1>11. Spoken'
    BY <1>1, <1>4, <1>6 DEF IInv, Spoken, OneLastFrame
  <1>12. Reminder'
    BY <1>1, <1>4 DEF IInv, Reminder
  <1> QED BY <1>7, <1>8, <1>9, <1>10, <1>11, <1>12 DEF IInv

LEMMA StreamExpiresKeeps == ASSUME IInv, StreamExpires PROVE IInv'
  <1>1. /\ turn.at = "stream" /\ turn.kind = "single" /\ turn.left = "no"
        /\ UNCHANGED <<probe, queue, frames>> /\ filler' = Stopped(filler)
        /\ leg' = [leg EXCEPT ![Lead] = Unwound(leg[Lead])]
        /\ turn' = [turn EXCEPT !.at = "settle", !.expired = TRUE,
                          !.wait = "answer"]
        /\ ~Answered
    BY DEF StreamExpires, At, IInv, Stage, Spoken
  <1>2. /\ turn' \in Turn /\ turn'.at = "settle" /\ turn'.kind = "single"
        /\ turn'.left = "no" /\ turn'.relayed = turn.relayed
        /\ turn'.mediated = turn.mediated
    BY <1>1 DEF Turn, IInv, TypeOK, Stages
  <1>3. /\ leg' \in [Legs -> Leg] /\ LegsOK' /\ Quiet(Lead)'
        /\ \A l \in Legs \ {Lead} : leg'[l] = leg[l]
    BY <1>1, UnwoundIs, TurnAssumption DEF IInv, TypeOK, LegsOK, Quiet
  <1>4. TypeOK'
    BY <1>1, <1>2, <1>3 DEF IInv, TypeOK, Stopped
  <1>5. Stage'
    BY <1>1, <1>2, <1>3 DEF IInv, Stage, Idle
  <1>6. Ends'
    BY <1>1, <1>2, <1>3 DEF Ends
  <1>7. Done'
    BY <1>1, <1>2, StoppedIs DEF IInv, Done, Closed, Answered
  <1>8. Spoken'
    BY <1>1, <1>2 DEF IInv, Spoken, OneLastFrame, Spoke, Answered
  <1>9. Reminder'
    BY <1>1, <1>2 DEF IInv, Reminder
  <1> QED BY <1>3, <1>4, <1>5, <1>6, <1>7, <1>8, <1>9 DEF IInv

LEMMA AnswerDirectiveKeeps == ASSUME IInv, AnswerDirective PROVE IInv'
  <1>1. /\ turn.at = "settle" /\ turn.kind = "single" /\ turn.left = "no"
        /\ UNCHANGED <<leg, filler, queue>> /\ probe' = Dropped
        /\ frames' = Append(frames, "done") /\ filler # "running"
        /\ turn' = [turn EXCEPT !.at = "ended", !.sending = TRUE]
        /\ ~Answered /\ turn.directive /\ Quiet(Lead)
    BY DEF AnswerDirective, At, Yield, IInv, Stage, Spoken, Ends, Done
  <1>2. /\ turn' \in Turn /\ turn'.at = "ended" /\ turn'.kind = "single"
        /\ turn'.left = "no" /\ turn'.relayed = turn.relayed
        /\ turn'.mediated = turn.mediated /\ turn'.directive
    BY <1>1 DEF Turn, IInv, TypeOK, Stages
  <1>3. /\ frames' \in Seq(Frames)
        /\ \A x : Spoke(x)' <=> Spoke(x) \/ x = "done"
        /\ Answered'
        /\ \A i \in DOMAIN frames' : frames'[i] \in Terminal => i = Len(frames')
    BY <1>1, FramesGrow DEF IInv, TypeOK, Frames, Terminal
  <1>4. /\ probe' \in [at : {"none", "running", "done", "cancelled"},
                       text : BOOLEAN, marked : BOOLEAN]
        /\ probe'.at # "running" /\ (probe'.text => probe.text)
        /\ probe'.at = "none" => probe.at = "none"
        /\ probe'.text = probe.text
    BY <1>1 DEF IInv, TypeOK, Dropped
  <1>5. AllQuiet
    BY <1>1 DEF IInv, Stage, AllQuiet, Quiet, Underway, Idle
  <1>6. TypeOK' /\ LegsOK'
    BY <1>1, <1>2, <1>3, <1>4 DEF IInv, TypeOK, LegsOK
  <1>7. Stage'
    BY <1>1, <1>2 DEF IInv, Stage, Idle
  <1>8. Ends'
    BY <1>1, <1>2 DEF Ends, Quiet, IInv
  <1>9. Done'
    BY <1>1, <1>2, <1>5 DEF IInv, Done, Closed, AllQuiet, Settled, Quiet
  <1>10. Spoken'
    BY <1>1, <1>2, <1>3 DEF IInv, Spoken, OneLastFrame
  <1>11. Reminder'
    BY <1>1, <1>2, <1>4 DEF IInv, Reminder
  <1> QED BY <1>6, <1>7, <1>8, <1>9, <1>10, <1>11 DEF IInv

\* A step inside a turn of one agent that touches the turn alone.
LEMMA TurnKeeps ==
  ASSUME IInv, turn.at \in {"settle", "finish", "mediate"},
         turn' \in Turn, turn'.at \in {"finish", "mediate", "final"},
         turn'.at # "finish" => probe.at # "running",
         turn'.kind = turn.kind, turn'.left = turn.left,
         turn'.relayed = turn.relayed,
         turn'.mediated # "no" <=> turn.mediated # "no",
         UNCHANGED <<leg, filler, probe, queue, frames>>
  PROVE  IInv'
  <1>1. /\ turn.kind = "single" /\ turn.left = "no" /\ Quiet(Lead)
        /\ filler # "running" /\ ~Answered
    BY DEF IInv, Stage, Ends, Done, Spoken
  <1>2. TypeOK' /\ LegsOK'
    BY DEF IInv, TypeOK, LegsOK
  <1>3. Stage' /\ Ends'
    BY <1>1 DEF IInv, Stage, Idle, Ends, Quiet
  <1>4. Done'
    BY <1>1 DEF Done, Closed, Answered
  <1>5. Spoken'
    BY <1>1 DEF IInv, Spoken, Spoke, Answered, OneLastFrame
  <1>6. Reminder'
    BY <1>1 DEF IInv, Reminder
  <1> QED BY <1>2, <1>3, <1>4, <1>5, <1>6 DEF IInv

LEMMA SettleKeeps == ASSUME IInv, Settle PROVE IInv'
  <1>1. PICK f \in BOOLEAN :
          turn' = [turn EXCEPT !.at = "finish", !.failed = f]
    <2>1. turn.expired \/ (turn.error /\ ~turn.general) \in BOOLEAN
      OBVIOUS
    <2> QED BY <2>1 DEF Settle
  <1>2. /\ turn' \in Turn /\ turn'.at = "finish" /\ turn'.kind = turn.kind
        /\ turn'.left = turn.left /\ turn'.relayed = turn.relayed
        /\ turn'.mediated = turn.mediated
    BY <1>1 DEF Turn, Stages, IInv, TypeOK
  <1> QED BY <1>2, TurnKeeps DEF Settle, At

\* A step that moves the agent of a turn of one agent on, or ends it.
LEMMA LeadKeeps ==
  ASSUME IInv, turn.at \in {"settle", "fallback"}, NEW h \in Leg, LegOK(h),
         leg' = [leg EXCEPT ![Lead] = h],
         turn' \in Turn, turn'.at \in {"fallback", "finish"},
         turn'.at = "finish" => h.at \notin Underway,
         turn'.kind = turn.kind, turn'.left = turn.left,
         turn'.relayed = turn.relayed, turn'.mediated = turn.mediated,
         UNCHANGED <<filler, probe, queue, frames>>
  PROVE  IInv'
  <1>1. /\ turn.kind = "single" /\ turn.left = "no"
        /\ filler # "running" /\ ~Answered
    BY DEF IInv, Stage, Done, Spoken
  <1>2. /\ leg' \in [Legs -> Leg] /\ LegsOK' /\ leg'[Lead] = h
        /\ \A l \in Legs \ {Lead} : leg'[l] = leg[l]
    BY TurnAssumption DEF IInv, TypeOK, LegsOK
  <1>3. TypeOK'
    BY <1>2 DEF IInv, TypeOK
  <1>4. Stage'
    BY <1>1, <1>2 DEF IInv, Stage, Idle
  <1>5. Ends'
    BY <1>1, <1>2 DEF Ends, Quiet
  <1>6. Done'
    BY <1>1 DEF Done, Closed, Answered
  <1>7. Spoken'
    BY <1>1 DEF IInv, Spoken, Spoke, Answered, OneLastFrame
  <1>8. Reminder'
    BY <1>1 DEF IInv, Reminder
  <1> QED BY <1>2, <1>3, <1>4, <1>5, <1>6, <1>7, <1>8 DEF IInv

LEMMA RecoverKeeps == ASSUME IInv, Recover PROVE IInv'
  <1> DEFINE next(g) == IF g.retried THEN "fallback" ELSE "finish"
  <1>1. PICK g \in Retries(leg[Lead]) :
          /\ leg' = [leg EXCEPT ![Lead] = g]
          /\ turn' = [turn EXCEPT !.recovered = TRUE, !.failed = TRUE,
                        !.at = next(g)]
    BY DEF Recover
  <1>2. /\ turn.at = "settle" /\ UNCHANGED <<filler, probe, queue, frames>>
        /\ leg[Lead] \in Leg /\ LegOK(leg[Lead])
    BY TurnAssumption DEF Recover, At, IInv, TypeOK, LegsOK
  <1>3. ~g.retried => g.at \notin Underway
    BY <1>2, RetriesAre
  <1>4. /\ turn' \in Turn /\ turn'.at = next(g) /\ turn'.kind = turn.kind
        /\ turn'.left = turn.left /\ turn'.relayed = turn.relayed
        /\ turn'.mediated = turn.mediated
    BY <1>1 DEF Turn, Stages, IInv, TypeOK
  <1>5. g \in Leg /\ LegOK(g)
    BY <1>2, RetriesAre
  <1>6. /\ turn'.at \in {"fallback", "finish"}
        /\ turn'.at = "finish" => g.at \notin Underway
    BY <1>3, <1>4
  <1> QED BY <1>1, <1>2, <1>4, <1>5, <1>6, LeadKeeps

LEMMA RecoveryEndsKeeps == ASSUME IInv, RecoveryEnds PROVE IInv'
  <1>1. PICK f \in BOOLEAN :
          turn' = [turn EXCEPT !.at = "finish", !.failed = f]
    <2>1. \A ok \in BOOLEAN : (turn.expired \/ ~ok) \in BOOLEAN
      OBVIOUS
    <2> QED BY <2>1 DEF RecoveryEnds
  <1>2. /\ turn.at = "fallback" /\ UNCHANGED <<filler, probe, queue, frames>>
        /\ leg[Lead] \in Leg /\ LegOK(leg[Lead])
        /\ leg' = [leg EXCEPT ![Lead] = Unwound(leg[Lead])]
    BY TurnAssumption DEF RecoveryEnds, At, IInv, TypeOK, LegsOK
  <1>3. /\ turn' \in Turn /\ turn'.at = "finish" /\ turn'.kind = turn.kind
        /\ turn'.left = turn.left /\ turn'.relayed = turn.relayed
        /\ turn'.mediated = turn.mediated
    BY <1>1 DEF Turn, Stages, IInv, TypeOK
  <1>4. /\ Unwound(leg[Lead]) \in Leg /\ LegOK(Unwound(leg[Lead]))
        /\ Unwound(leg[Lead]).at \notin Underway
    BY <1>2, UnwoundIs
  <1> QED BY <1>2, <1>3, <1>4, LeadKeeps

LEMMA FinishKeeps == ASSUME IInv, Finish PROVE IInv'
  <1>1. PICK next \in {"mediate", "final"} : turn' = [turn EXCEPT !.at = next]
    BY DEF Finish
  <1>2. /\ turn' \in Turn /\ turn'.at = next /\ turn'.kind = turn.kind
        /\ turn'.left = turn.left /\ turn'.relayed = turn.relayed
        /\ turn'.mediated = turn.mediated
    BY <1>1 DEF Turn, Stages, IInv, TypeOK
  <1> QED BY <1>2, TurnKeeps DEF Finish, At

LEMMA MediationEndsKeeps == ASSUME IInv, MediationEnds PROVE IInv'
  <1>1. PICK m \in {"no", "some", "all"} :
          /\ turn' = [turn EXCEPT !.at = "final", !.mediated = m]
          /\ m # "no" <=> turn.mediated # "no"
    <2>1. turn \in Turn /\ turn.mediated \in {"no", "some", "all"}
      BY DEF IInv, TypeOK, Turn
    <2>2. CASE turn' = [turn EXCEPT !.at = "final"]
      <3>1. turn' = [turn EXCEPT !.at = "final", !.mediated = turn.mediated]
        BY <2>1, <2>2 DEF Turn
      <3> QED BY <2>1, <3>1
    <2>3. CASE turn' = [turn EXCEPT !.at = "final",
                          !.mediated = IF @ = "some" THEN "all" ELSE @]
      <3> DEFINE m == IF turn.mediated = "some" THEN "all" ELSE turn.mediated
      <3>1. turn' = [turn EXCEPT !.at = "final", !.mediated = m]
        BY <2>3
      <3>2. m \in {"no", "some", "all"} /\ (m # "no" <=> turn.mediated # "no")
        BY <2>1
      <3> QED BY <3>1, <3>2
    <2> QED BY <2>2, <2>3 DEF MediationEnds
  <1>2. /\ turn' \in Turn /\ turn'.at = "final" /\ turn'.kind = turn.kind
        /\ turn'.left = turn.left /\ turn'.relayed = turn.relayed
        /\ turn'.mediated = m
    BY <1>1 DEF Turn, Stages, IInv, TypeOK
  <1>3. turn.at = "mediate" /\ probe.at # "running"
        /\ UNCHANGED <<leg, filler, probe, queue, frames>>
    BY DEF MediationEnds, At, IInv, Reminder
  <1> QED BY <1>1, <1>2, <1>3, TurnKeeps

LEMMA MediateKeeps == ASSUME IInv, Mediate PROVE IInv'
  <1>1. /\ turn.at = "mediate" /\ turn.kind = "single" /\ turn.left = "no"
        /\ UNCHANGED <<leg, filler, probe, queue>>
        /\ frames' = Append(frames, "token") /\ filler # "running"
        /\ turn' = [turn EXCEPT !.mediated = "some", !.sending = TRUE]
        /\ ~Answered /\ Quiet(Lead) /\ ~Spoke("answer")
    BY AnsweredIs DEF Mediate, At, Yield, IInv, Stage, Spoken, Ends, Done
  <1>2. /\ turn' \in Turn /\ turn'.at = "mediate" /\ turn'.kind = "single"
        /\ turn'.left = "no" /\ turn'.relayed = turn.relayed
        /\ turn'.mediated = "some"
    BY <1>1 DEF Turn, IInv, TypeOK, Stages
  <1>3. /\ frames' \in Seq(Frames)
        /\ \A x : Spoke(x)' <=> Spoke(x) \/ x = "token"
        /\ ~Answered'
        /\ \A i \in DOMAIN frames' : frames'[i] \in Terminal => i = Len(frames')
    BY <1>1, FramesGrow DEF IInv, TypeOK, Frames, Terminal
  <1>6. TypeOK' /\ LegsOK'
    BY <1>1, <1>2, <1>3 DEF IInv, TypeOK, LegsOK
  <1>7. Stage' /\ Ends'
    BY <1>1, <1>2 DEF IInv, Stage, Idle, Ends, Quiet
  <1>9. Done'
    BY <1>1, <1>2, <1>3 DEF Done, Closed
  <1>10. Spoken'
    BY <1>1, <1>2, <1>3 DEF Spoken, OneLastFrame
  <1>11. Reminder'
    BY <1>1, <1>2 DEF IInv, Reminder
  <1> QED BY <1>6, <1>7, <1>9, <1>10, <1>11 DEF IInv

LEMMA AnswerSingleKeeps == ASSUME IInv, AnswerSingle PROVE IInv'
  <1> DEFINE f == IF Streamed THEN "done" ELSE "answer"
  <1>t. PICK t \in BOOLEAN :
          /\ turn' = [turn EXCEPT !.at = "ended", !.told = t, !.sending = TRUE]
          /\ frames' = Append(frames, f)
          /\ Tells(t)
    BY DEF AnswerSingle, Yield
  <1>u. probe.text /\ ~t => turn.failed \/ turn.mediated = "some" \/ Blocking
    BY <1>t DEF Tells
  <1>1. /\ turn.at = "final" /\ turn.kind = "single" /\ turn.left = "no"
        /\ UNCHANGED <<leg, filler, probe, queue>>
        /\ filler # "running"
        /\ ~Answered /\ Quiet(Lead) /\ ~Spoke("answer") /\ probe.at # "running"
    BY AnsweredIs
    DEF AnswerSingle, At, IInv, Stage, Spoken, Ends, Done, Reminder
  <1>0. f \in Terminal /\ f \in Frames
    BY DEF Frames, Terminal
  <1>2. /\ turn' \in Turn /\ turn'.at = "ended" /\ turn'.kind = "single"
        /\ turn'.left = "no" /\ turn'.relayed = turn.relayed
        /\ turn'.mediated = turn.mediated
    BY <1>1, <1>t DEF Turn, IInv, TypeOK, Stages
  <1>m. /\ turn'.told = t /\ turn'.failed = turn.failed
        /\ turn'.personality = turn.personality
    BY <1>t DEF Turn, IInv, TypeOK
  <1> HIDE DEF f
  <1>3. /\ frames' \in Seq(Frames)
        /\ \A x : Spoke(x)' <=> Spoke(x) \/ x = f
        /\ Answered'
        /\ \A i \in DOMAIN frames' : frames'[i] \in Terminal => i = Len(frames')
    BY <1>0, <1>1, <1>t, FramesGrow DEF IInv, TypeOK
  <1>5. AllQuiet
    BY <1>1 DEF IInv, Stage, AllQuiet, Quiet, Underway, Idle
  <1>6. TypeOK' /\ LegsOK'
    BY <1>1, <1>2, <1>3 DEF IInv, TypeOK, LegsOK
  <1>7. Stage' /\ Ends'
    BY <1>1, <1>2 DEF IInv, Stage, Idle, Ends, Quiet
  <1>9. Done'
    BY <1>1, <1>2, <1>5 DEF Done, Closed, AllQuiet, Settled, Quiet
  <1>10. Spoken'
    <2>1. CASE Streamed
      <3>1. f = "done" /\ Spoke("token")
        BY <2>1 DEF f, Streamed, IInv, Spoken
      <3> QED BY <1>1, <1>2, <1>3, <3>1 DEF IInv, Spoken, OneLastFrame
    <2>2. CASE ~Streamed
      <3>1. f = "answer" /\ ~Spoke("token")
        BY <2>2 DEF f, Streamed, IInv, Spoken
      <3> QED BY <1>1, <1>2, <1>3, <3>1 DEF IInv, Spoken, OneLastFrame
    <2> QED BY <2>1, <2>2
  <1>11. Reminder'
    BY <1>1, <1>2, <1>u, <1>m DEF Reminder, IInv, Blocking
  <1> QED BY <1>6, <1>7, <1>9, <1>10, <1>11 DEF IInv

-----------------------------------------------------------------------------
(* Steps of the handler.                                                   *)

LEMMA FrameSentKeeps == ASSUME IInv, FrameSent PROVE IInv'
  <1>1. /\ UNCHANGED <<leg, filler, probe, queue, frames>>
        /\ turn' = [turn EXCEPT !.sending = FALSE]
    BY DEF FrameSent
  <1>2. /\ turn' \in Turn /\ turn'.at = turn.at /\ turn'.kind = turn.kind
        /\ turn'.left = turn.left /\ turn'.relayed = turn.relayed
        /\ turn'.mediated = turn.mediated
    BY <1>1 DEF Turn, IInv, TypeOK
  <1>3. /\ turn'.raised = turn.raised
        /\ turn'.directive = turn.directive /\ turn'.told = turn.told
        /\ turn'.failed = turn.failed
        /\ turn'.personality = turn.personality
    BY <1>1 DEF Turn, IInv, TypeOK
  <1>4. TypeOK' /\ LegsOK' /\ Stage' /\ Ends'
    BY <1>1, <1>2 DEF IInv, TypeOK, LegsOK, Stage, Idle, ContentDone,
       ContentGood,
                Ends, Quiet
  <1>5. Done' /\ Spoken'
    BY <1>1, <1>2, <1>3 DEF IInv, Done, Closed, Spoken, Spoke, Answered,
                OneLastFrame, Settled, Abandoned, Quiet
  <1>6. Reminder'
    BY <1>1, <1>2, <1>3 DEF IInv, Reminder, Blocking
  <1> QED BY <1>4, <1>5, <1>6 DEF IInv

LEMMA CloseKeeps == ASSUME IInv, Close PROVE IInv'
  <1>1. /\ turn.at = "ended" /\ turn.left = "no" /\ Settled
        /\ filler # "running"
        /\ UNCHANGED <<leg, filler, probe, queue>>
        /\ turn' = [turn EXCEPT !.at = "over"]
        /\ frames' = IF Answered THEN frames ELSE Append(frames, "done")
    BY DEF Close, At, IInv, Stage, Done
  <1>2. /\ turn' \in Turn /\ turn'.at = "over" /\ turn'.kind = turn.kind
        /\ turn'.left = "no" /\ turn'.relayed = turn.relayed
        /\ turn'.mediated = turn.mediated
    BY <1>1 DEF Turn, IInv, TypeOK, Stages
  <1>3. /\ turn'.raised = turn.raised
        /\ turn'.directive = turn.directive /\ turn'.told = turn.told
        /\ turn'.failed = turn.failed
        /\ turn'.personality = turn.personality
    BY <1>1 DEF Turn, IInv, TypeOK
  <1>4. /\ frames' \in Seq(Frames) /\ Answered'
        /\ Spoke("token")' <=> Spoke("token")
        /\ Spoke("answer")' <=> Spoke("answer")
        /\ \A i \in DOMAIN frames' : frames'[i] \in Terminal => i = Len(frames')
    <2>1. CASE Answered
      BY <1>1, <2>1 DEF IInv, TypeOK, Spoken, Spoke, OneLastFrame, Answered
    <2>2. CASE ~Answered
      BY <1>1, <2>2, FramesGrow DEF IInv, TypeOK, Frames, Terminal
    <2> QED BY <2>1, <2>2
  <1>5. TypeOK' /\ LegsOK'
    BY <1>1, <1>2, <1>4 DEF IInv, TypeOK, LegsOK
  <1>6. Stage' /\ Ends'
    BY <1>1, <1>2 DEF IInv, Stage, Idle, Ends
  <1>7. Done'
    BY <1>1, <1>2 DEF Done, Closed, Settled, Abandoned, Quiet
  <1>8. Spoken'
    BY <1>1, <1>2, <1>3, <1>4 DEF IInv, Spoken, OneLastFrame
  <1>9. Reminder'
    BY <1>1, <1>2, <1>3 DEF IInv, Reminder, Blocking
  <1> QED BY <1>5, <1>6, <1>7, <1>8, <1>9 DEF IInv

LEMMA AllUnwoundIs ==
  ASSUME IInv, leg' = AllUnwound
  PROVE  /\ leg' \in [Legs -> Leg] /\ LegsOK' /\ AllQuiet'
         /\ \A l \in Legs : Idle(l)' <=> Idle(l)
  <1>1. \A l \in Legs : leg'[l] = Unwound(leg[l])
    BY DEF AllUnwound
  <1>2. \A l \in Legs :
          /\ leg'[l] \in Leg /\ LegOK(leg'[l]) /\ leg'[l].at \notin Underway
          /\ leg'[l].at = "idle" <=> leg[l].at = "idle"
    BY <1>1, UnwoundIs DEF IInv, TypeOK, LegsOK
  <1> QED BY <1>2 DEF AllUnwound, LegsOK, AllQuiet, Quiet, Idle

LEMMA TurnRaisesKeeps == ASSUME IInv, TurnRaises PROVE IInv'
  <1>1. /\ turn.left = "no" /\ ~Answered
        /\ leg' = AllUnwound /\ filler' = Stopped(filler) /\ queue' = <<>>
        /\ UNCHANGED <<probe, frames>>
        /\ turn' = [turn EXCEPT !.at = "ended", !.raised = TRUE]
    BY DEF TurnRaises, Raised, IInv, Stage, Spoken
  <1>2. /\ turn' \in Turn /\ turn'.at = "ended" /\ turn'.kind = turn.kind
        /\ turn'.left = "no" /\ turn'.relayed = turn.relayed
        /\ turn'.mediated = turn.mediated /\ turn'.raised
    BY <1>1 DEF Turn, IInv, TypeOK, Stages
  <1>3. /\ leg' \in [Legs -> Leg] /\ LegsOK' /\ AllQuiet'
        /\ \A l \in Legs : Idle(l)' <=> Idle(l)
    BY <1>1, AllUnwoundIs
  <1>4. TypeOK'
    BY <1>1, <1>2, <1>3, EmptySeq DEF IInv, TypeOK, Stopped
  <1>5. Stage' /\ Ends'
    BY <1>1, <1>2, <1>3 DEF IInv, Stage, Ends
  <1>6. Done'
    BY <1>1, <1>2, <1>3, StoppedIs DEF Done, AllQuiet, Settled
  <1>7. Spoken'
    BY <1>1, <1>2 DEF IInv, Spoken, OneLastFrame, Spoke, Answered
  <1>8. Reminder'
    BY <1>1, <1>2 DEF IInv, Reminder
  <1> QED BY <1>3, <1>4, <1>5, <1>6, <1>7, <1>8 DEF IInv

LEMMA LegRaisesKeeps ==
  ASSUME IInv, NEW l \in Legs, LegRaises(l) PROVE IInv'
  <1>1. /\ turn.left = "no" /\ ~Answered /\ turn.at = "legs"
        /\ turn.kind = "send" /\ Running(leg[l])
        /\ leg' = [leg EXCEPT ![l] = Unwound(leg[l])]
        /\ filler' = Stopped(filler)
        /\ UNCHANGED <<probe, queue, frames>>
        /\ turn' = [turn EXCEPT !.at = "ended", !.raised = TRUE]
    BY DEF LegRaises, Raised, IInv, Stage, Spoken
  <1>2. /\ turn' \in Turn /\ turn'.at = "ended" /\ turn'.kind = "send"
        /\ turn'.left = "no" /\ turn'.relayed = turn.relayed
        /\ turn'.mediated = turn.mediated /\ turn'.raised
    BY <1>1 DEF Turn, IInv, TypeOK, Stages
  <1>3. /\ Unwound(leg[l]) \in Leg /\ LegOK(Unwound(leg[l]))
        /\ Unwound(leg[l]).at \notin Underway
        /\ Unwound(leg[l]).at = "idle" <=> leg[l].at = "idle"
    BY UnwoundIs DEF IInv, TypeOK, LegsOK
  <1>4. \A k \in Legs : leg'[k] = IF k = l THEN Unwound(leg[l]) ELSE leg[k]
    BY <1>1 DEF IInv, TypeOK
  <1>5. /\ leg' \in [Legs -> Leg] /\ LegsOK'
        /\ \A k \in Legs : Idle(k)' <=> Idle(k)
    BY <1>1, <1>3, <1>4 DEF IInv, TypeOK, LegsOK, Idle
  <1>6. Settled'
    <2>1. l # Sender => Quiet(Sender)
      BY <1>1, TurnAssumption
      DEF IInv, Stage, ContentDone, Running, Quiet, Idle, Underway
    <2>2. Quiet(l)'
      BY <1>3, <1>4 DEF Quiet
    <2>3. Quiet(Sender)'
      BY <2>1, <2>2, <1>4, TurnAssumption DEF Quiet
    <2> QED BY <2>3, <1>2 DEF Settled, Abandoned
  <1>7. TypeOK'
    BY <1>1, <1>2, <1>5 DEF IInv, TypeOK, Stopped
  <1>8. Stage' /\ Ends'
    BY <1>1, <1>2, <1>5 DEF IInv, Stage, Ends
  <1>9. Done'
    BY <1>1, <1>2, <1>6, StoppedIs DEF Done
  <1>10. Spoken'
    BY <1>1, <1>2 DEF IInv, Spoken, OneLastFrame, Spoke, Answered
  <1>11. Reminder'
    BY <1>1, <1>2 DEF IInv, Reminder
  <1> QED BY <1>5, <1>7, <1>8, <1>9, <1>10, <1>11 DEF IInv

LEMMA CancelKeeps == ASSUME IInv, Cancel PROVE IInv'
  <1>1. /\ leg' = Awaited /\ turn.at # "over"
        /\ filler' = Stopped(filler) /\ queue' = <<>>
        /\ UNCHANGED frames /\ probe' \in {Dropped, probe}
        /\ turn' = [turn EXCEPT !.at = "over", !.left = "cancelled"]
    BY DEF Cancel
  <1>2. /\ turn' \in Turn /\ turn'.at = "over" /\ turn'.kind = turn.kind
        /\ turn'.left = "cancelled" /\ turn'.relayed = turn.relayed
        /\ turn'.mediated = turn.mediated
    BY <1>1 DEF Turn, IInv, TypeOK, Stages
  <1>3. /\ leg' \in [Legs -> Leg] /\ LegsOK' /\ Settled'
        /\ \A l \in Legs : Idle(l)' <=> Idle(l)
    <2>1. CASE turn.at = "ended"
      <3>1. leg' = leg /\ Settled
        BY <1>1, <2>1 DEF Awaited, IInv, Done
      <3>2. turn'.kind = turn.kind /\ turn'.raised = turn.raised
        BY <1>1 DEF IInv, TypeOK, Turn
      <3> QED BY <3>1, <3>2
        DEF IInv, TypeOK, LegsOK, Settled, Quiet, Abandoned, Idle
    <2>2. CASE turn.at # "ended"
      <3>1. leg' = AllUnwound
        BY <1>1, <2>2 DEF Awaited
      <3> QED BY <3>1, AllUnwoundIs DEF AllQuiet, Settled
    <2> QED BY <2>1, <2>2
  <1>4. /\ probe' \in [at : {"none", "running", "done", "cancelled"},
                       text : BOOLEAN, marked : BOOLEAN]
        /\ probe.at = "none" => probe'.at = "none"
        /\ probe'.at \in {"none", "running"} => ~probe'.text
    BY <1>1 DEF IInv, TypeOK, Dropped, Reminder
  <1>5. TypeOK'
    BY <1>1, <1>2, <1>3, <1>4, EmptySeq DEF IInv, TypeOK, Stopped
  <1>6. Stage' /\ Ends'
    BY <1>1, <1>2, <1>3 DEF IInv, Stage, Ends
  <1>7. Done'
    BY <1>1, <1>2, <1>3, StoppedIs DEF Done
  <1>8. Spoken'
    BY <1>1, <1>2 DEF IInv, Spoken, OneLastFrame, Spoke, Answered
  <1>9. Reminder'
    BY <1>1, <1>2, <1>4 DEF IInv, Reminder
  <1> QED BY <1>3, <1>5, <1>6, <1>7, <1>8, <1>9 DEF IInv

LEMMA SendFailsKeeps == ASSUME IInv, SendFails PROVE IInv'
  <1>1. /\ UNCHANGED <<leg, filler, probe, queue, frames>>
        /\ turn' = [turn EXCEPT !.at = "over", !.left = "dropped",
                          !.sending = FALSE]
    BY DEF SendFails
  <1>2. /\ turn' \in Turn /\ turn'.at = "over" /\ turn'.kind = turn.kind
        /\ turn'.left = "dropped" /\ turn'.relayed = turn.relayed
        /\ turn'.mediated = turn.mediated
    <2>1. turn \in Turn
      BY DEF IInv, TypeOK
    <2>2. turn' \in Turn
      BY <1>1, <2>1 DEF Turn, Stages
    <2> QED BY <1>1, <2>1, <2>2 DEF Turn
  <1>3. TypeOK' /\ LegsOK'
    BY <1>1, <1>2 DEF IInv, TypeOK, LegsOK
  <1>4. Stage' /\ Ends'
    BY <1>1, <1>2 DEF IInv, Stage, Ends, Idle
  <1>5. Done'
    BY <1>1, <1>2 DEF IInv, Done, Closed, Answered, Settled, Abandoned, Quiet
  <1>6. Spoken'
    BY <1>1, <1>2 DEF IInv, Spoken, OneLastFrame, Spoke, Answered
  <1>7. Reminder'
    BY <1>1, <1>2 DEF IInv, Reminder
  <1> QED BY <1>3, <1>4, <1>5, <1>6, <1>7 DEF IInv

LEMMA FinalizerKeeps == ASSUME IInv, Finalizer PROVE IInv'
  <1>1. /\ turn.left = "dropped" /\ turn.at = "over"
        /\ leg' = AllUnwound /\ filler' = Stopped(filler) /\ queue' = <<>>
        /\ UNCHANGED <<turn, probe, frames>>
    BY DEF Finalizer, IInv, Stage
  <1>2. /\ leg' \in [Legs -> Leg] /\ LegsOK' /\ AllQuiet'
        /\ \A l \in Legs : Idle(l)' <=> Idle(l)
    BY <1>1, AllUnwoundIs
  <1>3. TypeOK'
    BY <1>1, <1>2, EmptySeq DEF IInv, TypeOK, Stopped
  <1>4. Stage' /\ Ends'
    BY <1>1, <1>2 DEF IInv, Stage, Ends
  <1>5. Done'
    BY <1>1, <1>2, StoppedIs DEF Done, AllQuiet, Settled
  <1>6. Spoken' /\ Reminder'
    BY <1>1 DEF IInv, Spoken, OneLastFrame, Spoke, Answered, Reminder
  <1> QED BY <1>2, <1>3, <1>4, <1>5, <1>6 DEF IInv

-----------------------------------------------------------------------------
(* The invariant holds.                                                    *)

LEMMA IInvHoldsFirst == Init => IInv
  <1> SUFFICES ASSUME Init PROVE IInv
    OBVIOUS
  <1>0. PICK p \in BOOLEAN : turn = [NewTurn EXCEPT !.personality = p]
    BY DEF Init
  <1>1. /\ turn \in Turn /\ turn.at = "prelude" /\ turn.kind = "none"
        /\ turn.left = "no" /\ turn.relayed = FALSE /\ turn.mediated = "no"
    BY <1>0 DEF NewTurn, Turn, Stages
  <1>2. leg \in [Legs -> Leg] /\ LegsOK /\ \A l \in Legs : Idle(l)
    BY NewLegIs DEF Init, LegsOK, Idle
  <1>3. TypeOK /\ frames = <<>> /\ queue = <<>> /\ filler = "none"
        /\ probe.at = "none" /\ probe.text = FALSE
    BY <1>1, <1>2, EmptySeq DEF Init, TypeOK
  <1>4. \A i : i \notin DOMAIN frames
    BY <1>3
  <1>5. Stage /\ Ends /\ Done
    BY <1>1, <1>2, <1>3, <1>4
    DEF Stage, Ends, Done, Closed, Answered, Settled, Abandoned, Quiet, Idle, Underway
  <1>6. Spoken /\ Reminder
    BY <1>1, <1>3, <1>4 DEF Spoken, Spoke, Answered, OneLastFrame, Reminder
  <1> QED BY <1>2, <1>3, <1>5, <1>6 DEF IInv

LEMMA IInvStutters == ASSUME IInv, UNCHANGED vars PROVE IInv'
  <1>1. UNCHANGED turn /\ UNCHANGED leg /\ UNCHANGED filler
        /\ UNCHANGED probe /\ UNCHANGED queue /\ UNCHANGED frames
    BY DEF vars
  <1> QED BY <1>1 DEF IInv, TypeOK, LegsOK, Stage, Idle, ContentDone,
    ContentGood, Ends, Quiet, Done, Closed, Settled, Abandoned, Spoken, Spoke, Answered,
    OneLastFrame, Reminder, Blocking

LEMMA IInvStays == IInv /\ [Next]_vars => IInv'
  <1> SUFFICES ASSUME IInv, [Next]_vars PROVE IInv'
    OBVIOUS
  <1>1. CASE UNCHANGED vars
    BY <1>1, IInvStutters
  <1>2. CASE StartFiller \/ FillerEnds \/ ProbeEnds
    BY <1>2, StartFillerKeeps, FillerEndsKeeps, ProbeEndsKeeps
  <1>3. ASSUME NEW l \in Legs, Agent(l) \/ Expires(l) \/ FallbackEnds(l)
        PROVE  IInv'
    <2>1. <<>> \in Seq(Chunks) /\ \A c \in LastChunks : <<c>> \in Seq(Chunks)
      BY EmptySeq DEF Chunks
    <2>2. \/ Call(l) \/ Resend(l) \/ CallEnds(l) \/ HomeAssistantRuns(l)
          \/ Yields(l) \/ (\E last \in Seq(Chunks) : StreamEnds(l, last))
          \/ Returns(l) \/ Raises(l) \/ Expires(l) \/ FallbackEnds(l)
      BY <1>3, <2>1 DEF Agent
    <2> QED BY <2>2, AgentKeeps
  <1>4. CASE Exit \/ StartSender \/ LegsEnd \/ AnswerLegs
    BY <1>4, ExitKeeps, StartSenderKeeps, LegsEndKeeps, AnswerLegsKeeps
  <1>5. ASSUME NEW kind \in {"multi", "send"}, RouteSeveral(kind) PROVE IInv'
    BY <1>5, RouteSeveralKeeps
  <1>6. ASSUME NEW slow \in BOOLEAN, StartLegs(slow) \/ RouteSingle(slow)
        PROVE  IInv'
    BY <1>6, StartLegsKeeps, RouteSingleKeeps
  <1>7. CASE ThresholdPasses \/ NoFiller
    BY <1>7, WaitKeeps DEF ThresholdPasses, NoFiller
  <1>8. CASE PushFiller \/ TakeItem \/ ProcessItem \/ StreamExpires
    BY <1>8, PushFillerKeeps, TakeItemKeeps, ProcessItemKeeps,
       StreamExpiresKeeps
  <1>9. CASE AnswerDirective \/ Settle \/ Recover \/ RecoveryEnds
    BY <1>9, AnswerDirectiveKeeps, SettleKeeps, RecoverKeeps, RecoveryEndsKeeps
  <1>10. CASE Finish \/ Mediate \/ MediationEnds \/ AnswerSingle
    BY <1>10, FinishKeeps, MediateKeeps, MediationEndsKeeps, AnswerSingleKeeps
  <1>11. CASE FrameSent \/ Close \/ Finalizer
    BY <1>11, FrameSentKeeps, CloseKeeps, FinalizerKeeps
  <1>12. CASE TurnRaises \/ Cancel \/ SendFails
    BY <1>12, TurnRaisesKeeps, CancelKeeps, SendFailsKeeps
  <1>13. ASSUME NEW l \in Legs, LegRaises(l) PROVE IInv'
    BY <1>13, LegRaisesKeeps
  <1> QED BY <1>1, <1>2, <1>3, <1>4, <1>5, <1>6, <1>7, <1>8, <1>9, <1>10,
    <1>11, <1>12, <1>13 DEF Next, Progress

LEMMA IInvAlways == Spec => []IInv
  BY IInvHoldsFirst, IInvStays, PTL DEF Spec

-----------------------------------------------------------------------------
(* What follows from it.                                                   *)

\* The types of a streamed turn.
THEOREM Typing == Spec => []TypeOK
  <1>1. IInv => TypeOK
    BY DEF IInv
  <1> QED BY <1>1, IInvAlways, PTL

\* A command of an agent reaches Home Assistant at most once, and its task is
\* not given to the fallback agent once it may (action_marker.py, rest.py
\* call_service, dispatch_manager.py): for any number of agents.
THEOREM CommandOnceAlways == Spec => []CommandOnce
  <1>1. IInv => CommandOnce
    <2> SUFFICES ASSUME IInv, NEW l \in Legs
                 PROVE  /\ leg[l].out + leg[l].runs <= 1
                        /\ leg[l].retried => leg[l].out + leg[l].runs = 0
      BY DEF CommandOnce
    <2>1. LegOK(leg[l])
      BY DEF IInv, LegsOK
    <2> QED BY <2>1 DEF LegOK
  <1> QED BY <1>1, IInvAlways, PTL

\* The client gets one last frame and nothing after it, and no turn that was
\* not left ends without one (conversation.py's handlers).
THEOREM OneLastFrameAlways == Spec => []OneLastFrame
  <1>1. IInv => OneLastFrame
    BY DEF IInv, Spoken
  <1> QED BY <1>1, IInvAlways, PTL

\* The answer is spoken once, as tokens or in the last frame.
THEOREM SpokenOnceAlways == Spec => []SpokenOnce
  <1>1. IInv => SpokenOnce
    BY DEF IInv, Spoken, SpokenOnce
  <1> QED BY <1>1, IInvAlways, PTL

\* A reminder that was marked as fired is told in the answer of a turn that
\* succeeds, but for one that the blocking mediation of a personality made
\* (orchestrator.py, mediation.py, calendar_injector.py).
THEOREM ReminderToldAlways == Spec => []ReminderTold
  <1>1. IInv => ReminderTold
    BY DEF IInv, Reminder, ReminderTold
  <1> QED BY <1>1, IInvAlways, PTL

\* No agent, fallback or filler outlives the turn that started it, unless a
\* frame could not be sent, but for the content legs of a sequential send
\* beside one that raised (orchestrator.py _handle_sequential_send): the
\* send-agent never does.
THEOREM NothingOutlivesAnswerAlways == Spec => []NothingOutlivesAnswer
  <1>1. IInv => NothingOutlivesAnswer
    <2>1. Done /\ Closed => /\ filler # "running"
                           /\ \A l \in Legs : Running(leg[l]) => Abandoned(l)
      BY DEF Done, Closed, Settled, Quiet, Underway, Running
    <2> QED BY <2>1 DEF IInv, NothingOutlivesAnswer, Closed
  <1> QED BY <1>1, IInvAlways, PTL

\* Once the answer is out no agent sends a command, but for a content leg
\* beside the one that made the turn raise: no other is running, and the
\* turn is past the stages that start one.
THEOREM NoCommandAfterAnswerAlways == Spec => NoCommandAfterAnswer
  <1>1. ASSUME IInv, Next, Answered, NEW l \in Legs
        PROVE  leg'[l].out <= leg[l].out \/ Abandoned(l)
    <2> SUFFICES ASSUME ~Abandoned(l) PROVE leg'[l].out <= leg[l].out
      OBVIOUS
    <2>1. /\ turn.at \in {"ended", "over"} /\ Quiet(l)
          /\ \A k \in Legs : leg[k] \in Leg /\ LegOK(leg[k])
      BY <1>1 DEF IInv, Spoken, Done, Settled, TypeOK, LegsOK
    <2>2. leg[l].agent \notin Active
      BY <2>1 DEF Quiet, Underway, LegOK
    <2>3. leg[l].out <= leg[l].out
      BY <2>1, LegNumbers
    <2>4. CASE UNCHANGED leg
      BY <2>3, <2>4
    <2>5. CASE TurnRaises \/ Cancel \/ Finalizer
      <3>1. leg'[l] = Unwound(leg[l]) \/ leg' = leg
        BY <2>5 DEF TurnRaises, Cancel, Finalizer, AllUnwound, Awaited
      <3>2. Unwound(leg[l]).out = leg[l].out
        BY <2>1, UnwoundIs
      <3> QED BY <3>1, <3>2, <2>3
    <2>6. ASSUME NEW k \in Legs, Agent(k) \/ Expires(k) \/ FallbackEnds(k)
          PROVE  leg'[l].out <= leg[l].out
      <3>1. <<>> \in Seq(Chunks) /\ \A c \in LastChunks : <<c>> \in Seq(Chunks)
        BY EmptySeq DEF Chunks
      <3>2. \/ Call(k) \/ Resend(k) \/ CallEnds(k) \/ HomeAssistantRuns(k)
            \/ Yields(k) \/ (\E last \in Seq(Chunks) : StreamEnds(k, last))
            \/ Returns(k) \/ Raises(k) \/ Expires(k) \/ FallbackEnds(k)
        BY <2>6, <3>1 DEF Agent
      <3>3. LegMoves(k)
        BY <1>1, <2>1, <3>2, AgentMoves DEF IInv, TypeOK
      <3>4. PICK h \in Leg :
              /\ leg' = [leg EXCEPT ![k] = h]
              /\ h.out <= leg[k].out \/ leg[k].agent \in Active
        BY <3>3 DEF LegMoves
      <3>5. leg'[l] = IF l = k THEN h ELSE leg[l]
        BY <1>1, <3>4 DEF IInv, TypeOK
      <3> QED BY <3>4, <3>5, <2>2, <2>3
    <2>7. ~ \E slow \in BOOLEAN : StartLegs(slow) \/ RouteSingle(slow)
      BY <2>1 DEF StartLegs, RouteSingle, At
    <2>8. ~StartSender /\ ~StreamExpires /\ ~Recover /\ ~RecoveryEnds
          /\ ~ \E k \in Legs : LegRaises(k)
      BY <2>1 DEF StartSender, StreamExpires, Recover, RecoveryEnds, LegRaises,
                  At
    <2>9. \/ StartFiller \/ FillerEnds \/ ProbeEnds \/ Exit
          \/ (\E kind \in {"multi", "send"} : RouteSeveral(kind))
          \/ LegsEnd \/ AnswerLegs \/ ThresholdPasses \/ PushFiller \/ NoFiller
          \/ TakeItem \/ ProcessItem \/ AnswerDirective \/ Settle \/ Finish
          \/ Mediate \/ MediationEnds \/ AnswerSingle \/ FrameSent \/ Close
          \/ SendFails
          => UNCHANGED leg
      BY DEF StartFiller, FillerEnds, ProbeEnds, Exit, RouteSeveral, LegsEnd,
        AnswerLegs, ThresholdPasses, PushFiller, NoFiller, TakeItem,
        ProcessItem, AnswerDirective, Settle, Finish, Mediate, MediationEnds,
        AnswerSingle, FrameSent, Close, SendFails
    <2> QED BY <1>1, <2>4, <2>5, <2>6, <2>7, <2>8, <2>9 DEF Next, Progress
  <1>2. IInv /\ [Next]_vars =>
          [Answered => \A l \in Legs : leg'[l].out <= leg[l].out
                                         \/ Abandoned(l)]_vars
    BY <1>1
  <1> QED BY <1>2, IInvAlways, PTL DEF Spec, NoCommandAfterAnswer
=============================================================================
