------------------------------ MODULE Approval ------------------------------
(***************************************************************************)
(* Questions that must be answered before something is done:               *)
(* container/app/agents/approval.py and approval_gate.py (sensitive Home   *)
(* Assistant calls), automation_confirmation.py (changes of automations),  *)
(* and the part of the turn that asks and answers them (orchestrator.py,   *)
(* actionable.py).                                                         *)
(*                                                                         *)
(* A turn first looks for an approval that is pending in its conversation; *)
(* if there is one the text of the turn is judged as its answer, and only  *)
(* a turn that did not answer it goes on to the agents.  Their sensitive   *)
(* calls are held and asked about; the automation agent judges answers to  *)
(* its own proposals and makes new ones.  Turns are coroutines: between    *)
(* two awaits nothing else runs, at an await anything may.  Nothing keeps  *)
(* two turns of one conversation apart.                                    *)
(*                                                                         *)
(* Every call below is a sensitive one, not on the allowlist, and approval *)
(* is enabled.                                                             *)
(***************************************************************************)
EXTENDS Integers, FiniteSets, PendingStore

CONSTANTS
  Turns, Calls,
  Untraced,        \* turns whose task has no SpanCollector, so no trace_id
  Requesters,      \* channel and user of a turn
  Mute,            \* the requesters approval_is_interactive refuses
  ApprovalTtl, ChangeTtl,
  JudgeTime,       \* _CLASSIFY_TIMEOUT_SEC
  MaxAgents,       \* bound: agents that ask in one turn, if turns do not
                   \* overlap; otherwise one agent does
  Overlaps,        \* turns of one conversation in flight: instances to check
  MaxTime, MaxRestarts  \* bounds

ASSUME ApprovalAssumption ==
  /\ Mute \subseteq Requesters /\ Untraced \subseteq Turns
  /\ Overlaps \subseteq Nat
  /\ ApprovalTtl \in 0 .. TombstoneTtl /\ ChangeTtl \in Nat
  /\ JudgeTime \in Nat /\ MaxAgents \in Nat \ {0}
  /\ MaxTime \in Nat /\ MaxRestarts \in Nat
  /\ None \notin Conversations \cup Turns \cup (Turns \X (1 .. MaxAgents))

VARIABLES
  now,
  approvals,  \* approval_store; an item is a batch
  proposals,  \* confirmation_store; an item is the turn that proposed
  batch,      \* the PendingApproval objects; a turn makes one per agent
  turn,       \* what each turn is doing
  restarts,
  overlap,    \* how many turns the clients keep in flight; fixed
  ran,        \* history: the calls sent, by which turn, from which batch
  applied,    \* history: the changes applied, by which turn
  dropped     \* history: batches declined, superseded, given up or expired

history == <<ran, applied, dropped>>
vars == <<now, approvals, proposals, batch, turn, restarts, overlap, history>>

AgentsPerTurn == IF overlap = 1 THEN MaxAgents ELSE 1

Batches == Turns \X (1 .. MaxAgents)
AskedIn(b) == b[1]

Decisions == {"confirm", "decline", "modify", "unrelated", "unclear"}
Stages == {"new", "judge", "execute", "agents", "done"}
Waiting == {"judge", "execute", "agents"}

Batch == [conv : Conversations \cup {None}, by : Requesters \cup {None},
          calls : SUBSET Calls, reasked : BOOLEAN]

Turn == [at : Stages, conv : Conversations \cup {None},
         by : Requesters \cup {None},
         item : Batches \cup {None}, kind : Kinds, stored : Nat,
         came : Nat, todo : SUBSET Calls, puts : 0 .. MaxAgents,
         automation : {"idle", "judge", "ready", "over"},
         change : Turns \cup {None}]

TypeOK ==
  /\ now \in 0 .. MaxTime /\ restarts \in 0 .. MaxRestarts
  /\ overlap \in Overlaps
  /\ approvals \in Store(Batches) /\ proposals \in Store(Turns)
  /\ batch \in [Batches -> Batch] /\ turn \in [Turns -> Turn]
  /\ dropped \subseteq Batches
  /\ ran \subseteq [turn : Turns, item : Batches, call : Calls]
  /\ applied \subseteq [turn : Turns, change : Turns]

NewTurn == [at |-> "new", conv |-> None, by |-> None, item |-> None,
            kind |-> "none", stored |-> 0, came |-> 0, todo |-> {},
            puts |-> 0, automation |-> "idle", change |-> None]

NoBatch == [conv |-> None, by |-> None, calls |-> {}, reasked |-> FALSE]

Init ==
  /\ now = 0 /\ restarts = 0 /\ overlap \in Overlaps
  /\ approvals = EmptyStore /\ proposals = EmptyStore
  /\ batch = [b \in Batches |-> NoBatch]
  /\ turn = [t \in Turns |-> NewTurn]
  /\ ran = {} /\ applied = {} /\ dropped = {}

\* A turn that is over; nothing of it but its being over matters any more.
Over == [NewTurn EXCEPT !.at = "done"]
Going(t, stage) ==
  IF stage = "done" THEN Over
  ELSE [NewTurn EXCEPT !.at = stage, !.conv = turn[t].conv, !.by = turn[t].by]

InFlight(c) == {t \in Turns : turn[t].at \in Waiting /\ turn[t].conv = c}

Items(e) == IF e.kind = "none" THEN {} ELSE {e.item}

-----------------------------------------------------------------------------
(* The answer of a turn to a pending approval                              *)

\* (faulty) anyone in the conversation may answer
MayAnswerAnyone(e, r) == TRUE

MayAnswer(e, r) == batch[e.item].by = r

\* The head of handle_pending_approval, up to the call of the classifier.
Arrive(t, c, r) ==
  /\ turn[t].at = "new" /\ Cardinality(InFlight(c)) < overlap
  /\ LET e    == Entry(approvals, c, now, ApprovalTtl)
         here == [NewTurn EXCEPT !.conv = c, !.by = r]
     IN \/ /\ r \in Mute
           /\ turn' = [turn EXCEPT ![t] = [here EXCEPT !.at = "agents"]]
           /\ UNCHANGED <<approvals, dropped>>
        \/ /\ r \notin Mute /\ e.kind = "none"
           /\ turn' = [turn EXCEPT ![t] = [here EXCEPT !.at = "agents"]]
           /\ approvals' = Seen(approvals, c, now, ApprovalTtl)
           /\ UNCHANGED dropped
        \/ /\ r \notin Mute /\ e.kind # "none" /\ ~MayAnswer(e, r)
           /\ turn' = [turn EXCEPT ![t] = [here EXCEPT !.at = "agents"]]
           /\ approvals' = Popped(approvals, c)
           /\ dropped' = dropped \cup {e.item}
        \/ /\ r \notin Mute /\ e.kind # "none" /\ MayAnswer(e, r)
           /\ turn' = [turn EXCEPT ![t] =
                [here EXCEPT !.at = "judge", !.item = e.item,
                             !.kind = e.kind, !.stored = e.at,
                             !.came = now]]
           /\ approvals' = Seen(approvals, c, now, ApprovalTtl)
           /\ UNCHANGED dropped
  /\ UNCHANGED <<now, proposals, batch, restarts, overlap,
                 ran, applied>>

\* classify_approval_answer returned d; it fails closed when it times out.
Judged(t, d, kind) ==
  /\ turn[t].at = "judge" /\ turn[t].kind = kind
  /\ d # "unclear" => now - turn[t].came <= JudgeTime

\* (faulty) the answer leaves the question in the store
SettleKeeps(t, stage) ==
  /\ approvals' = approvals
  /\ turn' = [turn EXCEPT ![t] = Going(t, stage)]

Settle(t, stage) ==
  /\ approvals' = Popped(approvals, turn[t].conv)
  /\ turn' = [turn EXCEPT ![t] = Going(t, stage)]

AnswerExpired(t, d) ==
  /\ Judged(t, d, "tombstone")
  /\ Settle(t, IF d \in {"confirm", "decline"} THEN "done" ELSE "agents")
  /\ dropped' = dropped \cup {turn[t].item}
  /\ UNCHANGED <<now, proposals, batch, restarts, overlap,
                 ran, applied>>

\* (faulty) the confirmed approval stays in the store while it executes
ConfirmNoPop(t) ==
  /\ Judged(t, "confirm", "active")
  /\ turn' = [turn EXCEPT ![t].at = "execute",
                          ![t].todo = batch[turn[t].item].calls]
  /\ UNCHANGED <<now, approvals, proposals, batch, restarts, overlap,
                 history>>

Confirm(t) ==
  /\ Judged(t, "confirm", "active")
  /\ approvals' = Popped(approvals, turn[t].conv)
  /\ turn' = [turn EXCEPT ![t].at = "execute",
                          ![t].todo = batch[turn[t].item].calls]
  /\ UNCHANGED <<now, proposals, batch, restarts, overlap, history>>

Refuse(t, d) ==
  /\ Judged(t, d, "active")
  /\ \/ d = "decline" /\ Settle(t, "done")
     \/ d \in {"modify", "unrelated"} /\ Settle(t, "agents")
     \/ d = "unclear" /\ batch[turn[t].item].reasked /\ Settle(t, "done")
  /\ dropped' = dropped \cup {turn[t].item}
  /\ UNCHANGED <<now, proposals, batch, restarts, overlap,
                 ran, applied>>

\* touch puts the batch back with a fresh TTL and leaves proposals alone.
AskAgain(t) ==
  LET b == turn[t].item
  IN /\ Judged(t, "unclear", "active") /\ ~batch[b].reasked
     /\ batch' = [batch EXCEPT ![b].reasked = TRUE]
     /\ approvals' \in Puts(approvals, turn[t].conv, b, now, ApprovalTtl)
     /\ turn' = [turn EXCEPT ![t] = Over]
     /\ UNCHANGED <<now, proposals, restarts, overlap, ran, applied, dropped>>

\* _execute_approved takes the calls one by one.  Each is checked for
\* visibility first; a call that fails does not stop the others.
Execute(t, call) ==
  /\ turn[t].at = "execute" /\ call \in turn[t].todo
  /\ turn' = IF turn[t].todo = {call} THEN [turn EXCEPT ![t] = Over]
             ELSE [turn EXCEPT ![t].todo = @ \ {call}]
  /\ \/ UNCHANGED ran
     \/ ran' = ran \cup {[turn |-> t, item |-> turn[t].item, call |-> call]}
  /\ UNCHANGED <<now, approvals, proposals, batch, restarts, overlap,
                 applied, dropped>>

-----------------------------------------------------------------------------
(* The agents of a turn                                                    *)

\* (faulty) the last agent's calls replace the others'
MergedLast(t, calls) == calls

\* put knows an agent's question as one of the same turn by the trace_id.
SameTrace(t, b) == t \notin Untraced /\ AskedIn(b) = t

\* put merges the calls other agents held in the same turn.
Merged(t, calls) ==
  LET e == Entry(approvals, turn[t].conv, now, ApprovalTtl)
  IN  IF e.kind = "active" /\ SameTrace(t, e.item)
      THEN batch[e.item].calls \cup calls ELSE calls

Superseded(t) ==
  {b \in Items(approvals[turn[t].conv]) : ~SameTrace(t, b)}

\* build_approval_result: an agent held these calls and asks for them.
Hold(t, calls) ==
  LET c == turn[t].conv
      b == <<t, turn[t].puts + 1>>
  IN /\ turn[t].at = "agents" /\ turn[t].by \notin Mute
     /\ turn[t].puts < AgentsPerTurn
     /\ batch' = [batch EXCEPT ![b] =
          [conv |-> c, by |-> turn[t].by, calls |-> Merged(t, calls),
           reasked |-> FALSE]]
     /\ approvals' \in Puts(approvals, c, b, now, ApprovalTtl)
     /\ proposals' = Popped(proposals, c)
     /\ turn' = [turn EXCEPT ![t].puts = @ + 1]
     /\ dropped' = dropped \cup Superseded(t)
     /\ UNCHANGED <<now, restarts, overlap, ran, applied>>

\* handle_pending_automation_answer, up to the call of the classifier.
ReadProposal(t) ==
  LET c == turn[t].conv
      e == Entry(proposals, c, now, ChangeTtl)
  IN /\ turn[t].at = "agents" /\ turn[t].automation = "idle"
     /\ \/ /\ e.kind = "none"
           /\ proposals' = Seen(proposals, c, now, ChangeTtl)
           /\ turn' = [turn EXCEPT ![t].automation = "ready"]
        \/ /\ e.kind = "tombstone"
           /\ proposals' = Popped(proposals, c)
           /\ \E next \in {"over", "ready"} :
                turn' = [turn EXCEPT ![t].automation = next]
        \/ /\ e.kind = "active"
           /\ proposals' = Seen(proposals, c, now, ChangeTtl)
           /\ turn' = [turn EXCEPT ![t].automation = "judge",
                                   ![t].change = e.item]
     /\ UNCHANGED <<now, approvals, batch, restarts, overlap, history>>

AnswerProposal(t, d) ==
  LET c == turn[t].conv
  IN /\ turn[t].automation = "judge" /\ turn[t].at = "agents"
     /\ turn' = [turn EXCEPT ![t].change = None, ![t].automation =
          IF d \in {"modify", "unrelated"} THEN "ready" ELSE "over"]
     /\ proposals' = IF d = "unclear" THEN proposals ELSE Popped(proposals, c)
     /\ applied' = IF d # "confirm" THEN applied
                   ELSE applied \cup {[turn |-> t, change |-> turn[t].change]}
     /\ UNCHANGED <<now, approvals, batch, restarts, overlap,
                    ran, dropped>>

\* _proposal_result: a new proposal drops a pending approval.
Propose(t) ==
  LET c == turn[t].conv
  IN /\ turn[t].at = "agents" /\ turn[t].automation = "ready"
     /\ proposals' \in Puts(proposals, c, t, now, ChangeTtl)
     /\ approvals' = Popped(approvals, c)
     /\ turn' = [turn EXCEPT ![t].automation = "over"]
     /\ dropped' = dropped \cup Items(approvals[c])
     /\ UNCHANGED <<now, batch, restarts, overlap, ran, applied>>

Finish(t) ==
  /\ turn[t].at = "agents" /\ turn[t].automation # "judge"
  /\ turn' = [turn EXCEPT ![t] = Over]
  /\ UNCHANGED <<now, approvals, proposals, batch, restarts, overlap,
                 history>>

-----------------------------------------------------------------------------
\* The client went away: the turn is cancelled where it waits.
Cancel(t) ==
  /\ turn[t].at \in Waiting
  /\ turn' = [turn EXCEPT ![t] = Over]
  /\ UNCHANGED <<now, approvals, proposals, batch, restarts, overlap,
                 history>>

\* The container restarts: turns and pending questions are in memory only.
Restart ==
  /\ restarts < MaxRestarts /\ restarts' = restarts + 1
  /\ approvals' = EmptyStore /\ proposals' = EmptyStore
  /\ turn' = [t \in Turns |->
       IF turn[t].at \in Waiting THEN Over ELSE turn[t]]
  /\ UNCHANGED <<now, batch, overlap, history>>

Tick ==
  /\ now < MaxTime /\ now' = now + 1
  /\ UNCHANGED <<approvals, proposals, batch, turn, restarts, overlap,
                 history>>

Next ==
  \/ \E t \in Turns :
       \/ \E c \in Conversations, r \in Requesters : Arrive(t, c, r)
       \/ \E d \in Decisions : AnswerExpired(t, d) \/ Refuse(t, d)
       \/ Confirm(t) \/ AskAgain(t)
       \/ \E call \in Calls : Execute(t, call)
       \/ \E calls \in SUBSET Calls \ {{}} : Hold(t, calls)
       \/ ReadProposal(t) \/ \E d \in Decisions : AnswerProposal(t, d)
       \/ Propose(t) \/ Finish(t) \/ Cancel(t)
  \/ Restart \/ Tick

Spec == Init /\ [][Next]_vars

-----------------------------------------------------------------------------
\* A held call is sent only for a confirmed batch it belongs to, by a turn of
\* the conversation, channel and user that were asked, and only if the batch
\* had not expired when that turn came (handle_pending_approval).
ConfirmedCalls ==
  [][\A x \in ran' \ ran :
       LET b == batch[x.item]
           t == turn[x.turn]
       IN /\ x.call \in b.calls /\ t.conv = b.conv /\ t.by = b.by
          /\ t.came - t.stored <= ApprovalTtl]_vars

\* One turn at a time: whatever a question asked for is done at most once,
\* over unclear answers, cancelled turns and late answers.
DoneOnce ==
  overlap = 1 =>
    /\ \A x, y \in ran :
         AskedIn(x.item) = AskedIn(y.item) /\ x.call = y.call
           => x.turn = y.turn
    /\ \A x, y \in applied : x.change = y.change => x = y

\* A conversation never has a pending approval and a pending proposal: a new
\* question of either kind drops an open one of the other (both puts).
OneOpenQuestion ==
  \A c \in Conversations :
    ~(approvals[c].kind = "active" /\ proposals[c].kind = "active")

\* One turn at a time: a batch that was declined, superseded, given up or
\* found expired is never executed afterwards, not even after the question
\* was put again (every exit of handle_pending_approval pops it).
DropIsFinal ==
  [][overlap = 1 => \A x \in ran' \ ran : x.item \notin dropped]_vars

\* One turn at a time: while the agents of one turn add to its question no
\* call they held is lost (put merges, touch puts back the same batch), if the
\* turn has a trace_id to tell its questions by.
CallsAddUp ==
  [][overlap = 1 =>
       \A c \in Conversations :
         LET old == approvals[c].item
             new == approvals'[c].item
         IN approvals[c].kind = "active" /\ approvals'[c].kind = "active"
              /\ AskedIn(old) = AskedIn(new) /\ AskedIn(old) \notin Untraced
              /\ now - approvals[c].at <= ApprovalTtl
              => batch[old].calls \subseteq batch'[new].calls]_vars
=============================================================================
