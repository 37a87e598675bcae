--------------------------- MODULE ApprovalProofs ---------------------------
(***************************************************************************)
(* Proofs about Approval: what is asked, answered and carried out, for any *)
(* number of conversations, turns, agents, calls and requesters.           *)
(*                                                                         *)
(* First the store and what each step of a turn does (Does), then Base,    *)
(* the invariant that holds however turns overlap, then Questions and      *)
(* Changes, which need turns of a conversation to come one at a time.      *)
(***************************************************************************)
EXTENDS Approval, TLAPS, FiniteSetTheorems

-----------------------------------------------------------------------------
(* The stores of open questions                                            *)

Entered(items) ==
  {NoEntry} \cup [kind : Kinds \ {"none"}, at : Nat, item : items]

\* What a store still has of an entry that no new question replaced.
Weaker(f, e) ==
  \/ f = NoEntry
  \/ /\ e.kind # "none" /\ f.kind # "none"
     /\ f.item = e.item /\ f.at = e.at
     /\ f.kind = "active" => e.kind = "active"

Kept(s, old) == \A c \in Conversations : Weaker(s[c], old[c])

\* The question of c is new, the others are what is left of the old ones.
Renewed(s, old, c, item) ==
  /\ s[c] = Active(item, now)
  /\ \A d \in Conversations \ {c} : Weaker(s[d], old[d])

LEMMA NoEntryKind == NoEntry.kind = "none"
  BY DEF NoEntry

LEMMA EntryAt ==
  ASSUME NEW items, NEW s \in Store(items), NEW c \in Conversations
  PROVE  /\ s[c] \in Entered(items)
         /\ s[c].kind \in Kinds /\ s[c].at \in Nat
         /\ s[c].kind = "none" => s[c] = NoEntry
         /\ s[c].kind # "none" => s[c].item \in items
  BY DEF Store, Entered, NoEntry, Kinds

LEMMA AgedWeaker ==
  ASSUME NEW items, NEW e \in Entered(items), NEW ttl \in Nat, now \in Nat
  PROVE  /\ Aged(e, now, ttl) \in Entered(items)
         /\ Weaker(Aged(e, now, ttl), e)
         /\ Aged(e, now, ttl).kind # "none" =>
              /\ e.kind # "none" /\ Aged(e, now, ttl).item = e.item
              /\ Aged(e, now, ttl).at = e.at
         /\ Aged(e, now, ttl).kind = "active" =>
              e.kind = "active" /\ now - e.at <= ttl
         /\ e.kind = "active" /\ now - e.at <= ttl /\ ttl <= TombstoneTtl
              => Aged(e, now, ttl) = e
<1>0. StoreAssumption
  BY StoreAssumption
<1>1. CASE e.kind = "none" \/ now - e.at > TombstoneTtl
  <2>1. Aged(e, now, ttl) = NoEntry
    BY <1>1 DEF Aged
  <2>2. e.at \in Nat
    BY DEF Entered, NoEntry
  <2> QED
    BY <1>0, <1>1, <2>1, <2>2 DEF Entered, Weaker, NoEntry, StoreAssumption
<1>2. CASE ~(e.kind = "none" \/ now - e.at > TombstoneTtl)
  <2>1. e \in [kind : Kinds \ {"none"}, at : Nat, item : items]
    BY <1>2 DEF Entered, NoEntry
  <2>2. CASE now - e.at > ttl
    <3>1. Aged(e, now, ttl) = [e EXCEPT !.kind = "tombstone"]
      BY <1>2, <2>2 DEF Aged
    <3> QED
      BY <1>0, <1>2, <2>1, <2>2, <3>1 DEF Entered, Weaker, Kinds,
         StoreAssumption
  <2>3. CASE ~(now - e.at > ttl)
    <3>1. Aged(e, now, ttl) = e
      BY <1>2, <2>3 DEF Aged
    <3> QED
      BY <1>0, <1>2, <2>1, <2>3, <3>1 DEF Entered, Weaker, Kinds,
         StoreAssumption
  <2> QED
    BY <2>2, <2>3
<1> QED
  BY <1>1, <1>2

LEMMA EntryWeaker ==
  ASSUME NEW items, NEW s \in Store(items), NEW c \in Conversations,
         NEW ttl \in Nat, now \in Nat
  PROVE  LET e == Entry(s, c, now, ttl)
         IN /\ e \in Entered(items)
            /\ e.kind # "none" =>
                 s[c].kind # "none" /\ e.item = s[c].item /\ e.at = s[c].at
            /\ e.kind = "active" =>
                 s[c].kind = "active" /\ now - e.at <= ttl
<1>1. s[c] \in Entered(items)
  BY EntryAt
<1>2. PICK f \in Entered(items) : f = s[c]
  BY <1>1
<1>3. Entry(s, c, now, ttl) = Aged(f, now, ttl)
  BY <1>2 DEF Entry
<1>4. /\ Aged(f, now, ttl) \in Entered(items)
      /\ Aged(f, now, ttl).kind # "none" =>
           /\ f.kind # "none" /\ Aged(f, now, ttl).item = f.item
           /\ Aged(f, now, ttl).at = f.at
      /\ Aged(f, now, ttl).kind = "active" =>
           f.kind = "active" /\ now - f.at <= ttl
  BY <1>2, AgedWeaker
<1> QED
  BY <1>2, <1>3, <1>4

LEMMA WeakerSelf ==
  ASSUME NEW items, NEW e \in Entered(items)
  PROVE  Weaker(e, e) /\ Weaker(NoEntry, e)
  BY DEF Weaker, Entered, NoEntry

LEMMA SeenKeeps ==
  ASSUME NEW items, NEW s \in Store(items), NEW c \in Conversations,
         NEW ttl \in Nat, now \in Nat
  PROVE  Seen(s, c, now, ttl) \in Store(items) /\ Kept(Seen(s, c, now, ttl), s)
<1> DEFINE w == Seen(s, c, now, ttl)
<1>1. \A d \in Conversations : s[d] \in Entered(items)
  BY EntryAt
<1>2. w = [s EXCEPT ![c] = Aged(s[c], now, ttl)]
  BY DEF Seen, Entry
<1>3. /\ Aged(s[c], now, ttl) \in Entered(items)
      /\ Weaker(Aged(s[c], now, ttl), s[c])
  BY <1>1, AgedWeaker
<1>4. \A d \in Conversations : Weaker(s[d], s[d])
  BY <1>1, WeakerSelf
<1>5. s \in [Conversations -> Entered(items)]
  BY DEF Store, Entered
<1> HIDE DEF w
<1>6. w \in [Conversations -> Entered(items)]
  BY <1>2, <1>3, <1>5
<1>7. Kept(w, s)
  BY <1>2, <1>3, <1>4, <1>5 DEF Kept
<1> QED
  BY <1>6, <1>7 DEF Store, Entered, w

LEMMA PoppedKeeps ==
  ASSUME NEW items, NEW s \in Store(items), NEW c \in Conversations
  PROVE  /\ Popped(s, c) \in Store(items) /\ Kept(Popped(s, c), s)
         /\ Popped(s, c)[c] = NoEntry
<1>1. \A d \in Conversations : s[d] \in Entered(items)
  BY EntryAt
<1>2. \A d \in Conversations : Weaker(s[d], s[d]) /\ Weaker(NoEntry, s[d])
  BY <1>1, WeakerSelf
<1>5. s \in [Conversations -> Entered(items)]
  BY DEF Store, Entered
<1>6. Popped(s, c) \in [Conversations -> Entered(items)]
  BY <1>5 DEF Popped, Entered
<1>7. Kept(Popped(s, c), s) /\ Popped(s, c)[c] = NoEntry
  BY <1>2, <1>5 DEF Kept, Popped
<1> QED
  BY <1>6, <1>7 DEF Store, Entered

LEMMA EmptyKeeps ==
  ASSUME NEW items, NEW s \in Store(items)
  PROVE  EmptyStore \in Store(items) /\ Kept(EmptyStore, s)
  BY DEF EmptyStore, Store, Kept, Weaker

LEMMA SameKept ==
  ASSUME NEW items, NEW s \in Store(items)
  PROVE  Kept(s, s)
  BY EntryAt, WeakerSelf DEF Kept

LEMMA PutRenews ==
  ASSUME NEW items, NEW s \in Store(items), NEW c \in Conversations,
         NEW item \in items, NEW ttl \in Nat, now \in Nat,
         NEW w \in Puts(s, c, item, now, ttl)
  PROVE  w \in Store(items) /\ Renewed(w, s, c, item)
<1> DEFINE a == Active(item, now)
           p == Purged(s, now, ttl)
           stored == [p EXCEPT ![c] = a]
<1>1. \A d \in Conversations : s[d] \in Entered(items)
  BY EntryAt
<1>2. a \in Entered(items)
  BY DEF Active, Entered, Kinds
<1>3. p = [d \in Conversations |-> Aged(s[d], now, ttl)]
  BY DEF Purged
<1>4. \A d \in Conversations :
        /\ Aged(s[d], now, ttl) \in Entered(items)
        /\ Weaker(Aged(s[d], now, ttl), s[d])
  BY <1>1, AgedWeaker
<1>5. stored \in [Conversations -> Entered(items)]
  BY <1>2, <1>3, <1>4
<1>6. stored[c] = a /\ \A d \in Conversations \ {c} : Weaker(stored[d], s[d])
  BY <1>3, <1>4
<1>7. \/ w = stored
      \/ \E d \in Conversations \ {c} : w = [stored EXCEPT ![d] = NoEntry]
  BY DEF Puts, OldestBut, Popped, Occupied
<1>8. /\ NoEntry \in Entered(items)
      /\ \A d \in Conversations : Weaker(NoEntry, s[d])
  BY DEF Entered, Weaker
<1> HIDE DEF a, stored, p
<1>9. w \in [Conversations -> Entered(items)]
  BY <1>5, <1>7, <1>8
<1>10. w[c] = a /\ \A d \in Conversations \ {c} : Weaker(w[d], s[d])
  BY <1>5, <1>6, <1>7, <1>8
<1> QED
  BY <1>9, <1>10 DEF Store, Entered, Renewed, a

-----------------------------------------------------------------------------
(* The inductive invariant                                                 *)

Deciding(t) == turn[t].at \in {"judge", "execute"}
Judging(t) == turn[t].automation = "judge"
Asker(t) == AskedIn(turn[t].item)
Open(c) == approvals[c].kind # "none"
Proposal(c) == proposals[c].kind # "none"

\* A question that was asked, or may have been: its asker is past it.
Put(b) == turn[AskedIn(b)].at = "done" \/ b[2] <= turn[AskedIn(b)].puts

\* A proposal that was made, or may have been.
ProposedOf(x) == x.at = "done" \/ x.automation = "over"
Proposed(p) == ProposedOf(turn[p])

TurnShape(x) ==
  /\ x.puts > 0 \/ x.automation # "idle" => x.at = "agents"
  /\ x.at \in Waiting => x.conv \in Conversations
  /\ x.automation = "judge" => x.change \in Turns
  /\ x.at \in {"judge", "execute"} => x.item \in Batches
  /\ (x.at = "judge" /\ x.kind = "active") \/ x.at = "execute"
       => x.came - x.stored <= ApprovalTtl

\* What was asked is in the conversation of its asker.
Asking ==
  /\ \A b \in Batches : batch[b].conv # None =>
       /\ Put(b)
       /\ turn[AskedIn(b)].at = "agents" =>
            turn[AskedIn(b)].conv = batch[b].conv
  /\ \A b, d \in Batches :
       AskedIn(b) = AskedIn(d) /\ batch[b].conv # None /\ batch[d].conv # None
         => batch[b].conv = batch[d].conv

Opened ==
  \A c \in Conversations : Open(c) => batch[approvals[c].item].conv = c

\* A turn that answers is of the conversation and requester that were asked.
Answering ==
  \A t \in Turns : Deciding(t) =>
    /\ batch[turn[t].item].conv = turn[t].conv
    /\ batch[turn[t].item].by = turn[t].by
    /\ turn[t].at = "execute" =>
         turn[t].todo \subseteq batch[turn[t].item].calls

Base ==
  /\ TypeOK /\ (\A t \in Turns : TurnShape(turn[t]))
  /\ Asking /\ Opened /\ Answering

-----------------------------------------------------------------------------
(* Records                                                                 *)

LEMMA BatchParts ==
  ASSUME NEW b \in Batches
  PROVE  /\ AskedIn(b) \in Turns /\ b[2] \in Nat \ {0}
         /\ b = <<AskedIn(b), b[2]>> /\ b # None
  BY ApprovalAssumption DEF Batches, AskedIn, ApprovalAssumption

LEMMA Limits ==
  /\ ApprovalTtl \in Nat /\ ChangeTtl \in Nat /\ TombstoneTtl \in Nat
  /\ ApprovalTtl <= TombstoneTtl /\ MaxAgents \in Nat /\ MaxAgents >= 1
  /\ MaxTime \in Nat /\ MaxRestarts \in Nat
  /\ None \notin Conversations /\ None \notin Turns
  /\ Overlaps \subseteq Nat
  BY ApprovalAssumption, StoreAssumption DEF ApprovalAssumption, StoreAssumption

LEMMA NewTyped ==
  /\ NewTurn \in Turn
  /\ NewTurn.at = "new" /\ NewTurn.puts = 0 /\ NewTurn.automation = "idle"
  /\ NewTurn.todo = {}
  BY Limits DEF NewTurn, Turn, Stages, Kinds

LEMMA OverTyped ==
  /\ Over \in Turn /\ TurnShape(Over)
  /\ Over.at = "done" /\ Over.puts = 0 /\ Over.automation = "idle"
  BY Limits DEF Over, NewTurn, Turn, Stages, Kinds, TurnShape, Waiting

LEMMA TurnParts ==
  ASSUME TypeOK, NEW t \in Turns
  PROVE  /\ turn[t] \in Turn /\ turn[t].at \in Stages
         /\ turn[t].conv \in Conversations \cup {None}
         /\ turn[t].by \in Requesters \cup {None}
         /\ turn[t].puts \in Nat /\ turn[t].stored \in Nat
         /\ turn[t].came \in Nat /\ turn[t].todo \subseteq Calls
  BY Limits DEF TypeOK, Turn

\* A turn that is at its agents after it did not answer.
AtAgents(j, conv, by) ==
  /\ j.at = "agents" /\ j.conv = conv /\ j.by = by
  /\ j.puts = 0 /\ j.automation = "idle"

LEMMA HereTyped ==
  ASSUME NEW c \in Conversations, NEW r \in Requesters \cup {None}
  PROVE  LET j == [NewTurn EXCEPT !.at = "agents", !.conv = c, !.by = r]
         IN  j \in Turn /\ TurnShape(j) /\ AtAgents(j, c, r)
<1> DEFINE j == [NewTurn EXCEPT !.at = "agents", !.conv = c, !.by = r]
<1>1. /\ j \in Turn /\ j.at = "agents" /\ j.conv = c /\ j.by = r
      /\ j.puts = 0 /\ j.automation = "idle"
  BY NewTyped DEF Turn, Stages
<1> HIDE DEF j
<1>2. j \in Turn
  BY <1>1
<1>3. TurnShape(j)
  BY <1>1 DEF TurnShape, Waiting
<1>4. AtAgents(j, c, r)
  BY <1>1 DEF AtAgents
<1> QED
  BY <1>2, <1>3, <1>4 DEF j

LEMMA GoingTyped ==
  ASSUME TypeOK, NEW t \in Turns, turn[t].conv \in Conversations,
         NEW stage \in {"agents", "done"}
  PROVE  /\ Going(t, stage) \in Turn /\ TurnShape(Going(t, stage))
         /\ \/ Going(t, stage) = Over
            \/ AtAgents(Going(t, stage), turn[t].conv, turn[t].by)
<1>1. CASE stage = "done"
  BY <1>1, OverTyped DEF Going
<1>2. CASE stage = "agents"
  <2>1. turn[t].by \in Requesters \cup {None}
    BY TurnParts
  <2>2. Going(t, stage) =
          [NewTurn EXCEPT !.at = "agents", !.conv = turn[t].conv,
                          !.by = turn[t].by]
    BY <1>2 DEF Going
  <2> QED
    BY <2>1, <2>2, HereTyped
<1> QED
  BY <1>1, <1>2

-----------------------------------------------------------------------------
(* What the steps do                                                       *)

Moves(t, j) == j \in Turn /\ TurnShape(j) /\ turn' = [turn EXCEPT ![t] = j]

Frame == UNCHANGED <<now, restarts, overlap>>

\* The open question of c is dropped.
DropsOpen(c) ==
  /\ Open(c) /\ approvals'[c] = NoEntry
  /\ dropped' = dropped \cup {approvals[c].item}

Judges(j, c) ==
  /\ j.at = "judge" /\ j.puts = 0 /\ j.automation = "idle"
  /\ Open(c) /\ j.item = approvals[c].item
  /\ batch[j.item].by = j.by /\ j.conv = c
  /\ j.kind = "active" => approvals[c].kind = "active"

ArriveDoes(t, c, r, j) ==
  /\ turn[t].at = "new" /\ Moves(t, j) /\ Cardinality(InFlight(c)) < overlap
  /\ approvals' \in Store(Batches) /\ Kept(approvals', approvals)
  /\ \/ AtAgents(j, c, r) /\ (DropsOpen(c) \/ UNCHANGED dropped)
     \/ Judges(j, c) /\ j.by = r /\ UNCHANGED dropped
  /\ Frame /\ UNCHANGED <<proposals, batch, ran, applied>>

LEMMA Arrives ==
  ASSUME TypeOK, NEW t \in Turns, NEW c \in Conversations, NEW r \in Requesters,
         Arrive(t, c, r)
  PROVE  \E j : ArriveDoes(t, c, r, j)
<1> DEFINE e == Entry(approvals, c, now, ApprovalTtl)
           here == [NewTurn EXCEPT !.conv = c, !.by = r]
           agents == [here EXCEPT !.at = "agents"]
           judge == [here EXCEPT !.at = "judge", !.item = e.item,
                                 !.kind = e.kind, !.stored = e.at,
                                 !.came = now]
<1>1. approvals \in Store(Batches) /\ now \in Nat
  BY Limits DEF TypeOK
<1>3. /\ e \in Entered(Batches)
      /\ e.kind # "none" => /\ Open(c) /\ e.item = approvals[c].item
                            /\ e.at = approvals[c].at
      /\ e.kind = "active" =>
           now - e.at <= ApprovalTtl /\ approvals[c].kind = "active"
  BY <1>1, Limits, EntryWeaker DEF Open
<1>4. e.kind # "none" =>
        e.item \in Batches /\ e.at \in Nat /\ e.kind \in Kinds
  BY <1>3 DEF Entered, Kinds, NoEntry
<1>5. agents \in Turn /\ TurnShape(agents) /\ AtAgents(agents, c, r)
  <2>1. agents = [NewTurn EXCEPT !.at = "agents", !.conv = c, !.by = r]
    BY DEF NewTurn
  <2> QED
    BY <2>1, HereTyped
<1>6. ASSUME e.kind # "none"
      PROVE  /\ judge \in Turn /\ TurnShape(judge) /\ judge.at = "judge"
             /\ judge.item = e.item /\ judge.conv = c /\ judge.by = r
             /\ judge.kind = e.kind
             /\ judge.puts = 0 /\ judge.automation = "idle"
  <2> HIDE DEF e
  <2>1. /\ judge \in Turn /\ judge.at = "judge" /\ judge.conv = c
        /\ judge.by = r /\ judge.item = e.item /\ judge.kind = e.kind
        /\ judge.stored = e.at /\ judge.came = now
        /\ judge.puts = 0 /\ judge.automation = "idle"
    BY <1>1, <1>4, <1>6, NewTyped DEF Turn, Stages
  <2> HIDE DEF judge
  <2>2. judge \in Turn
    BY <2>1
  <2>3. TurnShape(judge)
    BY <1>3, <1>4, <1>6, <2>1 DEF TurnShape, Waiting
  <2> QED
    BY <2>1, <2>2, <2>3
<1>7. /\ Seen(approvals, c, now, ApprovalTtl) \in Store(Batches)
      /\ Kept(Seen(approvals, c, now, ApprovalTtl), approvals)
      /\ Popped(approvals, c) \in Store(Batches)
      /\ Kept(Popped(approvals, c), approvals)
      /\ Popped(approvals, c)[c] = NoEntry
      /\ Kept(approvals, approvals)
  BY <1>1, Limits, SeenKeeps, PoppedKeeps, SameKept
<1>8. /\ turn[t].at = "new" /\ Cardinality(InFlight(c)) < overlap
      /\ Frame /\ UNCHANGED <<proposals, batch, ran, applied>>
  BY DEF Arrive, Frame
<1>9. \/ /\ turn' = [turn EXCEPT ![t] = agents]
         /\ UNCHANGED <<approvals, dropped>>
      \/ /\ turn' = [turn EXCEPT ![t] = agents]
         /\ approvals' = Seen(approvals, c, now, ApprovalTtl)
         /\ UNCHANGED dropped
      \/ /\ e.kind # "none"
         /\ turn' = [turn EXCEPT ![t] = agents]
         /\ approvals' = Popped(approvals, c)
         /\ dropped' = dropped \cup {e.item}
      \/ /\ e.kind # "none" /\ batch[e.item].by = r
         /\ turn' = [turn EXCEPT ![t] = judge]
         /\ approvals' = Seen(approvals, c, now, ApprovalTtl)
         /\ UNCHANGED dropped
  BY DEF Arrive, MayAnswer
<1> HIDE DEF e, agents, judge
<1>10. \/ ArriveDoes(t, c, r, agents) \/ ArriveDoes(t, c, r, judge)
  BY <1>1, <1>3, <1>5, <1>6, <1>7, <1>8, <1>9
  DEF ArriveDoes, Moves, DropsOpen, Judges
<1> QED
  BY <1>10

\* The answer took the question away and does not carry it out.
SettleDoes(t, j) ==
  /\ turn[t].at = "judge" /\ Moves(t, j)
  /\ j = Over \/ AtAgents(j, turn[t].conv, turn[t].by)
  /\ approvals' \in Store(Batches) /\ Kept(approvals', approvals)
  /\ approvals'[turn[t].conv] = NoEntry
  /\ dropped' = dropped \cup {turn[t].item}
  /\ Frame /\ UNCHANGED <<proposals, batch, ran, applied>>

LEMMA Settles ==
  ASSUME TypeOK, \A u \in Turns : TurnShape(turn[u]), NEW t \in Turns,
         NEW d \in Decisions, AnswerExpired(t, d) \/ Refuse(t, d)
  PROVE  \E j : SettleDoes(t, j)
<1>1. turn[t].at = "judge" /\ turn[t].conv \in Conversations
  BY DEF AnswerExpired, Refuse, Judged, TurnShape, Waiting
<1>2. PICK stage \in {"agents", "done"} : Settle(t, stage)
  BY DEF AnswerExpired, Refuse
<1>3. approvals \in Store(Batches)
  BY DEF TypeOK
<1>4. /\ Popped(approvals, turn[t].conv) \in Store(Batches)
      /\ Kept(Popped(approvals, turn[t].conv), approvals)
      /\ Popped(approvals, turn[t].conv)[turn[t].conv] = NoEntry
  BY <1>1, <1>3, PoppedKeeps
<1>5. /\ Going(t, stage) \in Turn /\ TurnShape(Going(t, stage))
      /\ \/ Going(t, stage) = Over
         \/ AtAgents(Going(t, stage), turn[t].conv, turn[t].by)
  BY <1>1, GoingTyped
<1>6. /\ Frame /\ UNCHANGED <<proposals, batch, ran, applied>>
      /\ dropped' = dropped \cup {turn[t].item}
  BY DEF AnswerExpired, Refuse, Frame
<1>7. SettleDoes(t, Going(t, stage))
  BY <1>1, <1>2, <1>4, <1>5, <1>6 DEF SettleDoes, Settle, Moves
<1> QED
  BY <1>7

ConfirmDoes(t, j) ==
  /\ turn[t].at = "judge" /\ Moves(t, j)
  /\ j.at = "execute" /\ j.item = turn[t].item /\ j.conv = turn[t].conv
  /\ j.by = turn[t].by /\ j.puts = 0 /\ j.automation = "idle"
  /\ j.todo = batch[turn[t].item].calls
  /\ approvals' \in Store(Batches) /\ Kept(approvals', approvals)
  /\ approvals'[turn[t].conv] = NoEntry
  /\ Frame /\ UNCHANGED <<proposals, batch, history>>

LEMMA Confirms ==
  ASSUME TypeOK, \A u \in Turns : TurnShape(turn[u]), NEW t \in Turns,
         Confirm(t)
  PROVE  \E j : ConfirmDoes(t, j)
<1> DEFINE calls == batch[turn[t].item].calls
           j == [turn[t] EXCEPT !.at = "execute", !.todo = calls]
<1>1. turn[t].at = "judge" /\ turn[t].kind = "active"
  BY DEF Confirm, Judged
<1>2. /\ turn[t] \in Turn /\ TurnShape(turn[t]) /\ turn[t].item \in Batches
      /\ turn[t].conv \in Conversations
      /\ turn[t].puts = 0 /\ turn[t].automation = "idle"
  BY <1>1, TurnParts, Limits DEF TurnShape, Waiting
<1>3. /\ approvals \in Store(Batches) /\ calls \in SUBSET Calls
      /\ turn \in [Turns -> Turn]
  BY <1>2 DEF TypeOK, Batch
<1>4. /\ Popped(approvals, turn[t].conv) \in Store(Batches)
      /\ Kept(Popped(approvals, turn[t].conv), approvals)
      /\ Popped(approvals, turn[t].conv)[turn[t].conv] = NoEntry
  BY <1>2, <1>3, PoppedKeeps
<1>5. /\ approvals' = Popped(approvals, turn[t].conv)
      /\ turn' = [turn EXCEPT ![t].at = "execute", ![t].todo = calls]
      /\ Frame /\ UNCHANGED <<proposals, batch, history>>
  BY DEF Confirm, Frame
<1> HIDE DEF calls
<1>6. turn' = [turn EXCEPT ![t] = j]
  BY <1>3, <1>5
<1>7. /\ j \in Turn /\ j.at = "execute" /\ j.item = turn[t].item
      /\ j.conv = turn[t].conv /\ j.by = turn[t].by /\ j.todo = calls
      /\ j.puts = 0 /\ j.automation = "idle"
      /\ j.came = turn[t].came /\ j.stored = turn[t].stored
  BY <1>2, <1>3 DEF Turn, Stages
<1> HIDE DEF j
<1>8. TurnShape(j)
  BY <1>1, <1>2, <1>7 DEF TurnShape, Waiting
<1>9. ConfirmDoes(t, j)
  BY <1>1, <1>2, <1>4, <1>5, <1>6, <1>7, <1>8 DEF ConfirmDoes, Moves, calls
<1> QED
  BY <1>9

AskAgainDoes(t) ==
  /\ turn[t].at = "judge" /\ turn[t].kind = "active" /\ Moves(t, Over)
  /\ batch' \in [Batches -> Batch]
  /\ \A b \in Batches :
       /\ batch'[b].conv = batch[b].conv /\ batch'[b].by = batch[b].by
       /\ batch'[b].calls = batch[b].calls
  /\ approvals' \in Store(Batches)
  /\ Renewed(approvals', approvals, turn[t].conv, turn[t].item)
  /\ Frame /\ UNCHANGED <<proposals, history>>

LEMMA AsksAgain ==
  ASSUME TypeOK, \A u \in Turns : TurnShape(turn[u]), NEW t \in Turns,
         AskAgain(t)
  PROVE  AskAgainDoes(t)
<1>1. turn[t].at = "judge" /\ turn[t].kind = "active"
  BY DEF AskAgain, Judged
<1>2. turn[t].item \in Batches /\ turn[t].conv \in Conversations
  BY <1>1 DEF TurnShape, Waiting
<1>3. /\ approvals \in Store(Batches) /\ now \in Nat
      /\ batch \in [Batches -> Batch]
  BY Limits DEF TypeOK
<1>4. approvals' \in
        Puts(approvals, turn[t].conv, turn[t].item, now, ApprovalTtl)
  BY DEF AskAgain
<1>5. /\ approvals' \in Store(Batches)
      /\ Renewed(approvals', approvals, turn[t].conv, turn[t].item)
  BY <1>2, <1>3, <1>4, Limits, PutRenews
<1>6. batch' = [batch EXCEPT ![turn[t].item].reasked = TRUE]
  BY DEF AskAgain
<1>7. batch' \in [Batches -> Batch]
  BY <1>2, <1>3, <1>6 DEF Batch
<1>8. \A b \in Batches :
       /\ batch'[b].conv = batch[b].conv /\ batch'[b].by = batch[b].by
       /\ batch'[b].calls = batch[b].calls
  BY <1>2, <1>3, <1>6 DEF Batch
<1>9. Moves(t, Over) /\ Frame /\ UNCHANGED <<proposals, history>>
  BY OverTyped DEF AskAgain, Moves, Frame, history
<1> QED
  BY <1>1, <1>5, <1>7, <1>8, <1>9 DEF AskAgainDoes

ExecuteDoes(t, call, j) ==
  /\ turn[t].at = "execute" /\ call \in turn[t].todo /\ Moves(t, j)
  /\ \/ j = Over
     \/ /\ j.at = "execute" /\ j.item = turn[t].item /\ j.conv = turn[t].conv
        /\ j.by = turn[t].by /\ j.puts = 0 /\ j.automation = "idle"
        /\ j.todo \subseteq turn[t].todo
  /\ \/ UNCHANGED ran
     \/ ran' = ran \cup {[turn |-> t, item |-> turn[t].item, call |-> call]}
  /\ Frame /\ UNCHANGED <<approvals, proposals, batch, applied, dropped>>

LEMMA Executes ==
  ASSUME TypeOK, \A u \in Turns : TurnShape(turn[u]), NEW t \in Turns,
         NEW call \in Calls, Execute(t, call)
  PROVE  \E j : ExecuteDoes(t, call, j)
<1> DEFINE rest == [turn[t] EXCEPT !.todo = turn[t].todo \ {call}]
<1>1. turn[t].at = "execute" /\ call \in turn[t].todo
  BY DEF Execute
<1>2. /\ turn[t] \in Turn /\ TurnShape(turn[t]) /\ turn \in [Turns -> Turn]
      /\ turn[t].puts = 0 /\ turn[t].automation = "idle"
  BY <1>1, TurnParts, Limits DEF TurnShape, TypeOK
<1>3. /\ rest \in Turn /\ rest.at = turn[t].at /\ rest.item = turn[t].item
      /\ rest.conv = turn[t].conv /\ rest.by = turn[t].by
      /\ rest.puts = turn[t].puts /\ rest.automation = turn[t].automation
      /\ rest.todo \subseteq turn[t].todo /\ rest.kind = turn[t].kind
      /\ rest.change = turn[t].change
      /\ rest.came = turn[t].came /\ rest.stored = turn[t].stored
  BY <1>2 DEF Turn
<1>4. \/ turn' = [turn EXCEPT ![t] = Over]
      \/ turn' = [turn EXCEPT ![t] = rest]
  <2>1. turn' = IF turn[t].todo = {call} THEN [turn EXCEPT ![t] = Over]
                ELSE [turn EXCEPT ![t].todo = @ \ {call}]
    BY DEF Execute
  <2> QED
    BY <1>2, <2>1
<1> HIDE DEF rest
<1>5. TurnShape(rest)
  BY <1>2, <1>3 DEF TurnShape
<1>6. /\ \/ UNCHANGED ran
         \/ ran' = ran \cup {[turn |-> t, item |-> turn[t].item, call |-> call]}
      /\ Frame /\ UNCHANGED <<approvals, proposals, batch, applied, dropped>>
  BY DEF Execute, Frame
<1>7. ExecuteDoes(t, call, Over) \/ ExecuteDoes(t, call, rest)
  BY <1>1, <1>2, <1>3, <1>4, <1>5, <1>6, OverTyped DEF ExecuteDoes, Moves
<1> QED
  BY <1>7

\* The turn stays with its agents.
Stays(t, j) ==
  /\ turn[t].at = "agents" /\ Moves(t, j)
  /\ j.at = "agents" /\ j.conv = turn[t].conv /\ j.by = turn[t].by

NextBatch(t) == <<t, turn[t].puts + 1>>

HoldDoes(t, calls, j, m) ==
  /\ Stays(t, j) /\ j.puts = turn[t].puts + 1
  /\ j.automation = turn[t].automation /\ j.change = turn[t].change
  /\ NextBatch(t) \in Batches /\ m \in Batch
  /\ batch' = [batch EXCEPT ![NextBatch(t)] = m]
  /\ m.conv = turn[t].conv /\ m.by = turn[t].by /\ m.calls = Merged(t, calls)
  /\ approvals' \in Store(Batches)
  /\ Renewed(approvals', approvals, turn[t].conv, NextBatch(t))
  /\ proposals' \in Store(Turns) /\ Kept(proposals', proposals)
  /\ proposals'[turn[t].conv] = NoEntry
  /\ dropped' = dropped \cup Superseded(t)
  /\ Frame /\ UNCHANGED <<ran, applied>>

LEMMA AgentsParts ==
  ASSUME TypeOK, \A u \in Turns : TurnShape(turn[u]), NEW t \in Turns,
         turn[t].at = "agents"
  PROVE  /\ turn[t] \in Turn /\ TurnShape(turn[t]) /\ turn \in [Turns -> Turn]
         /\ turn[t].conv \in Conversations /\ turn[t].puts \in Nat
         /\ approvals \in Store(Batches) /\ proposals \in Store(Turns)
         /\ now \in Nat /\ batch \in [Batches -> Batch]
  BY TurnParts, Limits DEF TurnShape, Waiting, TypeOK

LEMMA MergedTyped ==
  ASSUME TypeOK, NEW t \in Turns, NEW calls \in SUBSET Calls,
         turn[t].conv \in Conversations
  PROVE  Merged(t, calls) \in SUBSET Calls
<1> DEFINE e == Entry(approvals, turn[t].conv, now, ApprovalTtl)
<1>1. /\ approvals \in Store(Batches) /\ now \in Nat
      /\ batch \in [Batches -> Batch]
  BY Limits DEF TypeOK
<1>3. e \in Entered(Batches)
  BY <1>1, Limits, EntryWeaker
<1>4. e.kind = "active" => e.item \in Batches
  BY <1>3 DEF Entered, NoEntry
<1> HIDE DEF e
<1>5. e.kind = "active" => batch[e.item].calls \in SUBSET Calls
  BY <1>1, <1>4 DEF Batch
<1> QED
  BY <1>5 DEF Merged, e

LEMMA Holds ==
  ASSUME TypeOK, \A u \in Turns : TurnShape(turn[u]), NEW t \in Turns,
         NEW calls \in SUBSET Calls, Hold(t, calls)
  PROVE  \E j, m : HoldDoes(t, calls, j, m)
<1> DEFINE j == [turn[t] EXCEPT !.puts = @ + 1]
           b == NextBatch(t)
           m == [conv |-> turn[t].conv, by |-> turn[t].by,
                 calls |-> Merged(t, calls), reasked |-> FALSE]
           c == turn[t].conv
<1>1. turn[t].at = "agents" /\ turn[t].puts < AgentsPerTurn
  BY DEF Hold
<1>2. /\ turn[t] \in Turn /\ TurnShape(turn[t]) /\ turn \in [Turns -> Turn]
      /\ c \in Conversations /\ turn[t].puts \in Nat
      /\ approvals \in Store(Batches) /\ proposals \in Store(Turns)
      /\ now \in Nat /\ batch \in [Batches -> Batch]
  BY <1>1, AgentsParts
<1>3. turn[t].puts + 1 \in 1 .. MaxAgents
  BY <1>1, <1>2, Limits DEF AgentsPerTurn
<1>4. b \in Batches
  BY <1>3 DEF NextBatch, Batches
<1>5. m \in Batch
  BY <1>2, MergedTyped, TurnParts DEF Batch
<1>6. approvals' \in Puts(approvals, c, b, now, ApprovalTtl)
  BY DEF Hold, NextBatch
<1>7. approvals' \in Store(Batches) /\ Renewed(approvals', approvals, c, b)
  BY <1>2, <1>4, <1>6, Limits, PutRenews
<1>8. /\ proposals' \in Store(Turns) /\ Kept(proposals', proposals)
      /\ proposals'[c] = NoEntry
  BY <1>2, PoppedKeeps DEF Hold
<1>9. /\ j \in Turn /\ j.at = "agents" /\ j.conv = turn[t].conv
      /\ j.by = turn[t].by /\ j.puts = turn[t].puts + 1
      /\ j.automation = turn[t].automation /\ j.change = turn[t].change
  <2>1. turn[t].puts + 1 \in 0 .. MaxAgents
    BY <1>3, Limits
  <2> QED
    BY <1>1, <1>2, <2>1 DEF Turn
<1>10. turn' = [turn EXCEPT ![t] = j] /\ batch' = [batch EXCEPT ![b] = m]
  BY <1>2 DEF Hold, NextBatch
<1>11. /\ dropped' = dropped \cup Superseded(t)
       /\ Frame /\ UNCHANGED <<ran, applied>>
  BY DEF Hold, Frame
<1>12. m.conv = turn[t].conv /\ m.by = turn[t].by /\ m.calls = Merged(t, calls)
  OBVIOUS
<1> HIDE DEF j, m
<1>13. TurnShape(j)
  BY <1>2, <1>9 DEF TurnShape, Waiting
<1>14. HoldDoes(t, calls, j, m)
  BY <1>1, <1>4, <1>5, <1>7, <1>8, <1>9, <1>10, <1>11, <1>12, <1>13
  DEF HoldDoes, Stays, Moves
<1> QED
  BY <1>14

ReadDoes(t, j) ==
  /\ Stays(t, j) /\ j.puts = turn[t].puts
  /\ turn[t].automation = "idle" /\ j.automation \in {"judge", "ready", "over"}
  /\ j.automation = "judge" =>
       Proposal(turn[t].conv) /\ j.change = proposals[turn[t].conv].item
  /\ proposals' \in Store(Turns) /\ Kept(proposals', proposals)
  /\ Frame /\ UNCHANGED <<approvals, batch, history>>

LEMMA Reads ==
  ASSUME TypeOK, \A u \in Turns : TurnShape(turn[u]), NEW t \in Turns,
         ReadProposal(t)
  PROVE  \E j : ReadDoes(t, j)
<1> DEFINE c == turn[t].conv
           e == Entry(proposals, c, now, ChangeTtl)
           j1(x) == [turn[t] EXCEPT !.automation = x]
           j2 == [turn[t] EXCEPT !.automation = "judge", !.change = e.item]
<1>1. turn[t].at = "agents" /\ turn[t].automation = "idle"
  BY DEF ReadProposal
<1>2. /\ turn[t] \in Turn /\ TurnShape(turn[t]) /\ turn \in [Turns -> Turn]
      /\ c \in Conversations /\ turn[t].puts \in Nat
      /\ proposals \in Store(Turns) /\ now \in Nat
  BY <1>1, AgentsParts
<1>4. /\ e \in Entered(Turns)
      /\ e.kind # "none" => Proposal(c) /\ e.item = proposals[c].item
  BY <1>2, Limits, EntryWeaker DEF Proposal
<1>5. e.kind # "none" => e.item \in Turns
  BY <1>4 DEF Entered, NoEntry
<1>6. /\ Seen(proposals, c, now, ChangeTtl) \in Store(Turns)
      /\ Kept(Seen(proposals, c, now, ChangeTtl), proposals)
      /\ Popped(proposals, c) \in Store(Turns)
      /\ Kept(Popped(proposals, c), proposals)
  BY <1>2, Limits, SeenKeeps, PoppedKeeps
<1>7. /\ \/ \E x \in {"over", "ready"} :
              turn' = [turn EXCEPT ![t].automation = x]
         \/ /\ e.kind # "none"
            /\ turn' = [turn EXCEPT ![t].automation = "judge",
                                    ![t].change = e.item]
      /\ \/ proposals' = Seen(proposals, c, now, ChangeTtl)
         \/ proposals' = Popped(proposals, c)
      /\ Frame /\ UNCHANGED <<approvals, batch, history>>
  BY DEF ReadProposal, Frame
<1> HIDE DEF e
<1>8. CASE \E x \in {"over", "ready"} :
             turn' = [turn EXCEPT ![t].automation = x]
  <2>1. PICK x \in {"over", "ready"} : turn' = [turn EXCEPT ![t].automation = x]
    BY <1>8
  <2>2. /\ j1(x) \in Turn /\ j1(x).at = "agents" /\ j1(x).conv = turn[t].conv
        /\ j1(x).by = turn[t].by /\ j1(x).puts = turn[t].puts
        /\ j1(x).automation = x /\ turn' = [turn EXCEPT ![t] = j1(x)]
    BY <1>1, <1>2, <2>1 DEF Turn
  <2> HIDE DEF j1
  <2>3. TurnShape(j1(x))
    BY <1>2, <2>2 DEF TurnShape, Waiting
  <2>4. ReadDoes(t, j1(x))
    BY <1>1, <1>6, <1>7, <2>2, <2>3 DEF ReadDoes, Stays, Moves
  <2> QED
    BY <2>4
<1>9. CASE /\ e.kind # "none"
           /\ turn' = [turn EXCEPT ![t].automation = "judge",
                                   ![t].change = e.item]
  <2>2. /\ j2 \in Turn /\ j2.at = "agents" /\ j2.conv = turn[t].conv
        /\ j2.by = turn[t].by /\ j2.puts = turn[t].puts
        /\ j2.automation = "judge" /\ j2.change = e.item
        /\ turn' = [turn EXCEPT ![t] = j2]
    BY <1>1, <1>2, <1>5, <1>9 DEF Turn
  <2> HIDE DEF j2
  <2>3. TurnShape(j2)
    BY <1>2, <1>5, <1>9, <2>2 DEF TurnShape, Waiting
  <2>4. ReadDoes(t, j2)
    BY <1>1, <1>4, <1>6, <1>7, <1>9, <2>2, <2>3 DEF ReadDoes, Stays, Moves
  <2> QED
    BY <2>4
<1> QED
  BY <1>7, <1>8, <1>9

AnswerDoes(t, j) ==
  /\ Stays(t, j) /\ j.puts = turn[t].puts
  /\ turn[t].automation = "judge" /\ j.automation \in {"ready", "over"}
  /\ proposals' \in Store(Turns) /\ Kept(proposals', proposals)
  /\ \/ UNCHANGED applied
     \/ /\ applied' = applied \cup {[turn |-> t, change |-> turn[t].change]}
        /\ proposals'[turn[t].conv] = NoEntry
  /\ Frame /\ UNCHANGED <<approvals, batch, ran, dropped>>

LEMMA Answers ==
  ASSUME TypeOK, \A u \in Turns : TurnShape(turn[u]), NEW t \in Turns,
         NEW d \in Decisions, AnswerProposal(t, d)
  PROVE  \E j : AnswerDoes(t, j)
<1> DEFINE c == turn[t].conv
           x == IF d \in {"modify", "unrelated"} THEN "ready" ELSE "over"
           j == [turn[t] EXCEPT !.change = None, !.automation = x]
<1>1. turn[t].at = "agents" /\ turn[t].automation = "judge"
  BY DEF AnswerProposal
<1>2. /\ turn[t] \in Turn /\ TurnShape(turn[t]) /\ turn \in [Turns -> Turn]
      /\ c \in Conversations /\ turn[t].puts \in Nat
      /\ proposals \in Store(Turns) /\ now \in Nat
  BY <1>1, AgentsParts
<1>3. /\ Popped(proposals, c) \in Store(Turns)
      /\ Kept(Popped(proposals, c), proposals)
      /\ Popped(proposals, c)[c] = NoEntry
      /\ Kept(proposals, proposals)
  BY <1>2, PoppedKeeps, SameKept
<1>4. /\ turn' = [turn EXCEPT ![t].change = None, ![t].automation = x]
      /\ \/ proposals' = proposals \/ proposals' = Popped(proposals, c)
      /\ \/ UNCHANGED applied
         \/ /\ applied' = applied \cup {[turn |-> t, change |-> turn[t].change]}
            /\ proposals' = Popped(proposals, c)
      /\ Frame /\ UNCHANGED <<approvals, batch, ran, dropped>>
  BY DEF AnswerProposal, Frame
<1>5. x \in {"ready", "over"}
  OBVIOUS
<1> HIDE DEF x
<1>6. /\ j \in Turn /\ j.at = "agents" /\ j.conv = turn[t].conv
      /\ j.by = turn[t].by /\ j.puts = turn[t].puts /\ j.automation = x
      /\ turn' = [turn EXCEPT ![t] = j]
  BY <1>1, <1>2, <1>4, <1>5 DEF Turn
<1> HIDE DEF j
<1>7. TurnShape(j)
  BY <1>2, <1>5, <1>6 DEF TurnShape, Waiting
<1>8. AnswerDoes(t, j)
  BY <1>1, <1>2, <1>3, <1>4, <1>5, <1>6, <1>7 DEF AnswerDoes, Stays, Moves
<1> QED
  BY <1>8

ProposeDoes(t, j) ==
  /\ Stays(t, j) /\ j.puts = turn[t].puts
  /\ turn[t].automation = "ready" /\ j.automation = "over"
  /\ proposals' \in Store(Turns)
  /\ Renewed(proposals', proposals, turn[t].conv, t)
  /\ approvals' \in Store(Batches) /\ Kept(approvals', approvals)
  /\ approvals'[turn[t].conv] = NoEntry
  /\ dropped' = dropped \cup Items(approvals[turn[t].conv])
  /\ Frame /\ UNCHANGED <<batch, ran, applied>>

LEMMA Proposes ==
  ASSUME TypeOK, \A u \in Turns : TurnShape(turn[u]), NEW t \in Turns,
         Propose(t)
  PROVE  \E j : ProposeDoes(t, j)
<1> DEFINE c == turn[t].conv
           j == [turn[t] EXCEPT !.automation = "over"]
<1>1. turn[t].at = "agents" /\ turn[t].automation = "ready"
  BY DEF Propose
<1>2. /\ turn[t] \in Turn /\ TurnShape(turn[t]) /\ turn \in [Turns -> Turn]
      /\ c \in Conversations /\ turn[t].puts \in Nat
      /\ approvals \in Store(Batches)
      /\ proposals \in Store(Turns) /\ now \in Nat
  BY <1>1, AgentsParts
<1>3. /\ Popped(approvals, c) \in Store(Batches)
      /\ Kept(Popped(approvals, c), approvals)
      /\ Popped(approvals, c)[c] = NoEntry
  BY <1>2, PoppedKeeps
<1>4. /\ turn' = [turn EXCEPT ![t].automation = "over"]
      /\ proposals' \in Puts(proposals, c, t, now, ChangeTtl)
      /\ approvals' = Popped(approvals, c)
      /\ dropped' = dropped \cup Items(approvals[c])
      /\ Frame /\ UNCHANGED <<batch, ran, applied>>
  BY DEF Propose, Frame
<1>5. proposals' \in Store(Turns) /\ Renewed(proposals', proposals, c, t)
  BY <1>2, <1>4, Limits, PutRenews
<1>6. /\ j \in Turn /\ j.at = "agents" /\ j.conv = turn[t].conv
      /\ j.by = turn[t].by /\ j.puts = turn[t].puts /\ j.automation = "over"
      /\ turn' = [turn EXCEPT ![t] = j]
  BY <1>1, <1>2, <1>4 DEF Turn
<1> HIDE DEF j
<1>7. TurnShape(j)
  BY <1>2, <1>6 DEF TurnShape, Waiting
<1>8. ProposeDoes(t, j)
  BY <1>1, <1>2, <1>3, <1>4, <1>5, <1>6, <1>7 DEF ProposeDoes, Stays, Moves
<1> QED
  BY <1>8

EndDoes(t) ==
  /\ turn[t].at \in Waiting /\ Moves(t, Over)
  /\ Frame /\ UNCHANGED <<approvals, proposals, batch, history>>

LEMMA Ends ==
  ASSUME NEW t \in Turns, Finish(t) \/ Cancel(t)
  PROVE  EndDoes(t)
  BY OverTyped DEF Finish, Cancel, EndDoes, Moves, Frame, Waiting

RestartDoes ==
  /\ turn' \in [Turns -> Turn] /\ restarts' \in 0 .. MaxRestarts
  /\ \A t \in Turns :
        turn'[t] = Over \/ (turn'[t] = turn[t] /\ turn[t].at \notin Waiting)
  /\ approvals' = EmptyStore /\ proposals' = EmptyStore
  /\ approvals' \in Store(Batches) /\ Kept(approvals', approvals)
  /\ proposals' \in Store(Turns) /\ Kept(proposals', proposals)
  /\ UNCHANGED <<now, batch, overlap, history>>

LEMMA Restarts ==
  ASSUME TypeOK, Restart
  PROVE  RestartDoes
<1>1. /\ turn' = [t \in Turns |->
           IF turn[t].at \in Waiting THEN Over ELSE turn[t]]
      /\ turn \in [Turns -> Turn]
  BY DEF Restart, TypeOK
<1>2. turn' \in [Turns -> Turn]
  BY <1>1, OverTyped
<1>3. restarts' \in 0 .. MaxRestarts
  BY Limits DEF Restart, TypeOK
<1>4. /\ EmptyStore \in Store(Batches) /\ Kept(EmptyStore, approvals)
      /\ EmptyStore \in Store(Turns) /\ Kept(EmptyStore, proposals)
  BY EmptyKeeps DEF TypeOK
<1>5. \A t \in Turns :
        turn'[t] = Over \/ (turn'[t] = turn[t] /\ turn[t].at \notin Waiting)
  BY <1>1
<1> QED
  BY <1>2, <1>3, <1>4, <1>5 DEF Restart, RestartDoes

-----------------------------------------------------------------------------
(* Every step is one of these                                              *)

Does ==
  \/ \E t \in Turns :
       \/ \E c \in Conversations, r \in Requesters :
            \E j : ArriveDoes(t, c, r, j)
       \/ \E j : SettleDoes(t, j) \/ ConfirmDoes(t, j)
       \/ AskAgainDoes(t)
       \/ \E call \in Calls : \E j : ExecuteDoes(t, call, j)
       \/ \E calls \in SUBSET Calls : \E j, m : HoldDoes(t, calls, j, m)
       \/ \E j : ReadDoes(t, j) \/ AnswerDoes(t, j) \/ ProposeDoes(t, j)
       \/ EndDoes(t)
  \/ RestartDoes
  \/ now' \in 0 .. MaxTime /\ UNCHANGED <<approvals, proposals, batch, turn,
                                   restarts, overlap, history>>

LEMMA NextDoes ==
  ASSUME TypeOK, \A u \in Turns : TurnShape(turn[u]), [Next]_vars
  PROVE  Does
<1>1. CASE UNCHANGED vars
  BY <1>1 DEF vars, history, Does, TypeOK
<1>2. CASE Tick
  <2>1. now' \in 0 .. MaxTime
    BY <1>2, Limits DEF Tick, TypeOK
  <2> QED
    BY <1>2, <2>1 DEF Tick, history, Does
<1>3. CASE Restart
  BY <1>3, Restarts DEF Does
<1>4. ASSUME NEW t \in Turns, NEW c \in Conversations, NEW r \in Requesters,
             Arrive(t, c, r)
      PROVE  Does
  BY <1>4, Arrives DEF Does
<1>5. ASSUME NEW t \in Turns, NEW d \in Decisions,
             AnswerExpired(t, d) \/ Refuse(t, d)
      PROVE  Does
  BY <1>5, Settles DEF Does
<1>6. ASSUME NEW t \in Turns, Confirm(t) \/ AskAgain(t)
      PROVE  Does
  BY <1>6, Confirms, AsksAgain DEF Does
<1>7. ASSUME NEW t \in Turns, NEW call \in Calls, Execute(t, call)
      PROVE  Does
  BY <1>7, Executes DEF Does
<1>8. ASSUME NEW t \in Turns, NEW calls \in SUBSET Calls, Hold(t, calls)
      PROVE  Does
  BY <1>8, Holds DEF Does
<1>9. ASSUME NEW t \in Turns, ReadProposal(t)
      PROVE  Does
  BY <1>9, Reads DEF Does
<1>10. ASSUME NEW t \in Turns, NEW d \in Decisions, AnswerProposal(t, d)
       PROVE  Does
  BY <1>10, Answers DEF Does
<1>11. ASSUME NEW t \in Turns, Propose(t)
       PROVE  Does
  BY <1>11, Proposes DEF Does
<1>12. ASSUME NEW t \in Turns, Finish(t) \/ Cancel(t)
       PROVE  Does
  BY <1>12, Ends DEF Does
<1> QED
  BY <1>1, <1>2, <1>3, <1>4, <1>5, <1>6, <1>7, <1>8, <1>9, <1>10, <1>11, <1>12
  DEF Next

-----------------------------------------------------------------------------
(* The base invariant                                                      *)

LEMMA MovedTurn ==
  ASSUME TypeOK, NEW t \in Turns, NEW j, Moves(t, j)
  PROVE  /\ turn' \in [Turns -> Turn] /\ turn'[t] = j /\ j \in Turn
         /\ TurnShape(j)
         /\ \A u \in Turns : u # t => turn'[u] = turn[u]
  BY DEF TypeOK, Moves

LEMMA MovedTurns ==
  ASSUME TypeOK, \A u \in Turns : TurnShape(turn[u]),
         NEW t \in Turns, NEW j, Moves(t, j), Frame
  PROVE  /\ turn' \in [Turns -> Turn] /\ \A u \in Turns : TurnShape(turn'[u])
         /\ now' \in 0 .. MaxTime /\ restarts' \in 0 .. MaxRestarts
         /\ overlap' \in Overlaps
  BY MovedTurn DEF Frame, TypeOK

LEMMA TypesStay ==
  ASSUME TypeOK, \A u \in Turns : TurnShape(turn[u]), Does
  PROVE  TypeOK' /\ \A u \in Turns : TurnShape(turn'[u])
<1> DEFINE Goal == TypeOK' /\ \A u \in Turns : TurnShape(turn'[u])
<1>0. /\ approvals \in Store(Batches) /\ proposals \in Store(Turns)
      /\ batch \in [Batches -> Batch] /\ turn \in [Turns -> Turn]
      /\ dropped \subseteq Batches /\ overlap \in Overlaps
      /\ now \in 0 .. MaxTime /\ restarts \in 0 .. MaxRestarts
      /\ ran \subseteq [turn : Turns, item : Batches, call : Calls]
      /\ applied \subseteq [turn : Turns, change : Turns]
  BY DEF TypeOK
<1>1. \A c \in Conversations : Open(c) => approvals[c].item \in Batches
  BY <1>0, EntryAt DEF Open
<1>2. \A t \in Turns : Deciding(t) => turn[t].item \in Batches
  BY DEF Deciding, TurnShape
<1>3. ASSUME NEW t \in Turns, NEW c \in Conversations, NEW r \in Requesters,
             NEW j, ArriveDoes(t, c, r, j)
      PROVE  Goal
  <2>1. Moves(t, j) /\ Frame
    BY <1>3 DEF ArriveDoes
  <2> QED
    BY <1>0, <1>1, <1>3, <2>1, MovedTurns DEF TypeOK, ArriveDoes, DropsOpen
<1>4. ASSUME NEW t \in Turns, NEW j, SettleDoes(t, j)
      PROVE  Goal
  <2>1. Moves(t, j) /\ Frame
    BY <1>4 DEF SettleDoes
  <2> QED
    BY <1>0, <1>2, <1>4, <2>1, MovedTurns DEF TypeOK, SettleDoes, Deciding
<1>5. ASSUME NEW t \in Turns, NEW j, ConfirmDoes(t, j)
      PROVE  Goal
  <2>1. Moves(t, j) /\ Frame
    BY <1>5 DEF ConfirmDoes
  <2> QED
    BY <1>0, <1>5, <2>1, MovedTurns DEF TypeOK, ConfirmDoes, history
<1>6. ASSUME NEW t \in Turns, AskAgainDoes(t)
      PROVE  Goal
  <2>1. Moves(t, Over) /\ Frame
    BY <1>6 DEF AskAgainDoes
  <2> QED
    BY <1>0, <1>6, <2>1, MovedTurns DEF TypeOK, AskAgainDoes, history
<1>7. ASSUME NEW t \in Turns, NEW call \in Calls, NEW j, ExecuteDoes(t, call, j)
      PROVE  Goal
  <2>1. Moves(t, j) /\ Frame /\ turn[t].item \in Batches
    BY <1>2, <1>7 DEF ExecuteDoes, Deciding
  <2> QED
    BY <1>0, <1>7, <2>1, MovedTurns DEF TypeOK, ExecuteDoes
<1>8. ASSUME NEW t \in Turns, NEW calls \in SUBSET Calls, NEW j, NEW m,
             HoldDoes(t, calls, j, m)
      PROVE  Goal
  <2>1. Moves(t, j) /\ Frame
    BY <1>8 DEF HoldDoes, Stays
  <2>2. turn[t].conv \in Conversations
    BY <1>8, AgentsParts DEF HoldDoes, Stays
  <2>3. Superseded(t) \subseteq Batches
    BY <1>1, <2>2 DEF Superseded, Items, Open
  <2>4. batch' \in [Batches -> Batch]
    BY <1>0, <1>8 DEF HoldDoes
  <2> QED
    BY <1>0, <1>8, <2>1, <2>3, <2>4, MovedTurns DEF TypeOK, HoldDoes
<1>9. ASSUME NEW t \in Turns, NEW j, ReadDoes(t, j)
      PROVE  Goal
  <2>1. Moves(t, j) /\ Frame
    BY <1>9 DEF ReadDoes, Stays
  <2> QED
    BY <1>0, <1>9, <2>1, MovedTurns DEF TypeOK, ReadDoes, history
<1>10. ASSUME NEW t \in Turns, NEW j, AnswerDoes(t, j)
       PROVE  Goal
  <2>1. Moves(t, j) /\ Frame /\ turn[t].change \in Turns
    BY <1>10 DEF AnswerDoes, Stays, TurnShape
  <2> QED
    BY <1>0, <1>10, <2>1, MovedTurns DEF TypeOK, AnswerDoes
<1>11. ASSUME NEW t \in Turns, NEW j, ProposeDoes(t, j)
       PROVE  Goal
  <2>1. Moves(t, j) /\ Frame
    BY <1>11 DEF ProposeDoes, Stays
  <2>2. turn[t].conv \in Conversations
    BY <1>11, AgentsParts DEF ProposeDoes, Stays
  <2>3. Items(approvals[turn[t].conv]) \subseteq Batches
    BY <1>1, <2>2 DEF Items, Open
  <2> QED
    BY <1>0, <1>11, <2>1, <2>3, MovedTurns DEF TypeOK, ProposeDoes
<1>12. ASSUME NEW t \in Turns, EndDoes(t)
       PROVE  Goal
  <2>1. Moves(t, Over) /\ Frame
    BY <1>12 DEF EndDoes
  <2> QED
    BY <1>0, <1>12, <2>1, MovedTurns DEF TypeOK, EndDoes, history
<1>13. ASSUME RestartDoes
       PROVE  Goal
  BY <1>0, <1>13, OverTyped DEF TypeOK, RestartDoes, history
<1>14. ASSUME now' \in 0 .. MaxTime,
              UNCHANGED <<approvals, proposals, batch, turn, restarts, overlap,
                          history>>
       PROVE  Goal
  BY <1>0, <1>14 DEF TypeOK, history
<1> HIDE DEF Goal
<1>15. Goal
  BY <1>3, <1>4, <1>5, <1>6, <1>7, <1>8, <1>9, <1>10, <1>11, <1>12, <1>13, <1>14
  DEF Does
<1> QED
  BY <1>15 DEF Goal

-----------------------------------------------------------------------------
(* What was asked stays asked, and stays what it was                       *)

\* How a turn that has asked goes on.
GoesOn(x, y) ==
  /\ x.at = "done" => y.at = "done"
  /\ x.puts > 0 => y.at = "done" \/ (y.at = "agents" /\ y.puts >= x.puts)
  /\ x.puts > 0 /\ y.at = "agents" => x.at = "agents" /\ y.conv = x.conv
  /\ x.automation = "over" => y.at = "done" \/ y.automation = "over"

LEMMA GoesOnSelf ==
  ASSUME NEW x \in Turn, TurnShape(x)
  PROVE  GoesOn(x, x)
  BY Limits DEF GoesOn, Turn, TurnShape

LEMMA TurnsGoOn ==
  ASSUME TypeOK, \A u \in Turns : TurnShape(turn[u]), Does
  PROVE  \A u \in Turns : GoesOn(turn[u], turn'[u])
<1> DEFINE Goal == \A u \in Turns : GoesOn(turn[u], turn'[u])
<1>1. \A u \in Turns : /\ turn[u] \in Turn /\ GoesOn(turn[u], turn[u])
                       /\ turn[u].puts \in Nat
                       /\ turn[u].puts > 0 => turn[u].at = "agents"
                       /\ turn[u].automation = "over" => turn[u].at = "agents"
  BY TurnParts, GoesOnSelf DEF TurnShape
<1>2. ASSUME NEW t \in Turns, NEW j, Moves(t, j), GoesOn(turn[t], j)
      PROVE  Goal
  BY <1>1, <1>2, MovedTurn
<1> HIDE DEF Goal
<1>3. ASSUME NEW t \in Turns, NEW c \in Conversations, NEW r \in Requesters,
             NEW j, ArriveDoes(t, c, r, j)
      PROVE  Goal
  BY <1>1, <1>2, <1>3 DEF ArriveDoes, GoesOn
<1>4. ASSUME NEW t \in Turns, NEW j, SettleDoes(t, j)
      PROVE  Goal
  BY <1>1, <1>2, <1>4 DEF SettleDoes, GoesOn
<1>5. ASSUME NEW t \in Turns, NEW j, ConfirmDoes(t, j)
      PROVE  Goal
  BY <1>1, <1>2, <1>5 DEF ConfirmDoes, GoesOn
<1>6. ASSUME NEW t \in Turns, AskAgainDoes(t)
      PROVE  Goal
  BY <1>1, <1>2, <1>6, OverTyped DEF AskAgainDoes, GoesOn
<1>7. ASSUME NEW t \in Turns, NEW call \in Calls, NEW j, ExecuteDoes(t, call, j)
      PROVE  Goal
  BY <1>1, <1>2, <1>7, OverTyped DEF ExecuteDoes, GoesOn
<1>8. ASSUME NEW t \in Turns, NEW calls \in SUBSET Calls, NEW j, NEW m,
             HoldDoes(t, calls, j, m)
      PROVE  Goal
  BY <1>1, <1>2, <1>8 DEF HoldDoes, Stays, GoesOn
<1>9. ASSUME NEW t \in Turns, NEW j, ReadDoes(t, j)
      PROVE  Goal
  BY <1>1, <1>2, <1>9 DEF ReadDoes, Stays, GoesOn
<1>10. ASSUME NEW t \in Turns, NEW j, AnswerDoes(t, j)
       PROVE  Goal
  BY <1>1, <1>2, <1>10 DEF AnswerDoes, Stays, GoesOn
<1>11. ASSUME NEW t \in Turns, NEW j, ProposeDoes(t, j)
       PROVE  Goal
  BY <1>1, <1>2, <1>11 DEF ProposeDoes, Stays, GoesOn
<1>12. ASSUME NEW t \in Turns, EndDoes(t)
       PROVE  Goal
  BY <1>1, <1>2, <1>12, OverTyped DEF EndDoes, GoesOn
<1>13. ASSUME RestartDoes
       PROVE  Goal
  <2>1. ASSUME NEW u \in Turns
        PROVE  GoesOn(turn[u], turn'[u])
    <3>1. turn'[u] = Over \/ turn'[u] = turn[u]
      BY <1>13 DEF RestartDoes
    <3>2. GoesOn(turn[u], Over)
      BY OverTyped DEF GoesOn
    <3> QED
      BY <1>1, <3>1, <3>2
  <2> QED
    BY <2>1 DEF Goal
<1>14. ASSUME UNCHANGED turn
       PROVE  Goal
  BY <1>1, <1>14 DEF Goal
<1>15. Goal
  BY <1>3, <1>4, <1>5, <1>6, <1>7, <1>8, <1>9, <1>10, <1>11, <1>12, <1>13, <1>14
  DEF Does
<1> QED
  BY <1>15 DEF Goal

LEMMA PutStays ==
  ASSUME TypeOK, \A u \in Turns : TurnShape(turn[u]), Does, NEW b \in Batches,
         Put(b)
  PROVE  /\ Put(b)'
         /\ turn'[AskedIn(b)].at = "agents" =>
              /\ turn[AskedIn(b)].at = "agents"
              /\ turn'[AskedIn(b)].conv = turn[AskedIn(b)].conv
<1> DEFINE u == AskedIn(b)
<1>1. u \in Turns /\ b[2] \in Nat \ {0}
  BY BatchParts
<1>2. GoesOn(turn[u], turn'[u])
  BY <1>1, TurnsGoOn
<1>3. turn[u].puts \in Nat /\ turn'[u].puts \in Nat
  <2>1. TypeOK'
    BY TypesStay
  <2>2. turn'[u] \in Turn
    BY <1>1, <2>1 DEF TypeOK
  <2> QED
    BY <1>1, <2>2, TurnParts, Limits DEF Turn
<1>4. CASE turn[u].at = "done"
  BY <1>2, <1>4 DEF GoesOn, Put
<1>5. CASE b[2] <= turn[u].puts
  BY <1>1, <1>2, <1>3, <1>5 DEF GoesOn, Put
<1> QED
  BY <1>4, <1>5 DEF Put

LEMMA BatchStays ==
  ASSUME TypeOK, \A u \in Turns : TurnShape(turn[u]), Does, NEW b \in Batches,
         Put(b)
  PROVE  /\ batch'[b].conv = batch[b].conv /\ batch'[b].by = batch[b].by
         /\ batch'[b].calls = batch[b].calls
<1>1. ASSUME NEW t \in Turns, NEW calls \in SUBSET Calls, NEW j, NEW m,
             HoldDoes(t, calls, j, m)
      PROVE  batch'[b] = batch[b]
  <2>1. turn[t].puts \in Nat /\ turn[t].at = "agents"
    BY <1>1, TurnParts DEF HoldDoes, Stays
  <2>2. b # NextBatch(t)
    <3>1. CASE b = <<t, turn[t].puts + 1>>
      <4>1. AskedIn(b) = t /\ b[2] = turn[t].puts + 1
        BY <3>1 DEF AskedIn
      <4> QED
        BY <2>1, <4>1 DEF Put
    <3> QED
      BY <3>1 DEF NextBatch
  <2> QED
    BY <1>1, <2>2 DEF HoldDoes, TypeOK
<1>2. CASE UNCHANGED batch
  BY <1>2
<1> QED
  BY <1>1, <1>2
  DEF Does, ArriveDoes, SettleDoes, ConfirmDoes, AskAgainDoes, ExecuteDoes,
      ReadDoes, AnswerDoes, ProposeDoes, EndDoes, RestartDoes

LEMMA BaseFacts ==
  ASSUME Base
  PROVE  /\ TypeOK /\ \A u \in Turns : TurnShape(turn[u])
         /\ \A t \in Turns : Deciding(t) =>
              /\ turn[t].item \in Batches /\ turn[t].conv \in Conversations
              /\ batch[turn[t].item].conv = turn[t].conv
              /\ Put(turn[t].item)
         /\ \A c \in Conversations : Open(c) =>
              /\ approvals[c].item \in Batches
              /\ batch[approvals[c].item].conv = c
              /\ Put(approvals[c].item)
<1>1. /\ TypeOK /\ Asking /\ Opened /\ Answering
      /\ \A u \in Turns : TurnShape(turn[u])
  BY DEF Base
<1>2. \A t \in Turns : Deciding(t) =>
        turn[t].item \in Batches /\ turn[t].conv \in Conversations
  BY <1>1 DEF Deciding, TurnShape, Waiting
<1>3. \A c \in Conversations : Open(c) => approvals[c].item \in Batches
  BY <1>1, EntryAt DEF Open, TypeOK
<1>4. \A c \in Conversations : c # None
  BY Limits
<1> QED
  BY <1>1, <1>2, <1>3, <1>4 DEF Asking, Opened, Answering

LEMMA BaseInit ==
  ASSUME Init
  PROVE  Base
<1>1. turn = [t \in Turns |-> NewTurn] /\ NewTurn \in Turn /\ TurnShape(NewTurn)
  BY NewTyped DEF Init, TurnShape, Waiting
<1>2. batch = [b \in Batches |-> NoBatch] /\ NoBatch \in Batch
      /\ NoBatch.conv = None
  BY DEF Init, NoBatch, Batch
<1>3. /\ EmptyStore \in Store(Batches) /\ EmptyStore \in Store(Turns)
      /\ \A c \in Conversations : EmptyStore[c].kind = "none"
  BY DEF EmptyStore, Store, NoEntry
<1>4. TypeOK
  BY <1>1, <1>2, <1>3, Limits DEF Init, TypeOK
<1>5. \A t \in Turns : TurnShape(turn[t]) /\ ~Deciding(t)
  BY <1>1, NewTyped DEF Deciding
<1>6. Asking
  BY <1>2 DEF Asking
<1>7. Opened
  BY <1>3 DEF Opened, Open, Init
<1> QED
  BY <1>4, <1>5, <1>6, <1>7 DEF Base, Answering

LEMMA AskingStays ==
  ASSUME Base, Does
  PROVE  Asking'
<1>0. TypeOK /\ (\A u \in Turns : TurnShape(turn[u])) /\ Asking
  BY DEF Base
<1> DEFINE Old(b) == /\ batch'[b].conv = batch[b].conv
                     /\ batch[b].conv # None => Put(b)
<1>1. ASSUME \A b \in Batches : Old(b)
      PROVE  Asking'
  <2>1. ASSUME NEW b \in Batches, batch'[b].conv # None
        PROVE  /\ Put(b)'
               /\ turn'[AskedIn(b)].at = "agents" =>
                    turn'[AskedIn(b)].conv = batch'[b].conv
    BY <1>0, <1>1, <2>1, PutStays DEF Asking
  <2>2. ASSUME NEW b \in Batches, NEW d \in Batches, AskedIn(b) = AskedIn(d),
               batch'[b].conv # None, batch'[d].conv # None
        PROVE  batch'[b].conv = batch'[d].conv
    BY <1>0, <1>1, <2>2 DEF Asking
  <2> QED
    BY <2>1, <2>2 DEF Asking, AskedIn
<1>2. ASSUME UNCHANGED batch
      PROVE  Asking'
  BY <1>0, <1>1, <1>2 DEF Asking
<1>3. ASSUME NEW t \in Turns, AskAgainDoes(t)
      PROVE  Asking'
  BY <1>0, <1>1, <1>3 DEF Asking, AskAgainDoes
<1>4. ASSUME NEW t \in Turns, NEW calls \in SUBSET Calls, NEW j, NEW m,
             HoldDoes(t, calls, j, m)
      PROVE  Asking'
  <2>0. PICK n \in Batches : n = NextBatch(t)
    BY <1>4 DEF HoldDoes
  <2>1. /\ n \in Batches /\ AskedIn(n) = t /\ n[2] = turn[t].puts + 1
        /\ batch'[n] = m /\ m.conv = turn[t].conv
        /\ turn[t].at = "agents"
        /\ turn'[t] = j /\ j.conv = turn[t].conv /\ j.puts = turn[t].puts + 1
        /\ turn[t].puts \in Nat
    BY <1>0, <1>4, <2>0, MovedTurn, TurnParts
    DEF HoldDoes, Stays, NextBatch, AskedIn, TypeOK
  <2>2. \A b \in Batches \ {n} : batch'[b] = batch[b]
    BY <1>4, <2>0 DEF HoldDoes, TypeOK
  <2>3. Put(n)' /\ turn'[AskedIn(n)].conv = batch'[n].conv
    BY <2>1 DEF Put
  <2>4. ASSUME NEW b \in Batches, batch'[b].conv # None
        PROVE  /\ Put(b)'
               /\ turn'[AskedIn(b)].at = "agents" =>
                    turn'[AskedIn(b)].conv = batch'[b].conv
    <3>1. CASE b = n
      BY <2>3, <3>1
    <3>2. CASE b # n
      BY <1>0, <2>2, <2>4, <3>2, PutStays DEF Asking
    <3> QED
      BY <3>1, <3>2
  <2>5. \A d \in Batches \ {n} : AskedIn(d) = t /\ batch'[d].conv # None
          => batch'[d].conv = batch'[n].conv
    BY <1>0, <2>1, <2>2 DEF Asking
  <2>6. ASSUME NEW b \in Batches, NEW d \in Batches, AskedIn(b) = AskedIn(d),
               batch'[b].conv # None, batch'[d].conv # None
        PROVE  batch'[b].conv = batch'[d].conv
    <3>1. CASE b = n \/ d = n
      BY <2>1, <2>5, <2>6, <3>1
    <3>2. CASE b # n /\ d # n
      BY <1>0, <2>2, <2>6, <3>2 DEF Asking
    <3> QED
      BY <3>1, <3>2
  <2> QED
    BY <2>4, <2>6 DEF Asking, AskedIn
<1> QED
  BY <1>2, <1>3, <1>4
  DEF Does, ArriveDoes, SettleDoes, ConfirmDoes, ExecuteDoes, ReadDoes,
      AnswerDoes, ProposeDoes, EndDoes, RestartDoes

LEMMA OpenedStays ==
  ASSUME Base, Does
  PROVE  Opened'
<1>0. TypeOK /\ (\A u \in Turns : TurnShape(turn[u])) /\ Opened
  BY DEF Base
<1>1. \A c \in Conversations : Open(c) =>
        batch'[approvals[c].item].conv = c
  BY <1>0, BaseFacts, BatchStays
<1>2. ASSUME NEW c \in Conversations, Weaker(approvals'[c], approvals[c])
      PROVE  Open(c)' => batch'[approvals'[c].item].conv = c
  BY <1>1, <1>2, NoEntryKind DEF Weaker, Open
<1>3. ASSUME Kept(approvals', approvals)
      PROVE  Opened'
  BY <1>2, <1>3 DEF Kept, Opened
<1>4. ASSUME NEW c \in Conversations, NEW b, batch'[b].conv = c,
             Renewed(approvals', approvals, c, b)
      PROVE  Opened'
  <2>1. approvals'[c].item = b
    BY <1>4 DEF Renewed, Active
  <2>2. \A d \in Conversations \ {c} : Weaker(approvals'[d], approvals[d])
    BY <1>4 DEF Renewed
  <2> QED
    BY <1>2, <1>4, <2>1, <2>2 DEF Opened
<1>5. ASSUME NEW t \in Turns, AskAgainDoes(t)
      PROVE  Opened'
  <2>1. Deciding(t)
    BY <1>5 DEF AskAgainDoes, Deciding
  <2>2. /\ turn[t].conv \in Conversations /\ turn[t].item \in Batches
        /\ batch[turn[t].item].conv = turn[t].conv
    BY <2>1, BaseFacts
  <2> QED
    BY <1>4, <1>5, <2>2 DEF AskAgainDoes
<1>6. ASSUME NEW t \in Turns, NEW calls \in SUBSET Calls, NEW j, NEW m,
             HoldDoes(t, calls, j, m)
      PROVE  Opened'
  <2>1. turn[t].conv \in Conversations
    BY <1>0, <1>6, AgentsParts DEF HoldDoes, Stays
  <2>2. batch'[NextBatch(t)].conv = turn[t].conv
    BY <1>0, <1>6 DEF HoldDoes, TypeOK
  <2>3. Renewed(approvals', approvals, turn[t].conv, NextBatch(t))
    BY <1>6 DEF HoldDoes
  <2> QED
    BY <1>4, <2>1, <2>2, <2>3
<1>7. approvals \in Store(Batches)
  BY <1>0 DEF TypeOK
<1>8. ASSUME UNCHANGED approvals
      PROVE  Opened'
  BY <1>3, <1>7, <1>8, SameKept
<1> QED
  BY <1>3, <1>5, <1>6, <1>8
  DEF Does, ArriveDoes, SettleDoes, ConfirmDoes, ExecuteDoes, ReadDoes,
      AnswerDoes, ProposeDoes, EndDoes, RestartDoes

LEMMA AnsweringStays ==
  ASSUME Base, Does
  PROVE  Answering'
<1> DEFINE Fits(x, bat) ==
             x.at \in {"judge", "execute"} =>
               /\ bat[x.item].conv = x.conv /\ bat[x.item].by = x.by
               /\ x.at = "execute" => x.todo \subseteq bat[x.item].calls
<1>0. TypeOK /\ (\A u \in Turns : TurnShape(turn[u])) /\ Answering
  BY DEF Base
<1>1. \A u \in Turns : Fits(turn[u], batch)
  BY <1>0 DEF Answering, Deciding
<1>2. \A u \in Turns : turn[u].at \in {"judge", "execute"} =>
        turn[u].item \in Batches /\ Put(turn[u].item)
  BY BaseFacts DEF Deciding
<1>3. \A u \in Turns : Fits(turn[u], batch')
  BY <1>0, <1>1, <1>2, BatchStays
<1>4. ASSUME \A u \in Turns : Fits(turn'[u], batch')
      PROVE  Answering'
  BY <1>4 DEF Answering, Deciding
<1>5. ASSUME NEW t \in Turns, NEW j, Moves(t, j), Fits(j, batch')
      PROVE  Answering'
  BY <1>0, <1>3, <1>4, <1>5, MovedTurn
<1>6. ASSUME NEW t \in Turns, NEW j, Moves(t, j),
             j.at \notin {"judge", "execute"}
      PROVE  Answering'
  BY <1>5, <1>6
<1>7. ASSUME NEW t \in Turns, NEW c \in Conversations, NEW r \in Requesters,
             NEW j, ArriveDoes(t, c, r, j)
      PROVE  Answering'
  <2>1. CASE AtAgents(j, c, r)
    BY <1>6, <1>7, <2>1 DEF ArriveDoes, AtAgents
  <2>2. CASE Judges(j, c)
    <3>1. batch[approvals[c].item].conv = c
      BY <2>2, BaseFacts DEF Judges
    <3>2. Fits(j, batch')
      BY <1>7, <2>2, <3>1 DEF ArriveDoes, Judges
    <3> QED
      BY <1>5, <1>7, <3>2 DEF ArriveDoes
  <2> QED
    BY <1>7, <2>1, <2>2 DEF ArriveDoes
<1>8. ASSUME NEW t \in Turns, NEW j, SettleDoes(t, j)
      PROVE  Answering'
  BY <1>6, <1>8, OverTyped DEF SettleDoes, AtAgents
<1>9. ASSUME NEW t \in Turns, NEW j, ConfirmDoes(t, j)
      PROVE  Answering'
  <2>1. Fits(j, batch')
    BY <1>3, <1>9 DEF ConfirmDoes
  <2> QED
    BY <1>5, <1>9, <2>1 DEF ConfirmDoes
<1>10. ASSUME NEW t \in Turns, AskAgainDoes(t) \/ EndDoes(t)
       PROVE  Answering'
  BY <1>6, <1>10, OverTyped DEF AskAgainDoes, EndDoes
<1>11. ASSUME NEW t \in Turns, NEW call \in Calls, NEW j,
              ExecuteDoes(t, call, j)
       PROVE  Answering'
  <2>1. Fits(j, batch')
    BY <1>3, <1>11, OverTyped DEF ExecuteDoes
  <2> QED
    BY <1>5, <1>11, <2>1 DEF ExecuteDoes
<1>12. ASSUME NEW t \in Turns, NEW j, Stays(t, j)
       PROVE  Answering'
  BY <1>6, <1>12 DEF Stays
<1>13. ASSUME RestartDoes
       PROVE  Answering'
  <2>1. \A u \in Turns : turn'[u] = Over \/ turn'[u] = turn[u]
    BY <1>13 DEF RestartDoes
  <2>2. Fits(Over, batch')
    BY OverTyped
  <2> HIDE DEF Fits
  <2>3. \A u \in Turns : Fits(turn'[u], batch')
    BY <1>3, <2>1, <2>2
  <2> QED
    BY <1>4, <2>3
<1>14. ASSUME UNCHANGED turn
       PROVE  Answering'
  BY <1>3, <1>4, <1>14
<1> QED
  BY <1>7, <1>8, <1>9, <1>10, <1>11, <1>12, <1>13, <1>14
  DEF Does, HoldDoes, ReadDoes, AnswerDoes, ProposeDoes

LEMMA BaseNext ==
  ASSUME Base, [Next]_vars
  PROVE  Base' /\ Does
<1>1. Does
  BY NextDoes DEF Base
<1> QED
  BY <1>1, TypesStay, AskingStays, OpenedStays, AnsweringStays DEF Base

LEMMA BaseAlways == Spec => []Base
<1>1. Init => Base
  BY BaseInit
<1>2. Base /\ [Next]_vars => Base'
  BY BaseNext
<1> QED
  BY <1>1, <1>2, PTL DEF Spec

\* Every store, batch and turn keeps its type through all the handlers.
THEOREM Typing == Spec => []TypeOK
<1>1. Base => TypeOK
  BY DEF Base
<1> QED
  BY <1>1, BaseAlways, PTL

ConfirmedStep ==
  \A x \in ran' \ ran :
    LET b == batch[x.item]
        t == turn[x.turn]
    IN /\ x.call \in b.calls /\ t.conv = b.conv /\ t.by = b.by
       /\ t.came - t.stored <= ApprovalTtl

\* A call is sent only from a batch it belongs to, by a turn of the conversation
\* and requester that were asked, in time: what handle_pending_approval read
\* before the classifier's await is still true of the batch after it, however
\* many turns of the conversation overlap.
THEOREM OnlyConfirmedCalls == Spec => ConfirmedCalls
<1>1. ASSUME Base, [Next]_vars
      PROVE  ConfirmedStep
  <2>1. Does
    BY <1>1, BaseNext
  <2>2. ASSUME NEW t \in Turns, NEW call \in Calls, NEW j,
               ExecuteDoes(t, call, j)
        PROVE  ConfirmedStep
    <3> DEFINE x == [turn |-> t, item |-> turn[t].item, call |-> call]
    <3>1. ran' \ ran \subseteq {x}
      BY <2>2 DEF ExecuteDoes
    <3>2. x.turn = t /\ x.item = turn[t].item /\ x.call = call
      OBVIOUS
    <3>3. /\ turn[t].at = "execute" /\ call \in turn[t].todo
          /\ Answering /\ TurnShape(turn[t])
      BY <1>1, <2>2 DEF ExecuteDoes, Base
    <3> HIDE DEF x
    <3> QED
      BY <3>1, <3>2, <3>3 DEF ConfirmedStep, Answering, Deciding, TurnShape
  <2>3. CASE UNCHANGED ran
    BY <2>3 DEF ConfirmedStep
  <2> QED
    BY <2>1, <2>2, <2>3
    DEF Does, ArriveDoes, SettleDoes, ConfirmDoes, AskAgainDoes, HoldDoes,
        ReadDoes, AnswerDoes, ProposeDoes, EndDoes, RestartDoes, history
<1>2. [Next]_vars /\ Base => ConfirmedStep
  BY <1>1
<1>3. ConfirmedCalls <=> [][ConfirmedStep]_vars
  BY DEF ConfirmedCalls, ConfirmedStep
<1> QED
  BY <1>2, <1>3, BaseAlways, PTL DEF Spec

-----------------------------------------------------------------------------
(* One turn at a time                                                      *)

Alone ==
  \A t, u \in Turns :
    turn[t].at \in Waiting /\ turn[u].at \in Waiting
      /\ turn[t].conv = turn[u].conv => t = u

\* A question is answered after the turn that asked it.
AskedFirst == \A t \in Turns : Deciding(t) => turn[Asker(t)].at = "done"

\* While an answer is judged no other question comes into its place.
OwnQuestion ==
  \A t \in Turns :
    turn[t].at = "judge" /\ Open(turn[t].conv) =>
      approvals[turn[t].conv].item = turn[t].item

\* What is executed is not in the store, nor is another batch of its asker.
TakenOut ==
  \A t \in Turns, c \in Conversations :
    turn[t].at = "execute" /\ Open(c) => AskedIn(approvals[c].item) # Asker(t)

\* Once a call was sent, only the turn that sent it executes for its asker.
Sent(x) ==
  /\ turn[AskedIn(x.item)].at = "done"
  /\ \A c \in Conversations :
       Open(c) => AskedIn(approvals[c].item) # AskedIn(x.item)
  /\ \A t \in Turns :
       Deciding(t) /\ Asker(t) = AskedIn(x.item) =>
         turn[t].at = "execute" /\ t = x.turn

\* What was dropped is neither open nor being answered.
Gone ==
  /\ \A b \in dropped : Put(b)
  /\ \A c \in Conversations : Open(c) => approvals[c].item \notin dropped
  /\ \A t \in Turns : Deciding(t) => turn[t].item \notin dropped

Questions ==
  /\ Alone /\ AskedFirst /\ OwnQuestion /\ TakenOut
  /\ (\A x \in ran : Sent(x)) /\ Gone

-----------------------------------------------------------------------------
\* Batches of one asker are of one conversation.
LEMMA SameAsker ==
  ASSUME Base
  PROVE  /\ \A c, d \in Conversations :
              Open(c) /\ Open(d)
                /\ AskedIn(approvals[c].item) = AskedIn(approvals[d].item)
                => c = d
         /\ \A t \in Turns, c \in Conversations :
              Deciding(t) /\ Open(c) /\ AskedIn(approvals[c].item) = Asker(t)
                => turn[t].conv = c
         /\ \A t, u \in Turns :
              Deciding(t) /\ Deciding(u) /\ Asker(t) = Asker(u)
                => turn[t].conv = turn[u].conv
<1>1. \A c \in Conversations : Open(c) =>
        /\ approvals[c].item \in Batches /\ batch[approvals[c].item].conv = c
        /\ c # None
  BY BaseFacts, Limits
<1>2. \A t \in Turns : Deciding(t) =>
        /\ turn[t].item \in Batches
        /\ batch[turn[t].item].conv = turn[t].conv /\ turn[t].conv # None
  BY BaseFacts, Limits
<1>3. \A b, d \in Batches :
        AskedIn(b) = AskedIn(d) /\ batch[b].conv # None /\ batch[d].conv # None
          => batch[b].conv = batch[d].conv
  BY DEF Base, Asking
<1> QED
  BY <1>1, <1>2, <1>3 DEF Asker

LEMMA DecidingWaits ==
  ASSUME NEW t \in Turns, Deciding(t)
  PROVE  turn[t].at \in Waiting
  BY DEF Deciding, Waiting

LEMMA DecidesAlone ==
  ASSUME Base, Alone, NEW t \in Turns, NEW u \in Turns, Deciding(t),
         Deciding(u),
         Asker(t) = Asker(u)
  PROVE  t = u
  BY SameAsker, DecidingWaits DEF Alone

LEMMA NobodyElse ==
  ASSUME Base, Alone, overlap = 1, NEW c \in Conversations,
         Cardinality(InFlight(c)) < overlap
  PROVE  /\ \A u \in Turns : ~(turn[u].at \in Waiting /\ turn[u].conv = c)
         /\ Open(c) => turn[AskedIn(approvals[c].item)].at = "done"
<1>1. ASSUME NEW u \in Turns, turn[u].at \in Waiting, turn[u].conv = c
      PROVE  FALSE
  <2>1. InFlight(c) = {u}
    BY <1>1 DEF InFlight, Alone
  <2>2. Cardinality({u}) = 1
    BY FS_Singleton
  <2> QED
    BY <2>1, <2>2
<1>2. ASSUME Open(c)
      PROVE  turn[AskedIn(approvals[c].item)].at = "done"
  <2> DEFINE b == approvals[c].item
             u == AskedIn(b)
  <2>1. b \in Batches /\ batch[b].conv = c /\ Put(b) /\ c # None
    BY <1>2, BaseFacts, Limits
  <2>2. u \in Turns /\ b[2] \in Nat \ {0}
    BY <2>1, BatchParts
  <2>3. turn[u].at = "agents" => turn[u].conv = c
    BY <2>1 DEF Base, Asking
  <2>4. turn[u].at # "agents"
    BY <1>1, <2>2, <2>3 DEF Waiting
  <2>5. TurnShape(turn[u]) /\ turn[u].puts \in Nat
    BY <2>2, TurnParts DEF Base
  <2> HIDE DEF b, u
  <2>6. ~(turn[u].puts > 0)
    BY <2>4, <2>5 DEF TurnShape
  <2>7. ~(b[2] <= turn[u].puts)
    BY <2>2, <2>5, <2>6
  <2> QED
    BY <2>1, <2>7 DEF Put, b, u
<1> QED
  BY <1>1, <1>2

LEMMA AloneStays ==
  ASSUME Base, Alone, overlap = 1, Does
  PROVE  Alone'
<1>0. TypeOK
  BY DEF Base
<1>1. ASSUME \A u \in Turns : turn'[u].at \in Waiting =>
               turn[u].at \in Waiting /\ turn'[u].conv = turn[u].conv
      PROVE  Alone'
  BY <1>1 DEF Alone
<1>2. ASSUME NEW t \in Turns, NEW j, Moves(t, j),
             j.at \in Waiting => turn[t].at \in Waiting /\ j.conv = turn[t].conv
      PROVE  Alone'
  BY <1>0, <1>1, <1>2, MovedTurn
<1>3. ASSUME NEW t \in Turns, NEW c \in Conversations, NEW r \in Requesters,
             NEW j, ArriveDoes(t, c, r, j)
      PROVE  Alone'
  <2>1. \A u \in Turns : ~(turn[u].at \in Waiting /\ turn[u].conv = c)
    BY <1>3, NobodyElse DEF ArriveDoes
  <2>2. j.conv = c /\ Moves(t, j)
    BY <1>3 DEF ArriveDoes, AtAgents, Judges
  <2>3. turn'[t] = j /\ \A u \in Turns : u # t => turn'[u] = turn[u]
    BY <1>0, <2>2, MovedTurn
  <2> QED
    BY <2>1, <2>2, <2>3 DEF Alone
<1>4. ASSUME NEW t \in Turns, NEW j, SettleDoes(t, j)
      PROVE  Alone'
  BY <1>2, <1>4, OverTyped DEF SettleDoes, AtAgents, Waiting
<1>5. ASSUME NEW t \in Turns, NEW j, ConfirmDoes(t, j)
      PROVE  Alone'
  BY <1>2, <1>5 DEF ConfirmDoes, Waiting
<1>6. ASSUME NEW t \in Turns, AskAgainDoes(t) \/ EndDoes(t)
      PROVE  Alone'
  BY <1>2, <1>6, OverTyped DEF AskAgainDoes, EndDoes, Waiting
<1>7. ASSUME NEW t \in Turns, NEW call \in Calls, NEW j, ExecuteDoes(t, call, j)
      PROVE  Alone'
  BY <1>2, <1>7, OverTyped DEF ExecuteDoes, Waiting
<1>8. ASSUME NEW t \in Turns, NEW j, Stays(t, j)
      PROVE  Alone'
  BY <1>2, <1>8 DEF Stays, Waiting
<1>9. ASSUME RestartDoes
      PROVE  Alone'
  BY <1>1, <1>9, OverTyped DEF RestartDoes, Waiting
<1>10. ASSUME UNCHANGED turn
       PROVE  Alone'
  BY <1>10 DEF Alone
<1> QED
  BY <1>3, <1>4, <1>5, <1>6, <1>7, <1>8, <1>9, <1>10
  DEF Does, HoldDoes, ReadDoes, AnswerDoes, ProposeDoes

\* A turn that decides decided before, or has just read the open question.
LEMMA WhoDecides ==
  ASSUME TypeOK, Does, NEW u \in Turns, Deciding(u)'
  PROVE  \/ /\ Deciding(u) /\ turn'[u].item = turn[u].item
            /\ turn'[u].conv = turn[u].conv
            /\ turn'[u].at = "judge" =>
                 turn[u].at = "judge" /\ turn'[u].kind = turn[u].kind
         \/ \E c \in Conversations, r \in Requesters : \E j :
              /\ ArriveDoes(u, c, r, j) /\ Judges(j, c) /\ turn'[u] = j
<1> DEFINE Goal ==
         \/ /\ Deciding(u) /\ turn'[u].item = turn[u].item
            /\ turn'[u].conv = turn[u].conv
            /\ turn'[u].at = "judge" =>
                 turn[u].at = "judge" /\ turn'[u].kind = turn[u].kind
         \/ \E c \in Conversations, r \in Requesters : \E j :
              /\ ArriveDoes(u, c, r, j) /\ Judges(j, c) /\ turn'[u] = j
<1>1. ASSUME turn'[u] = turn[u]
      PROVE  Goal
  BY <1>1 DEF Deciding
<1>2. ASSUME NEW t \in Turns, NEW j, Moves(t, j),
             j.at \notin {"judge", "execute"}
      PROVE  Goal
  <2>1. u # t
    BY <1>2, MovedTurn DEF Deciding
  <2> QED
    BY <1>1, <1>2, <2>1, MovedTurn
<1>3. ASSUME NEW t \in Turns, NEW c \in Conversations, NEW r \in Requesters,
             NEW j, ArriveDoes(t, c, r, j)
      PROVE  Goal
  <2>1. Moves(t, j)
    BY <1>3 DEF ArriveDoes
  <2>2. CASE AtAgents(j, c, r)
    BY <1>2, <2>1, <2>2 DEF AtAgents
  <2>3. CASE Judges(j, c) /\ u = t
    BY <1>3, <2>1, <2>3, MovedTurn
  <2>4. CASE u # t
    BY <1>1, <2>1, <2>4, MovedTurn
  <2> QED
    BY <1>3, <2>2, <2>3, <2>4 DEF ArriveDoes
<1>4. ASSUME NEW t \in Turns, NEW j, SettleDoes(t, j)
      PROVE  Goal
  BY <1>2, <1>4, OverTyped DEF SettleDoes, AtAgents
<1>5. ASSUME NEW t \in Turns, NEW j, ConfirmDoes(t, j)
      PROVE  Goal
  BY <1>1, <1>5, MovedTurn DEF ConfirmDoes, Deciding
<1>6. ASSUME NEW t \in Turns, AskAgainDoes(t) \/ EndDoes(t)
      PROVE  Goal
  BY <1>2, <1>6, OverTyped DEF AskAgainDoes, EndDoes
<1>7. ASSUME NEW t \in Turns, NEW call \in Calls, NEW j, ExecuteDoes(t, call, j)
      PROVE  Goal
  <2>1. CASE j = Over
    BY <1>2, <1>7, <2>1, OverTyped DEF ExecuteDoes
  <2>2. CASE j # Over
    BY <1>1, <1>7, <2>2, MovedTurn DEF ExecuteDoes, Deciding
  <2> QED
    BY <2>1, <2>2
<1>8. ASSUME NEW t \in Turns, NEW j, Stays(t, j)
      PROVE  Goal
  BY <1>2, <1>8 DEF Stays
<1>9. ASSUME RestartDoes
      PROVE  Goal
  <2>1. turn'[u] = Over \/ turn'[u] = turn[u]
    BY <1>9 DEF RestartDoes
  <2> QED
    BY <1>1, <2>1, OverTyped DEF Deciding
<1>10. ASSUME UNCHANGED turn
       PROVE  Goal
  BY <1>1, <1>10
<1> HIDE DEF Goal
<1>11. Goal
  BY <1>3, <1>4, <1>5, <1>6, <1>7, <1>8, <1>9, <1>10
  DEF Does, HoldDoes, ReadDoes, AnswerDoes, ProposeDoes
<1> QED
  BY <1>11 DEF Goal

LEMMA AskedFirstStays ==
  ASSUME Base, Alone, AskedFirst, overlap = 1, Does
  PROVE  AskedFirst'
<1>0. TypeOK /\ \A u \in Turns : TurnShape(turn[u])
  BY DEF Base
<1>1. \A a \in Turns : turn[a].at = "done" => turn'[a].at = "done"
  BY <1>0, TurnsGoOn DEF GoesOn
<1>2. ASSUME NEW u \in Turns, Deciding(u)'
      PROVE  turn'[AskedIn(turn'[u].item)].at = "done"
  <2>1. CASE Deciding(u) /\ turn'[u].item = turn[u].item
    <3>1. Asker(u) \in Turns
      BY <2>1, BaseFacts, BatchParts DEF Asker
    <3> QED
      BY <1>1, <2>1, <3>1 DEF AskedFirst, Asker
  <2>2. ASSUME NEW c \in Conversations, NEW r \in Requesters, NEW j,
               ArriveDoes(u, c, r, j), Judges(j, c), turn'[u] = j
        PROVE  turn'[AskedIn(turn'[u].item)].at = "done"
    <3>1. Open(c) /\ turn'[u].item = approvals[c].item
      BY <2>2 DEF Judges
    <3>2. turn[AskedIn(approvals[c].item)].at = "done"
      BY <2>2, <3>1, NobodyElse DEF ArriveDoes
    <3>3. AskedIn(approvals[c].item) \in Turns
      BY <3>1, BaseFacts, BatchParts
    <3> QED
      BY <1>1, <3>1, <3>2, <3>3
  <2> QED
    BY <1>0, <1>2, <2>1, <2>2, WhoDecides
<1> QED
  BY <1>2 DEF AskedFirst, Asker

\* Only a confirmation starts an execution.
LEMMA Confirming ==
  ASSUME TypeOK, Does, NEW u \in Turns, turn[u].at # "execute",
         turn'[u].at = "execute"
  PROVE  \E j : ConfirmDoes(u, j)
<1>1. ASSUME NEW t \in Turns, NEW j, Moves(t, j), j.at # "execute"
      PROVE  FALSE
  BY <1>1, MovedTurn
<1>2. ASSUME NEW t \in Turns, NEW c \in Conversations, NEW r \in Requesters,
             NEW j, ArriveDoes(t, c, r, j)
      PROVE  FALSE
  BY <1>1, <1>2 DEF ArriveDoes, AtAgents, Judges
<1>3. ASSUME NEW t \in Turns, NEW j, SettleDoes(t, j)
      PROVE  FALSE
  BY <1>1, <1>3, OverTyped DEF SettleDoes, AtAgents
<1>4. ASSUME NEW t \in Turns, NEW j, ConfirmDoes(t, j)
      PROVE  \E k : ConfirmDoes(u, k)
  <2>1. t = u
    BY <1>4, MovedTurn DEF ConfirmDoes
  <2> QED
    BY <1>4, <2>1
<1>5. ASSUME NEW t \in Turns, AskAgainDoes(t) \/ EndDoes(t)
      PROVE  FALSE
  BY <1>1, <1>5, OverTyped DEF AskAgainDoes, EndDoes
<1>6. ASSUME NEW t \in Turns, NEW call \in Calls, NEW j, ExecuteDoes(t, call, j)
      PROVE  FALSE
  BY <1>6, OverTyped, MovedTurn DEF ExecuteDoes
<1>7. ASSUME NEW t \in Turns, NEW j, Stays(t, j)
      PROVE  FALSE
  BY <1>1, <1>7 DEF Stays
<1>8. ASSUME RestartDoes
      PROVE  FALSE
  BY <1>8, OverTyped DEF RestartDoes
<1> QED
  BY <1>2, <1>3, <1>4, <1>5, <1>6, <1>7, <1>8
  DEF Does, HoldDoes, ReadDoes, AnswerDoes, ProposeDoes

\* What is open was open before, is asked again, or has just been asked.
LEMMA WhatIsOpen ==
  ASSUME Base, Does, NEW c \in Conversations, Open(c)'
  PROVE  \/ /\ Open(c) /\ approvals'[c].item = approvals[c].item
            /\ approvals'[c].kind = "active" => approvals[c].kind = "active"
         \/ \E t \in Turns :
              /\ AskAgainDoes(t) /\ c = turn[t].conv
              /\ approvals'[c].item = turn[t].item
         \/ \E t \in Turns, calls \in SUBSET Calls : \E j, m :
              /\ HoldDoes(t, calls, j, m) /\ c = turn[t].conv
              /\ approvals'[c].item = NextBatch(t)
<1> DEFINE Still == /\ Open(c) /\ approvals'[c].item = approvals[c].item
                    /\ approvals'[c].kind = "active"
                         => approvals[c].kind = "active"
           Again == \E t \in Turns :
              /\ AskAgainDoes(t) /\ c = turn[t].conv
              /\ approvals'[c].item = turn[t].item
           Just == \E t \in Turns, calls \in SUBSET Calls : \E j, m :
              /\ HoldDoes(t, calls, j, m) /\ c = turn[t].conv
              /\ approvals'[c].item = NextBatch(t)
<1>1. ASSUME Weaker(approvals'[c], approvals[c])
      PROVE  Still
  BY <1>1, NoEntryKind DEF Weaker, Open
<1>2. ASSUME Kept(approvals', approvals)
      PROVE  Still
  BY <1>1, <1>2 DEF Kept
<1>3. ASSUME UNCHANGED approvals
      PROVE  Still
  BY <1>3 DEF Open
<1>4. ASSUME NEW t \in Turns, AskAgainDoes(t)
      PROVE  Still \/ Again
  <2>1. CASE c = turn[t].conv
    BY <1>4, <2>1 DEF AskAgainDoes, Renewed, Active
  <2>2. CASE c # turn[t].conv
    BY <1>1, <1>4, <2>2 DEF AskAgainDoes, Renewed
  <2> QED
    BY <2>1, <2>2
<1>5. ASSUME NEW t \in Turns, NEW calls \in SUBSET Calls, NEW j, NEW m,
             HoldDoes(t, calls, j, m)
      PROVE  Still \/ Just
  <2>1. CASE c = turn[t].conv
    <3>1. approvals'[c].item = NextBatch(t)
      BY <1>5, <2>1 DEF HoldDoes, Renewed, Active
    <3> QED
      BY <1>5, <2>1, <3>1
  <2>2. CASE c # turn[t].conv
    BY <1>1, <1>5, <2>2 DEF HoldDoes, Renewed
  <2> QED
    BY <2>1, <2>2
<1> HIDE DEF Still, Again, Just
<1>6. Still \/ Again \/ Just
  BY <1>2, <1>3, <1>4, <1>5
  DEF Does, ArriveDoes, SettleDoes, ConfirmDoes, ExecuteDoes, ReadDoes,
      AnswerDoes, ProposeDoes, EndDoes, RestartDoes
<1> QED
  BY <1>6 DEF Still, Again, Just

\* Who asks is waiting in the conversation, with its agents or its answer.
LEMMA AgainParts ==
  ASSUME Base, NEW t \in Turns, AskAgainDoes(t)
  PROVE  /\ Deciding(t) /\ turn[t].at = "judge" /\ turn[t].at \in Waiting
         /\ turn[t].conv \in Conversations /\ turn[t].item \in Batches
         /\ turn'[t] = Over /\ ~Deciding(t)'
         /\ \A u \in Turns : u # t => turn'[u] = turn[u]
<1>1. Deciding(t) /\ turn[t].at = "judge" /\ turn[t].at \in Waiting
  BY DEF AskAgainDoes, Deciding, Waiting
<1>2. TypeOK /\ Moves(t, Over)
  BY DEF Base, AskAgainDoes
<1>3. turn'[t] = Over /\ \A u \in Turns : u # t => turn'[u] = turn[u]
  BY <1>2, MovedTurn
<1>4. ~Deciding(t)'
  BY <1>3, OverTyped DEF Deciding
<1> QED
  BY <1>1, <1>3, <1>4, BaseFacts

LEMMA HoldParts ==
  ASSUME Base, NEW t \in Turns, NEW calls, NEW j, NEW m,
         HoldDoes(t, calls, j, m)
  PROVE  /\ turn[t].at = "agents" /\ turn[t].at \in Waiting /\ ~Deciding(t)
         /\ turn[t].conv \in Conversations
         /\ turn'[t].at = "agents" /\ ~Deciding(t)'
         /\ AskedIn(NextBatch(t)) = t /\ ~Put(NextBatch(t))
         /\ NextBatch(t) \in Batches
         /\ \A u \in Turns : u # t => turn'[u] = turn[u]
<1>1. /\ TypeOK /\ (\A u \in Turns : TurnShape(turn[u]))
      /\ turn[t].at = "agents" /\ Moves(t, j) /\ j.at = "agents"
  BY DEF Base, HoldDoes, Stays
<1>2. turn'[t] = j /\ \A u \in Turns : u # t => turn'[u] = turn[u]
  BY <1>1, MovedTurn
<1>3. turn[t].conv \in Conversations /\ turn[t].puts \in Nat
  BY <1>1, AgentsParts
<1>4. AskedIn(NextBatch(t)) = t /\ NextBatch(t)[2] = turn[t].puts + 1
  BY DEF AskedIn, NextBatch
<1>5. ~Put(NextBatch(t))
  BY <1>1, <1>3, <1>4 DEF Put
<1> QED
  BY <1>1, <1>2, <1>3, <1>4, <1>5 DEF Deciding, Waiting, HoldDoes

LEMMA OwnQuestionStays ==
  ASSUME Base, Questions, overlap = 1, Does
  PROVE  OwnQuestion'
<1>0. TypeOK /\ Alone /\ OwnQuestion
  BY DEF Base, Questions
<1>1. ASSUME NEW u \in Turns, NEW c \in Conversations, turn'[u].at = "judge",
             turn'[u].conv = c, Open(c)'
      PROVE  approvals'[c].item = turn'[u].item
  <2>1. Deciding(u)'
    BY <1>1 DEF Deciding
  <2>2. CASE /\ Deciding(u) /\ turn'[u].item = turn[u].item
             /\ turn'[u].conv = turn[u].conv
             /\ turn'[u].at = "judge" => turn[u].at = "judge"
    <3>1. turn[u].at = "judge" /\ turn[u].at \in Waiting
      BY <1>1, <2>2 DEF Waiting
    <3>2. CASE Open(c) /\ approvals'[c].item = approvals[c].item
      BY <1>0, <1>1, <2>2, <3>1, <3>2 DEF OwnQuestion
    <3>3. ASSUME NEW t \in Turns, AskAgainDoes(t), c = turn[t].conv
          PROVE  FALSE
      BY <1>0, <1>1, <2>1, <2>2, <3>1, <3>3, AgainParts DEF Alone
    <3>4. ASSUME NEW t \in Turns, NEW calls \in SUBSET Calls, NEW j, NEW m,
                 HoldDoes(t, calls, j, m), c = turn[t].conv
          PROVE  FALSE
      BY <1>0, <1>1, <2>1, <2>2, <3>1, <3>4, HoldParts DEF Alone
    <3> QED
      BY <1>1, <3>2, <3>3, <3>4, WhatIsOpen
  <2>3. ASSUME NEW d \in Conversations, NEW r \in Requesters, NEW j,
               ArriveDoes(u, d, r, j), Judges(j, d), turn'[u] = j
        PROVE  approvals'[c].item = turn'[u].item
    <3>1. d = c /\ turn'[u].item = approvals[c].item
      BY <1>1, <2>3 DEF Judges
    <3>2. Weaker(approvals'[c], approvals[c])
      BY <2>3 DEF ArriveDoes, Kept
    <3> QED
      BY <1>1, <3>1, <3>2, NoEntryKind DEF Weaker, Open
  <2> QED
    BY <1>0, <2>1, <2>2, <2>3, WhoDecides
<1>2. TypeOK' /\ \A u \in Turns : TurnShape(turn'[u])
  BY TypesStay DEF Base
<1>3. \A u \in Turns : turn'[u].at = "judge" => turn'[u].conv \in Conversations
  BY <1>2 DEF TurnShape, Waiting
<1> QED
  BY <1>1, <1>3 DEF OwnQuestion, Open

LEMMA TakenOutStays ==
  ASSUME Base, Questions, overlap = 1, Does
  PROVE  TakenOut'
<1>0. TypeOK /\ Alone /\ AskedFirst /\ TakenOut
  BY DEF Base, Questions
<1>1. ASSUME NEW u \in Turns, NEW c \in Conversations, turn'[u].at = "execute",
             Open(c)'
      PROVE  AskedIn(approvals'[c].item) # AskedIn(turn'[u].item)
  <2>1. Deciding(u)'
    BY <1>1 DEF Deciding
  <2>2. Deciding(u) /\ turn'[u].item = turn[u].item
    BY <1>0, <1>1, <2>1, WhoDecides DEF Judges
  <2>3. turn[Asker(u)].at = "done"
    BY <1>0, <2>2 DEF AskedFirst
  <2>4. CASE Open(c) /\ approvals'[c].item = approvals[c].item
    <3>1. CASE turn[u].at = "execute"
      BY <1>0, <2>2, <2>4, <3>1 DEF TakenOut, Asker
    <3>2. CASE turn[u].at # "execute"
      <4>1. \E j : ConfirmDoes(u, j)
        BY <1>0, <1>1, <2>1, <2>2, <3>2, Confirming DEF Deciding
      <4>2. approvals'[turn[u].conv] = NoEntry
        BY <4>1 DEF ConfirmDoes
      <4>3. c # turn[u].conv
        BY <1>1, <4>2, NoEntryKind DEF Open
      <4> QED
        BY <2>2, <2>4, <4>3, SameAsker DEF Asker
    <3> QED
      BY <3>1, <3>2
  <2>5. ASSUME NEW t \in Turns, AskAgainDoes(t), c = turn[t].conv,
               approvals'[c].item = turn[t].item
        PROVE  AskedIn(approvals'[c].item) # AskedIn(turn'[u].item)
    BY <1>0, <2>1, <2>2, <2>5, AgainParts, DecidesAlone DEF Asker
  <2>6. ASSUME NEW t \in Turns, NEW calls \in SUBSET Calls, NEW j, NEW m,
               HoldDoes(t, calls, j, m), c = turn[t].conv,
               approvals'[c].item = NextBatch(t)
        PROVE  AskedIn(approvals'[c].item) # AskedIn(turn'[u].item)
    BY <2>2, <2>3, <2>6, HoldParts DEF Asker
  <2> QED
    BY <1>1, <2>4, <2>5, <2>6, WhatIsOpen
<1> QED
  BY <1>1 DEF TakenOut, Asker, Open

LEMMA SentStays ==
  ASSUME Base, Questions, overlap = 1, Does, NEW x \in ran
  PROVE  Sent(x)'
<1> DEFINE a == AskedIn(x.item)
<1>0. TypeOK /\ Alone /\ Sent(x)
  BY DEF Base, Questions
<1>1. x.item \in Batches /\ a \in Turns
  BY <1>0, BatchParts DEF TypeOK
<1>2. turn[a].at = "done" /\ turn'[a].at = "done"
  BY <1>0, <1>1, TurnsGoOn DEF Sent, GoesOn, Base
<1>3. ASSUME NEW c \in Conversations, Open(c)'
      PROVE  AskedIn(approvals'[c].item) # a
  <2>1. CASE Open(c) /\ approvals'[c].item = approvals[c].item
    BY <1>0, <2>1 DEF Sent
  <2>2. ASSUME NEW t \in Turns, AskAgainDoes(t), c = turn[t].conv,
               approvals'[c].item = turn[t].item
        PROVE  AskedIn(approvals'[c].item) # a
    <3>1. Deciding(t) /\ turn[t].at = "judge"
      BY <2>2, AgainParts
    <3> QED
      BY <1>0, <2>2, <3>1 DEF Sent, Asker
  <2>3. ASSUME NEW t \in Turns, NEW calls \in SUBSET Calls, NEW j, NEW m,
               HoldDoes(t, calls, j, m), c = turn[t].conv,
               approvals'[c].item = NextBatch(t)
        PROVE  AskedIn(approvals'[c].item) # a
    <3>1. turn[t].at = "agents" /\ AskedIn(NextBatch(t)) = t
      BY <2>3, HoldParts
    <3> QED
      BY <1>2, <2>3, <3>1
  <2> QED
    BY <1>3, <2>1, <2>2, <2>3, WhatIsOpen
<1>4. ASSUME NEW u \in Turns, Deciding(u)', AskedIn(turn'[u].item) = a
      PROVE  turn'[u].at = "execute" /\ u = x.turn
  <2>1. CASE /\ Deciding(u) /\ turn'[u].item = turn[u].item
             /\ turn'[u].at = "judge" => turn[u].at = "judge"
    <3>1. turn[u].at = "execute" /\ u = x.turn
      BY <1>0, <1>4, <2>1 DEF Sent, Asker
    <3> QED
      BY <1>4, <2>1, <3>1 DEF Deciding
  <2>2. ASSUME NEW c \in Conversations, NEW r \in Requesters, NEW j,
               ArriveDoes(u, c, r, j), Judges(j, c), turn'[u] = j
        PROVE  FALSE
    <3>1. Open(c) /\ turn'[u].item = approvals[c].item
      BY <2>2 DEF Judges
    <3> QED
      BY <1>0, <1>4, <3>1 DEF Sent
  <2> QED
    BY <1>0, <1>4, <2>1, <2>2, WhoDecides
<1> HIDE DEF a
<1> QED
  BY <1>2, <1>3, <1>4 DEF Sent, Asker, a, Open, Deciding

\* The call that is sent now.
LEMMA SentNow ==
  ASSUME Base, Questions, overlap = 1, Does,
         NEW t \in Turns, NEW call \in Calls, NEW j, ExecuteDoes(t, call, j),
         NEW x, x = [turn |-> t, item |-> turn[t].item, call |-> call]
  PROVE  Sent(x)'
<1>0. /\ TypeOK /\ Alone /\ AskedFirst /\ TakenOut
      /\ \A u \in Turns : TurnShape(turn[u])
  BY DEF Base, Questions
<1>1. /\ turn[t].at = "execute" /\ Deciding(t) /\ Moves(t, j)
      /\ UNCHANGED approvals
  BY DEF ExecuteDoes, Deciding
<1>2. x.turn = t /\ AskedIn(x.item) = Asker(t) /\ Asker(t) \in Turns
  BY <1>1, BaseFacts, BatchParts DEF Asker
<1>3. turn'[AskedIn(x.item)].at = "done"
  BY <1>0, <1>1, <1>2, TurnsGoOn DEF AskedFirst, GoesOn
<1>4. ASSUME NEW c \in Conversations, Open(c)'
      PROVE  AskedIn(approvals'[c].item) # AskedIn(x.item)
  BY <1>0, <1>1, <1>2, <1>4 DEF TakenOut, Open
<1>5. ASSUME NEW u \in Turns, Deciding(u)',
             AskedIn(turn'[u].item) = AskedIn(x.item)
      PROVE  turn'[u].at = "execute" /\ u = x.turn
  <2>1. CASE u = t
    <3>1. turn'[u] = j
      BY <1>0, <1>1, <2>1, MovedTurn
    <3>2. j # Over
      BY <1>5, <3>1, OverTyped DEF Deciding
    <3> QED
      BY <1>2, <2>1, <3>1, <3>2 DEF ExecuteDoes
  <2>2. CASE u # t
    <3>1. turn'[u] = turn[u]
      BY <1>0, <1>1, <2>2, MovedTurn
    <3>2. Deciding(u) /\ Asker(u) = Asker(t)
      BY <1>2, <1>5, <3>1 DEF Deciding, Asker
    <3> QED
      BY <1>0, <1>1, <2>2, <3>2, DecidesAlone
  <2> QED
    BY <2>1, <2>2
<1> QED
  BY <1>3, <1>4, <1>5 DEF Sent, Asker, Open, Deciding

LEMMA AllSentStay ==
  ASSUME Base, Questions, overlap = 1, Does
  PROVE  \A x \in ran' : Sent(x)'
<1>1. ASSUME NEW t \in Turns, NEW call \in Calls, NEW j, ExecuteDoes(t, call, j)
      PROVE  \A x \in ran' : Sent(x)'
  <2>1. ASSUME NEW x \in ran'
        PROVE  Sent(x)'
    <3>1. x \in ran \/ x = [turn |-> t, item |-> turn[t].item, call |-> call]
      BY <1>1 DEF ExecuteDoes
    <3> QED
      BY <1>1, <3>1, SentStays, SentNow
  <2> QED
    BY <2>1
<1>2. ASSUME UNCHANGED ran
      PROVE  \A x \in ran' : Sent(x)'
  BY <1>2, SentStays
<1> QED
  BY <1>1, <1>2
  DEF Does, ArriveDoes, SettleDoes, ConfirmDoes, AskAgainDoes, HoldDoes,
      ReadDoes, AnswerDoes, ProposeDoes, EndDoes, RestartDoes, history

-----------------------------------------------------------------------------
(* What was dropped                                                        *)

LEMMA StillOpenOrAsked ==
  ASSUME Base, Questions, overlap = 1, Does, UNCHANGED dropped
  PROVE  Gone'
<1>0. /\ TypeOK /\ (\A u \in Turns : TurnShape(turn[u])) /\ Gone
      /\ dropped \subseteq Batches
  BY DEF Base, Questions, TypeOK
<1>1. \A b \in dropped : Put(b)'
  BY <1>0, PutStays DEF Gone
<1>2. ASSUME NEW c \in Conversations, Open(c)'
      PROVE  approvals'[c].item \notin dropped
  <2>1. CASE Open(c) /\ approvals'[c].item = approvals[c].item
    BY <1>0, <2>1 DEF Gone
  <2>2. ASSUME NEW t \in Turns, AskAgainDoes(t),
               approvals'[c].item = turn[t].item
        PROVE  approvals'[c].item \notin dropped
    BY <1>0, <2>2, AgainParts DEF Gone
  <2>3. ASSUME NEW t \in Turns, NEW calls \in SUBSET Calls, NEW j, NEW m,
               HoldDoes(t, calls, j, m),
               approvals'[c].item = NextBatch(t)
        PROVE  approvals'[c].item \notin dropped
    BY <1>0, <2>3, HoldParts DEF Gone
  <2> QED
    BY <1>2, <2>1, <2>2, <2>3, WhatIsOpen
<1>3. ASSUME NEW u \in Turns, Deciding(u)'
      PROVE  turn'[u].item \notin dropped
  <2>1. CASE Deciding(u) /\ turn'[u].item = turn[u].item
    BY <1>0, <2>1 DEF Gone
  <2>2. ASSUME NEW c \in Conversations, NEW j, Judges(j, c), turn'[u] = j
        PROVE  turn'[u].item \notin dropped
    BY <1>0, <2>2 DEF Gone, Judges
  <2> QED
    BY <1>0, <1>3, <2>1, <2>2, WhoDecides
<1> QED
  BY <1>1, <1>2, <1>3 DEF Gone, Open, Deciding

\* The question b of the conversation c goes, and nobody else is answering it.
LEMMA DroppedNow ==
  ASSUME Base, Questions, overlap = 1, Does, NEW c \in Conversations,
         NEW b \in Batches, Put(b), batch[b].conv = c,
         dropped' = dropped \cup {b},
         Open(c)' =>
           approvals'[c].item # b /\ approvals'[c].item \notin dropped,
         \A d \in Conversations \ {c} : Open(d)' =>
           Open(d) /\ approvals'[d].item = approvals[d].item,
         \A u \in Turns : Deciding(u)' =>
           /\ Deciding(u) /\ turn'[u].item = turn[u].item /\ turn[u].conv # c
  PROVE  Gone'
<1>0. /\ TypeOK /\ (\A u \in Turns : TurnShape(turn[u])) /\ Gone
      /\ dropped \subseteq Batches
  BY DEF Base, Questions, TypeOK
<1>1. \A e \in dropped \cup {b} : Put(e)'
  BY <1>0, PutStays DEF Gone
<1>2. ASSUME NEW d \in Conversations, Open(d)'
      PROVE  approvals'[d].item \notin dropped \cup {b}
  <2>1. CASE d = c
    BY <1>2, <2>1
  <2>2. CASE d # c
    <3>1. Open(d) /\ approvals'[d].item = approvals[d].item
      BY <1>2, <2>2
    <3>2. batch[approvals[d].item].conv = d
      BY <3>1, BaseFacts
    <3> QED
      BY <1>0, <2>2, <3>1, <3>2 DEF Gone
  <2> QED
    BY <2>1, <2>2
<1>3. ASSUME NEW u \in Turns, Deciding(u)'
      PROVE  turn'[u].item \notin dropped \cup {b}
  <2>1. Deciding(u) /\ turn'[u].item = turn[u].item /\ turn[u].conv # c
    BY <1>3
  <2>2. batch[turn[u].item].conv = turn[u].conv
    BY <2>1, BaseFacts
  <2> QED
    BY <1>0, <2>1, <2>2 DEF Gone
<1> QED
  BY <1>1, <1>2, <1>3 DEF Gone, Open, Deciding

LEMMA GoneStays ==
  ASSUME Base, Questions, overlap = 1, Does
  PROVE  Gone'
<1>0. /\ TypeOK /\ Alone /\ Gone /\ \A u \in Turns : TurnShape(turn[u])
  BY DEF Base, Questions
<1>1. ASSUME Kept(approvals', approvals), NEW d \in Conversations, Open(d)'
      PROVE  Open(d) /\ approvals'[d].item = approvals[d].item
  BY <1>1, NoEntryKind DEF Kept, Weaker, Open
<1>2. ASSUME NEW t \in Turns, NEW c \in Conversations, NEW r \in Requesters,
             NEW j, ArriveDoes(t, c, r, j)
      PROVE  Gone'
  <2>1. CASE UNCHANGED dropped
    BY <2>1, StillOpenOrAsked
  <2>2. CASE AtAgents(j, c, r) /\ DropsOpen(c)
    <3>1. Open(c) /\ approvals'[c] = NoEntry
      BY <2>2 DEF DropsOpen
    <3>2. PICK b \in Batches : b = approvals[c].item
      BY <3>1, BaseFacts
    <3>3. Put(b) /\ batch[b].conv = c /\ dropped' = dropped \cup {b}
      BY <2>2, <3>1, <3>2, BaseFacts DEF DropsOpen
    <3>4. ~Open(c)'
      BY <3>1, NoEntryKind DEF Open
    <3>5. ASSUME NEW u \in Turns, Deciding(u)'
          PROVE  Deciding(u) /\ turn'[u].item = turn[u].item /\ turn[u].conv # c
      <4>1. turn'[t] = j /\ \A v \in Turns : v # t => turn'[v] = turn[v]
        BY <1>0, <1>2, MovedTurn DEF ArriveDoes
      <4>2. u # t
        BY <2>2, <3>5, <4>1 DEF AtAgents, Deciding
      <4>3. Deciding(u) /\ turn'[u].item = turn[u].item
        BY <3>5, <4>1, <4>2 DEF Deciding
      <4>4. turn[u].conv # c
        BY <1>0, <1>2, <4>3, NobodyElse, DecidingWaits DEF ArriveDoes
      <4> QED
        BY <4>3, <4>4
    <3>6. Kept(approvals', approvals)
      BY <1>2 DEF ArriveDoes
    <3> QED
      BY <1>1, <3>3, <3>4, <3>5, <3>6, DroppedNow
  <2> QED
    BY <1>2, <2>1, <2>2 DEF ArriveDoes
<1>3. ASSUME NEW t \in Turns, NEW j, SettleDoes(t, j)
      PROVE  Gone'
  <2>1. Deciding(t) /\ Moves(t, j) /\ j.at \notin {"judge", "execute"}
    BY <1>3, OverTyped DEF SettleDoes, AtAgents, Deciding
  <2>2. PICK b \in Batches : b = turn[t].item
    BY <2>1, BaseFacts
  <2>3. PICK c \in Conversations : c = turn[t].conv
    BY <2>1, BaseFacts
  <2>4. Put(b) /\ batch[b].conv = c
    BY <2>1, <2>2, <2>3, BaseFacts
  <2>5. /\ ~Open(c)' /\ Kept(approvals', approvals)
        /\ dropped' = dropped \cup {b}
    BY <1>3, <2>2, <2>3, NoEntryKind DEF SettleDoes, Open
  <2>6. ASSUME NEW u \in Turns, Deciding(u)'
        PROVE  Deciding(u) /\ turn'[u].item = turn[u].item /\ turn[u].conv # c
    <3>1. turn'[t] = j /\ \A v \in Turns : v # t => turn'[v] = turn[v]
      BY <1>0, <2>1, MovedTurn
    <3>2. u # t
      BY <2>1, <2>6, <3>1 DEF Deciding
    <3>3. Deciding(u) /\ turn'[u].item = turn[u].item
      BY <2>6, <3>1, <3>2 DEF Deciding
    <3> QED
      BY <1>0, <2>1, <2>3, <3>2, <3>3, DecidingWaits DEF Alone
  <2> QED
    BY <1>1, <2>4, <2>5, <2>6, DroppedNow
<1>4. ASSUME NEW t \in Turns, NEW calls \in SUBSET Calls, NEW j, NEW m,
             HoldDoes(t, calls, j, m)
      PROVE  Gone'
  <2>1. CASE Superseded(t) \subseteq {}
    BY <1>4, <2>1, StillOpenOrAsked DEF HoldDoes
  <2>2. CASE ~(Superseded(t) \subseteq {})
    <3>1. PICK c \in Conversations : c = turn[t].conv
      BY <1>4, HoldParts
    <3>2. /\ Open(c) /\ Superseded(t) = {approvals[c].item}
      BY <2>2, <3>1 DEF Superseded, Items, Open
    <3>3. PICK b \in Batches : b = approvals[c].item
      BY <3>2, BaseFacts
    <3>4. Put(b) /\ batch[b].conv = c /\ dropped' = dropped \cup {b}
      BY <1>4, <3>2, <3>3, BaseFacts DEF HoldDoes
    <3>5. /\ approvals'[c].item = NextBatch(t)
          /\ \A d \in Conversations \ {c} : Weaker(approvals'[d], approvals[d])
      BY <1>4, <3>1 DEF HoldDoes, Renewed, Active
    <3>6. approvals'[c].item # b /\ approvals'[c].item \notin dropped
      BY <1>0, <1>4, <3>4, <3>5, HoldParts DEF Gone
    <3>7. \A d \in Conversations \ {c} : Open(d)' =>
            Open(d) /\ approvals'[d].item = approvals[d].item
      BY <3>5, NoEntryKind DEF Weaker, Open
    <3>8. ASSUME NEW u \in Turns, Deciding(u)'
          PROVE  Deciding(u) /\ turn'[u].item = turn[u].item /\ turn[u].conv # c
      <4>1. u # t
        BY <1>4, <3>8, HoldParts
      <4>2. Deciding(u) /\ turn'[u].item = turn[u].item
        BY <1>4, <3>8, <4>1, HoldParts DEF Deciding
      <4> QED
        BY <1>0, <1>4, <3>1, <4>1, <4>2, HoldParts, DecidingWaits DEF Alone
    <3> QED
      BY <3>4, <3>6, <3>7, <3>8, DroppedNow
  <2> QED
    BY <2>1, <2>2
<1>5. ASSUME NEW t \in Turns, NEW j, ProposeDoes(t, j)
      PROVE  Gone'
  <2>0. /\ turn[t].at = "agents" /\ Moves(t, j) /\ j.at = "agents"
        /\ turn[t].at \in Waiting /\ turn[t].conv \in Conversations
    BY <1>0, <1>5, AgentsParts DEF ProposeDoes, Stays, Waiting
  <2>1. CASE Items(approvals[turn[t].conv]) = {}
    BY <1>5, <2>1, StillOpenOrAsked DEF ProposeDoes
  <2>2. CASE Items(approvals[turn[t].conv]) # {}
    <3>1. PICK c \in Conversations : c = turn[t].conv
      BY <2>0
    <3>2. Open(c) /\ Items(approvals[c]) = {approvals[c].item}
      BY <2>2, <3>1 DEF Items, Open
    <3>3. PICK b \in Batches : b = approvals[c].item
      BY <3>2, BaseFacts
    <3>4. Put(b) /\ batch[b].conv = c /\ dropped' = dropped \cup {b}
      BY <1>5, <3>1, <3>2, <3>3, BaseFacts DEF ProposeDoes
    <3>5. ~Open(c)' /\ Kept(approvals', approvals)
      BY <1>5, <3>1, NoEntryKind DEF ProposeDoes, Open
    <3>6. ASSUME NEW u \in Turns, Deciding(u)'
          PROVE  Deciding(u) /\ turn'[u].item = turn[u].item /\ turn[u].conv # c
      <4>1. turn'[t] = j /\ \A v \in Turns : v # t => turn'[v] = turn[v]
        BY <1>0, <2>0, MovedTurn
      <4>2. u # t
        BY <2>0, <3>6, <4>1 DEF Deciding
      <4>3. Deciding(u) /\ turn'[u].item = turn[u].item
        BY <3>6, <4>1, <4>2 DEF Deciding
      <4> QED
        BY <1>0, <2>0, <3>1, <4>2, <4>3, DecidingWaits DEF Alone
    <3> QED
      BY <1>1, <3>4, <3>5, <3>6, DroppedNow
  <2> QED
    BY <2>1, <2>2
<1>6. ASSUME UNCHANGED dropped
      PROVE  Gone'
  BY <1>6, StillOpenOrAsked
<1> QED
  BY <1>2, <1>3, <1>4, <1>5, <1>6
  DEF Does, ConfirmDoes, AskAgainDoes, ExecuteDoes, ReadDoes, AnswerDoes,
      EndDoes, RestartDoes, history

LEMMA QuestionsNext ==
  ASSUME Base, Questions, overlap = 1, Does
  PROVE  Questions'
<1>1. Alone' /\ AskedFirst'
  BY AloneStays, AskedFirstStays DEF Questions
<1>2. OwnQuestion' /\ TakenOut' /\ Gone'
  BY OwnQuestionStays, TakenOutStays, GoneStays
<1>3. \A x \in ran' : Sent(x)'
  BY AllSentStay
<1> QED
  BY <1>1, <1>2, <1>3 DEF Questions

-----------------------------------------------------------------------------
(* Proposed changes, one turn at a time                                    *)

Fresh ==
  /\ \A c \in Conversations : Proposal(c) => Proposed(proposals[c].item)
  /\ \A c, d \in Conversations :
       Proposal(c) /\ Proposal(d) /\ proposals[c].item = proposals[d].item
         => c = d

\* A change whose answer is judged is judged by one turn, and is proposed
\* nowhere but in the conversation of that turn.
JudgedOnce ==
  /\ \A t \in Turns : Judging(t) =>
       /\ Proposed(turn[t].change)
       /\ \A c \in Conversations :
            Proposal(c) /\ proposals[c].item = turn[t].change
              => c = turn[t].conv
  /\ \A t, u \in Turns :
       Judging(t) /\ Judging(u) /\ turn[t].change = turn[u].change => t = u

\* A change that was applied is over.
Applied(x) ==
  /\ Proposed(x.change)
  /\ \A c \in Conversations : Proposal(c) => proposals[c].item # x.change
  /\ \A t \in Turns : Judging(t) => turn[t].change # x.change

Changes ==
  /\ Fresh /\ JudgedOnce /\ \A x \in applied : Applied(x)
  /\ \A x, y \in applied : x.change = y.change => x = y

LEMMA ProposedStays ==
  ASSUME Base, Does, NEW p \in Turns, Proposed(p)
  PROVE  Proposed(p)'
  BY TurnsGoOn DEF Base, GoesOn, Proposed, ProposedOf

LEMMA ProposalParts ==
  ASSUME Base
  PROVE  /\ \A c \in Conversations : Proposal(c) => proposals[c].item \in Turns
         /\ \A t \in Turns : Judging(t) =>
              /\ turn[t].change \in Turns /\ turn[t].at = "agents"
              /\ turn[t].at \in Waiting /\ turn[t].conv \in Conversations
<1>1. proposals \in Store(Turns) /\ \A t \in Turns : TurnShape(turn[t])
  BY DEF Base, TypeOK
<1>2. \A c \in Conversations : Proposal(c) => proposals[c].item \in Turns
  BY <1>1, EntryAt DEF Proposal
<1> QED
  BY <1>1, <1>2 DEF Judging, TurnShape, Waiting

LEMMA ProposerParts ==
  ASSUME Base, NEW t \in Turns, NEW j, ProposeDoes(t, j)
  PROVE  /\ turn[t].conv \in Conversations /\ ~Proposed(t) /\ Proposed(t)'
<1>1. /\ TypeOK /\ (\A u \in Turns : TurnShape(turn[u]))
      /\ turn[t].at = "agents" /\ Moves(t, j)
      /\ turn[t].automation = "ready" /\ j.automation = "over"
  BY DEF Base, ProposeDoes, Stays
<1>2. turn'[t] = j
  BY <1>1, MovedTurn
<1> QED
  BY <1>1, <1>2, AgentsParts DEF Proposed, ProposedOf

LEMMA WhatIsProposed ==
  ASSUME Base, Does, NEW c \in Conversations, Proposal(c)'
  PROVE  \/ /\ Proposal(c) /\ proposals'[c].item = proposals[c].item
            /\ proposals'[c].kind = "active" => proposals[c].kind = "active"
         \/ \E t \in Turns : \E j :
              /\ ProposeDoes(t, j) /\ c = turn[t].conv
              /\ proposals'[c].item = t
<1> DEFINE Still == /\ Proposal(c) /\ proposals'[c].item = proposals[c].item
                    /\ proposals'[c].kind = "active"
                         => proposals[c].kind = "active"
           Just == \E t \in Turns : \E j :
              /\ ProposeDoes(t, j) /\ c = turn[t].conv
              /\ proposals'[c].item = t
<1>1. ASSUME Weaker(proposals'[c], proposals[c])
      PROVE  Still
  BY <1>1, NoEntryKind DEF Weaker, Proposal
<1>2. ASSUME Kept(proposals', proposals)
      PROVE  Still
  BY <1>1, <1>2 DEF Kept
<1>3. ASSUME UNCHANGED proposals
      PROVE  Still
  BY <1>3 DEF Proposal
<1>4. ASSUME NEW t \in Turns, NEW j, ProposeDoes(t, j)
      PROVE  Still \/ Just
  <2>1. CASE c = turn[t].conv
    <3>1. proposals'[c].item = t
      BY <1>4, <2>1 DEF ProposeDoes, Renewed, Active
    <3> QED
      BY <1>4, <2>1, <3>1
  <2>2. CASE c # turn[t].conv
    BY <1>1, <1>4, <2>2 DEF ProposeDoes, Renewed
  <2> QED
    BY <2>1, <2>2
<1> HIDE DEF Still, Just
<1>5. Still \/ Just
  BY <1>2, <1>3, <1>4
  DEF Does, ArriveDoes, SettleDoes, ConfirmDoes, AskAgainDoes, ExecuteDoes,
      HoldDoes, ReadDoes, AnswerDoes, EndDoes, RestartDoes
<1> QED
  BY <1>5 DEF Still, Just

LEMMA WhoJudges ==
  ASSUME Base, Does, NEW u \in Turns, Judging(u)'
  PROVE  /\ turn'[u].conv = turn[u].conv /\ turn[u].at \in Waiting
         /\ \/ Judging(u) /\ turn'[u].change = turn[u].change
            \/ /\ Proposal(turn[u].conv) /\ ~Judging(u)
               /\ turn[u].conv \in Conversations
               /\ turn'[u].change = proposals[turn[u].conv].item
<1> DEFINE Goal ==
         /\ turn'[u].conv = turn[u].conv /\ turn[u].at \in Waiting
         /\ \/ Judging(u) /\ turn'[u].change = turn[u].change
            \/ /\ Proposal(turn[u].conv) /\ ~Judging(u)
               /\ turn[u].conv \in Conversations
               /\ turn'[u].change = proposals[turn[u].conv].item
<1>0. TypeOK /\ \A t \in Turns : TurnShape(turn[t])
  BY DEF Base
<1>1. ASSUME turn'[u] = turn[u]
      PROVE  Goal
  BY <1>1, ProposalParts DEF Judging
<1>2. ASSUME NEW t \in Turns, NEW j, Moves(t, j),
             t = u => j.automation # "judge"
      PROVE  Goal
  <2>1. u # t
    BY <1>0, <1>2, MovedTurn DEF Judging
  <2> QED
    BY <1>0, <1>1, <1>2, <2>1, MovedTurn
<1>3. ASSUME NEW t \in Turns, NEW c \in Conversations, NEW r \in Requesters,
             NEW j, ArriveDoes(t, c, r, j)
      PROVE  Goal
  BY <1>2, <1>3 DEF ArriveDoes, AtAgents, Judges
<1>4. ASSUME NEW t \in Turns, NEW j, SettleDoes(t, j)
      PROVE  Goal
  BY <1>2, <1>4, OverTyped DEF SettleDoes, AtAgents
<1>5. ASSUME NEW t \in Turns, NEW j, ConfirmDoes(t, j)
      PROVE  Goal
  BY <1>2, <1>5 DEF ConfirmDoes
<1>6. ASSUME NEW t \in Turns, AskAgainDoes(t) \/ EndDoes(t)
      PROVE  Goal
  BY <1>2, <1>6, OverTyped DEF AskAgainDoes, EndDoes
<1>7. ASSUME NEW t \in Turns, NEW call \in Calls, NEW j, ExecuteDoes(t, call, j)
      PROVE  Goal
  BY <1>2, <1>7, OverTyped DEF ExecuteDoes
<1>8. ASSUME NEW t \in Turns, NEW calls \in SUBSET Calls, NEW j, NEW m,
             HoldDoes(t, calls, j, m)
      PROVE  Goal
  <2>1. /\ turn[t].at \in Waiting /\ Moves(t, j) /\ j.conv = turn[t].conv
        /\ j.automation = turn[t].automation /\ j.change = turn[t].change
    BY <1>8 DEF HoldDoes, Stays, Waiting
  <2>2. CASE u = t
    <3>1. turn'[u] = j
      BY <1>0, <2>1, <2>2, MovedTurn
    <3> QED
      BY <2>1, <2>2, <3>1 DEF Judging
  <2>3. CASE u # t
    BY <1>2, <2>1, <2>3
  <2> QED
    BY <2>2, <2>3
<1>9. ASSUME NEW t \in Turns, NEW j, ReadDoes(t, j)
      PROVE  Goal
  <2>1. /\ turn[t].at = "agents" /\ Moves(t, j) /\ j.conv = turn[t].conv
        /\ turn[t].automation = "idle"
        /\ j.automation = "judge" =>
             Proposal(turn[t].conv) /\ j.change = proposals[turn[t].conv].item
    BY <1>9 DEF ReadDoes, Stays
  <2>2. CASE u = t
    <3>1. turn'[u] = j /\ turn[t].conv \in Conversations
      BY <1>0, <2>1, <2>2, MovedTurn, AgentsParts
    <3> QED
      BY <2>1, <2>2, <3>1 DEF Judging, Waiting
  <2>3. CASE u # t
    BY <1>2, <2>1, <2>3
  <2> QED
    BY <2>2, <2>3
<1>10. ASSUME NEW t \in Turns, NEW j, AnswerDoes(t, j) \/ ProposeDoes(t, j)
       PROVE  Goal
  BY <1>2, <1>10 DEF AnswerDoes, ProposeDoes, Stays
<1>11. ASSUME RestartDoes
       PROVE  Goal
  <2>1. turn'[u] = Over \/ turn'[u] = turn[u]
    BY <1>11 DEF RestartDoes
  <2> QED
    BY <1>1, <2>1, OverTyped DEF Judging
<1>12. ASSUME UNCHANGED turn
       PROVE  Goal
  BY <1>1, <1>12
<1> HIDE DEF Goal
<1>13. Goal
  BY <1>3, <1>4, <1>5, <1>6, <1>7, <1>8, <1>9, <1>10, <1>11, <1>12 DEF Does
<1> QED
  BY <1>13 DEF Goal

LEMMA FreshStays ==
  ASSUME Base, Changes, Does
  PROVE  Fresh'
<1>0. Fresh
  BY DEF Changes
<1>1. ASSUME NEW c \in Conversations, Proposal(c)'
      PROVE  /\ ProposedOf(turn'[proposals'[c].item])
             /\ \A d \in Conversations :
                  Proposal(d) /\ proposals[d].item = proposals'[c].item => c = d
  <2>1. CASE Proposal(c) /\ proposals'[c].item = proposals[c].item
    <3>1. PICK p \in Turns : p = proposals[c].item
      BY <2>1, ProposalParts
    <3>2. Proposed(p)'
      BY <1>0, <2>1, <3>1, ProposedStays DEF Fresh
    <3> QED
      BY <1>0, <2>1, <3>1, <3>2 DEF Fresh, Proposed
  <2>2. ASSUME NEW t \in Turns, NEW j, ProposeDoes(t, j), c = turn[t].conv,
               proposals'[c].item = t
        PROVE  /\ ProposedOf(turn'[proposals'[c].item])
               /\ \A d \in Conversations :
                    Proposal(d) /\ proposals[d].item = proposals'[c].item
                      => c = d
    <3>1. Proposed(t)' /\ ~Proposed(t)
      BY <2>2, ProposerParts
    <3>2. \A d \in Conversations : Proposal(d) => proposals[d].item # t
      BY <1>0, <3>1 DEF Fresh
    <3> QED
      BY <2>2, <3>1, <3>2 DEF Proposed
  <2> QED
    BY <1>1, <2>1, <2>2, WhatIsProposed
<1>2. ASSUME NEW c \in Conversations, NEW d \in Conversations,
             Proposal(c)', Proposal(d)', proposals'[c].item = proposals'[d].item
      PROVE  c = d
  <2>1. CASE Proposal(d) /\ proposals'[d].item = proposals[d].item
    BY <1>1, <1>2, <2>1
  <2>2. CASE Proposal(c) /\ proposals'[c].item = proposals[c].item
    BY <1>1, <1>2, <2>2
  <2>3. ASSUME NEW t \in Turns, c = turn[t].conv, proposals'[c].item = t,
               NEW u \in Turns, d = turn[u].conv, proposals'[d].item = u
        PROVE  c = d
    BY <1>2, <2>3
  <2> QED
    BY <1>2, <2>1, <2>2, <2>3, WhatIsProposed
<1> QED
  BY <1>1, <1>2 DEF Fresh, Proposal, Proposed

LEMMA JudgedStays ==
  ASSUME Base, Alone, Changes, Does
  PROVE  JudgedOnce'
<1>0. Fresh /\ JudgedOnce
  BY DEF Changes
<1>1. ASSUME NEW u \in Turns, Judging(u)'
      PROVE  /\ turn'[u].change \in Turns
             /\ Proposed(turn'[u].change) /\ turn'[u].conv = turn[u].conv
             /\ turn[u].at \in Waiting
             /\ \A d \in Conversations :
                  Proposal(d) /\ proposals[d].item = turn'[u].change
                    => d = turn[u].conv
  BY <1>0, <1>1, WhoJudges, ProposalParts DEF Fresh, JudgedOnce
<1>2. ASSUME NEW u \in Turns, Judging(u)'
      PROVE  /\ ProposedOf(turn'[turn'[u].change])
             /\ \A c \in Conversations :
                  Proposal(c)' /\ proposals'[c].item = turn'[u].change
                    => c = turn'[u].conv
  <2>1. PICK p \in Turns : p = turn'[u].change
    BY <1>1, <1>2
  <2>2. Proposed(p) /\ Proposed(p)'
    BY <1>1, <1>2, <2>1, ProposedStays
  <2>3. ASSUME NEW c \in Conversations, Proposal(c)', proposals'[c].item = p
        PROVE  c = turn'[u].conv
    <3>1. ASSUME NEW t \in Turns, NEW j, ProposeDoes(t, j),
                 proposals'[c].item = t
          PROVE  FALSE
      BY <2>2, <2>3, <3>1, ProposerParts
    <3>2. Proposal(c) /\ proposals'[c].item = proposals[c].item
      BY <2>3, <3>1, WhatIsProposed
    <3> QED
      BY <1>1, <1>2, <2>1, <2>3, <3>2
  <2> QED
    BY <2>1, <2>2, <2>3 DEF Proposed
<1>3. ASSUME NEW t \in Turns, NEW u \in Turns, Judging(t)', Judging(u)',
             turn'[t].change = turn'[u].change
      PROVE  t = u
  <2>1. CASE /\ Judging(t) /\ turn'[t].change = turn[t].change
             /\ Judging(u) /\ turn'[u].change = turn[u].change
    BY <1>0, <1>3, <2>1 DEF JudgedOnce
  <2>2. ASSUME NEW v \in Turns, NEW w \in Turns, Judging(v)', Judging(w)',
               turn'[v].change = turn'[w].change,
               Proposal(turn[v].conv), turn[v].conv \in Conversations,
               turn'[v].change = proposals[turn[v].conv].item
        PROVE  v = w
    <3>1. turn[v].conv = turn[w].conv
      BY <1>1, <2>2
    <3> QED
      BY <1>1, <2>2, <3>1 DEF Alone
  <2> QED
    BY <1>3, <2>1, <2>2, WhoJudges
<1> QED
  BY <1>2, <1>3 DEF JudgedOnce, Judging, Proposal, Proposed

LEMMA AppliedStays ==
  ASSUME Base, Changes, Does, NEW x \in applied
  PROVE  Applied(x)'
<1>0. Fresh /\ Applied(x) /\ x.change \in Turns
  BY DEF Changes, Base, TypeOK
<1>1. Proposed(x.change)'
  BY <1>0, ProposedStays DEF Applied
<1>2. ASSUME NEW c \in Conversations, Proposal(c)'
      PROVE  proposals'[c].item # x.change
  <2>1. CASE Proposal(c) /\ proposals'[c].item = proposals[c].item
    BY <1>0, <2>1 DEF Applied
  <2>2. ASSUME NEW t \in Turns, NEW j, ProposeDoes(t, j), proposals'[c].item = t
        PROVE  proposals'[c].item # x.change
    BY <1>0, <2>2, ProposerParts DEF Applied
  <2> QED
    BY <1>2, <2>1, <2>2, WhatIsProposed
<1>3. ASSUME NEW u \in Turns, Judging(u)'
      PROVE  turn'[u].change # x.change
  BY <1>0, <1>3, WhoJudges DEF Applied
<1> QED
  BY <1>1, <1>2, <1>3 DEF Applied, Proposal, Judging, Proposed

\* The change that is applied now.
LEMMA AppliedNow ==
  ASSUME Base, Changes, Does, NEW t \in Turns, NEW j, AnswerDoes(t, j),
         proposals'[turn[t].conv] = NoEntry,
         NEW x, x = [turn |-> t, change |-> turn[t].change]
  PROVE  Applied(x)'
<1>0. Fresh /\ JudgedOnce /\ TypeOK
  BY DEF Changes, Base
<1>1. /\ Judging(t) /\ Moves(t, j) /\ j.automation # "judge"
      /\ x.change = turn[t].change /\ x.change \in Turns
  BY ProposalParts DEF AnswerDoes, Stays, Judging
<1>2. Proposed(x.change) /\ Proposed(x.change)'
  BY <1>0, <1>1, ProposedStays DEF JudgedOnce
<1>3. ASSUME NEW c \in Conversations, Proposal(c)'
      PROVE  proposals'[c].item # x.change
  <2>1. CASE Proposal(c) /\ proposals'[c].item = proposals[c].item
    <3>1. c # turn[t].conv
      BY <1>3, NoEntryKind DEF Proposal
    <3> QED
      BY <1>0, <1>1, <2>1, <3>1 DEF JudgedOnce
  <2>2. ASSUME NEW u \in Turns, NEW k, ProposeDoes(u, k), proposals'[c].item = u
        PROVE  proposals'[c].item # x.change
    BY <1>2, <2>2, ProposerParts
  <2> QED
    BY <1>3, <2>1, <2>2, WhatIsProposed
<1>4. ASSUME NEW u \in Turns, Judging(u)'
      PROVE  turn'[u].change # x.change
  <2>1. turn'[t] = j /\ \A v \in Turns : v # t => turn'[v] = turn[v]
    BY <1>0, <1>1, MovedTurn
  <2>2. u # t
    BY <1>1, <1>4, <2>1 DEF Judging
  <2> QED
    BY <1>0, <1>1, <1>4, <2>1, <2>2 DEF JudgedOnce, Judging
<1> QED
  BY <1>2, <1>3, <1>4 DEF Applied, Proposal, Judging, Proposed

LEMMA ChangesNext ==
  ASSUME Base, Alone, Changes, Does
  PROVE  Changes'
<1>0. /\ \A x, y \in applied : x.change = y.change => x = y
      /\ \A x \in applied : Applied(x)
  BY DEF Changes
<1>1. Fresh' /\ JudgedOnce'
  BY FreshStays, JudgedStays
<1>2. ASSUME UNCHANGED applied
      PROVE  Changes'
  BY <1>0, <1>1, <1>2, AppliedStays DEF Changes
<1>3. ASSUME NEW t \in Turns, NEW j, AnswerDoes(t, j)
      PROVE  Changes'
  <2>1. CASE UNCHANGED applied
    BY <1>2, <2>1
  <2>2. CASE /\ applied' =
                  applied \cup {[turn |-> t, change |-> turn[t].change]}
             /\ proposals'[turn[t].conv] = NoEntry
    <3>1. PICK n : n = [turn |-> t, change |-> turn[t].change]
      OBVIOUS
    <3>2. applied' = applied \cup {n} /\ Applied(n)'
      BY <1>3, <2>2, <3>1, AppliedNow
    <3>3. \A x \in applied : x.change # n.change
      BY <1>0, <1>3, <3>1 DEF Applied, Judging, AnswerDoes
    <3>4. \A x, y \in applied' : x.change = y.change => x = y
      BY <1>0, <3>2, <3>3
    <3>5. \A x \in applied' : Applied(x)'
      BY <3>2, AppliedStays
    <3> QED
      BY <1>1, <3>4, <3>5 DEF Changes
  <2> QED
    BY <1>3, <2>1, <2>2 DEF AnswerDoes
<1> QED
  BY <1>2, <1>3
  DEF Does, ArriveDoes, SettleDoes, ConfirmDoes, AskAgainDoes, ExecuteDoes,
      HoldDoes, ReadDoes, ProposeDoes, EndDoes, RestartDoes, history

-----------------------------------------------------------------------------
(* The theorems about one turn at a time                                   *)

IInv == Base /\ (overlap = 1 => Questions /\ Changes)

LEMMA IInvInit ==
  ASSUME Init
  PROVE  IInv
<1>1. Base
  BY BaseInit
<1>2. /\ turn = [t \in Turns |-> NewTurn] /\ ran = {} /\ applied = {}
      /\ dropped = {} /\ approvals = EmptyStore /\ proposals = EmptyStore
  BY DEF Init
<1>3. \A t \in Turns : ~Deciding(t) /\ turn[t].at \notin Waiting /\ ~Judging(t)
  BY <1>2, NewTyped DEF Deciding, Judging, Waiting
<1>4. \A c \in Conversations : ~Open(c) /\ ~Proposal(c)
  BY <1>2 DEF EmptyStore, NoEntry, Open, Proposal
<1>5. Alone /\ AskedFirst /\ OwnQuestion /\ TakenOut /\ Gone
  <2>1. \A t \in Turns : turn[t].at \notin {"judge", "execute"}
    BY <1>3 DEF Waiting
  <2> QED
    BY <1>2, <1>3, <1>4, <2>1
    DEF Alone, AskedFirst, OwnQuestion, TakenOut, Gone
<1>6. Questions
  BY <1>2, <1>5 DEF Questions
<1>7. Changes
  BY <1>2, <1>3, <1>4 DEF Changes, Fresh, JudgedOnce
<1> QED
  BY <1>1, <1>6, <1>7 DEF IInv

LEMMA OverlapStays ==
  ASSUME Does
  PROVE  overlap' = overlap
  BY DEF Does, ArriveDoes, SettleDoes, ConfirmDoes, AskAgainDoes, ExecuteDoes,
         HoldDoes, ReadDoes, AnswerDoes, ProposeDoes, EndDoes, RestartDoes,
         Frame

LEMMA IInvNext ==
  ASSUME IInv, [Next]_vars
  PROVE  IInv'
<1>1. Base /\ Base' /\ Does /\ overlap' = overlap
  BY BaseNext, OverlapStays DEF IInv
<1>2. ASSUME overlap = 1
      PROVE  Questions' /\ Changes'
  <2>1. Questions /\ Changes /\ Alone
    BY <1>2 DEF IInv, Questions
  <2> QED
    BY <1>1, <1>2, <2>1, QuestionsNext, ChangesNext
<1> QED
  BY <1>1, <1>2 DEF IInv

LEMMA IInvAlways == Spec => []IInv
<1>1. Init => IInv
  BY IInvInit
<1>2. IInv /\ [Next]_vars => IInv'
  BY IInvNext
<1> QED
  BY <1>1, <1>2, PTL DEF Spec

\* Two calls of one asker that were sent were sent by one turn.
SentByOne ==
  overlap = 1 =>
    \A x, y \in ran : AskedIn(x.item) = AskedIn(y.item) => x.turn = y.turn

LEMMA SentByOneStays ==
  ASSUME IInv, SentByOne, [Next]_vars
  PROVE  SentByOne'
<1>1. Base /\ Does /\ overlap' = overlap
  BY BaseNext, OverlapStays DEF IInv
<1>2. ASSUME overlap = 1
      PROVE  \A x, y \in ran' :
               AskedIn(x.item) = AskedIn(y.item) => x.turn = y.turn
  <2>1. /\ \A x \in ran : Sent(x)
        /\ \A x, y \in ran :
             AskedIn(x.item) = AskedIn(y.item) => x.turn = y.turn
    BY <1>2 DEF IInv, Questions, SentByOne
  <2>2. ASSUME NEW t \in Turns, NEW call \in Calls, NEW j,
               ExecuteDoes(t, call, j)
        PROVE  \A x, y \in ran' :
                 AskedIn(x.item) = AskedIn(y.item) => x.turn = y.turn
    <3>1. PICK n : n = [turn |-> t, item |-> turn[t].item, call |-> call]
      OBVIOUS
    <3>2. n.turn = t /\ AskedIn(n.item) = Asker(t) /\ Deciding(t)
      BY <2>2, <3>1 DEF Asker, ExecuteDoes, Deciding
    <3>3. \A x \in ran : AskedIn(x.item) = AskedIn(n.item) => x.turn = n.turn
      BY <2>1, <3>2 DEF Sent
    <3>4. ran' \subseteq ran \cup {n}
      BY <2>2, <3>1 DEF ExecuteDoes
    <3> QED
      BY <2>1, <3>3, <3>4
  <2>3. CASE UNCHANGED ran
    BY <2>1, <2>3
  <2> QED
    BY <1>1, <2>2, <2>3
    DEF Does, ArriveDoes, SettleDoes, ConfirmDoes, AskAgainDoes, HoldDoes,
        ReadDoes, AnswerDoes, ProposeDoes, EndDoes, RestartDoes, history
<1> QED
  BY <1>1, <1>2 DEF SentByOne

\* With one turn at a time what a question asked for is done at most once:
\* pop takes a question out before it is carried out, so that no later turn
\* finds it, and touch puts it back only if it is not carried out.
THEOREM DoneOnceAlways == Spec => []DoneOnce
<1>1. Init => SentByOne
  BY DEF Init, SentByOne
<1>2. IInv /\ SentByOne /\ [Next]_vars => SentByOne'
  BY SentByOneStays
<1>3. IInv /\ SentByOne => DoneOnce
  BY DEF IInv, SentByOne, DoneOnce, Changes
<1> QED
  BY <1>1, <1>2, <1>3, IInvAlways, PTL DEF Spec

DropStep == overlap = 1 => \A x \in ran' \ ran : x.item \notin dropped

\* With one turn at a time a batch that was dropped is never executed: every
\* exit of handle_pending_approval that drops it, and every put over it, takes
\* it out of the store, and no turn holds it any more.
THEOREM DropsAreFinal == Spec => DropIsFinal
<1>1. ASSUME IInv, [Next]_vars
      PROVE  DropStep
  <2>1. Does
    BY <1>1, BaseNext DEF IInv
  <2>2. ASSUME NEW t \in Turns, NEW call \in Calls, NEW j,
               ExecuteDoes(t, call, j), overlap = 1
        PROVE  \A x \in ran' \ ran : x.item \notin dropped
    <3>1. turn[t].item \notin dropped
      BY <1>1, <2>2 DEF IInv, Questions, Gone, ExecuteDoes, Deciding
    <3>2. ran' \ ran \subseteq
            {[turn |-> t, item |-> turn[t].item, call |-> call]}
      BY <2>2 DEF ExecuteDoes
    <3> QED
      BY <3>1, <3>2
  <2>3. CASE UNCHANGED ran
    BY <2>3 DEF DropStep
  <2> QED
    BY <2>1, <2>2, <2>3
    DEF Does, ArriveDoes, SettleDoes, ConfirmDoes, AskAgainDoes, HoldDoes,
        ReadDoes, AnswerDoes, ProposeDoes, EndDoes, RestartDoes, history,
        DropStep
<1>2. [Next]_vars /\ IInv => DropStep
  BY <1>1
<1>3. DropIsFinal <=> [][DropStep]_vars
  BY DEF DropIsFinal, DropStep
<1> QED
  BY <1>2, <1>3, IInvAlways, PTL DEF Spec

AddUpStep ==
  overlap = 1 =>
    \A c \in Conversations :
      LET old == approvals[c].item
          new == approvals'[c].item
      IN approvals[c].kind = "active" /\ approvals'[c].kind = "active"
           /\ AskedIn(old) = AskedIn(new) /\ AskedIn(old) \notin Untraced
           /\ now - approvals[c].at <= ApprovalTtl
           => batch[old].calls \subseteq batch'[new].calls

\* The last agent's calls come on top of those its turn asked for before.
LEMMA MergesOpen ==
  ASSUME Base, NEW t \in Turns, NEW calls, NEW c \in Conversations,
         c = turn[t].conv, approvals[c].kind = "active",
         AskedIn(approvals[c].item) = t, t \notin Untraced,
         now - approvals[c].at <= ApprovalTtl
  PROVE  batch[approvals[c].item].calls \subseteq Merged(t, calls)
<1>1. approvals \in Store(Batches) /\ now \in Nat
  BY Limits DEF Base, TypeOK
<1>3. Entry(approvals, c, now, ApprovalTtl) = approvals[c]
  <2>1. approvals[c].at \in Nat /\ ApprovalTtl \in Nat /\ TombstoneTtl \in Nat
    BY <1>1, EntryAt, Limits
  <2>2. ~(now - approvals[c].at > ApprovalTtl)
        /\ ~(now - approvals[c].at > TombstoneTtl)
    BY <1>1, <2>1, Limits
  <2> QED
    BY <2>2 DEF Entry, Aged
<1> QED
  BY <1>3 DEF Merged, SameTrace

\* With one turn at a time no call that an agent held is lost while its
\* question is open: put merges, and touch puts back what it read (turns
\* that have a trace_id).
THEOREM HeldCallsAddUp == Spec => CallsAddUp
<1>1. ASSUME IInv, [Next]_vars
      PROVE  AddUpStep
  <2>1. Base /\ Does /\ \A u \in Turns : TurnShape(turn[u])
    BY <1>1, BaseNext DEF IInv, Base
  <2>2. ASSUME overlap = 1, NEW c \in Conversations,
               approvals[c].kind = "active", approvals'[c].kind = "active",
               AskedIn(approvals[c].item) = AskedIn(approvals'[c].item),
               AskedIn(approvals[c].item) \notin Untraced,
               now - approvals[c].at <= ApprovalTtl
        PROVE  batch[approvals[c].item].calls
                 \subseteq batch'[approvals'[c].item].calls
    <3>1. Open(c) /\ Open(c)'
      BY <2>2 DEF Open
    <3>2. approvals[c].item \in Batches /\ Put(approvals[c].item)
      BY <2>1, <3>1, BaseFacts
    <3>3. batch'[approvals[c].item].calls = batch[approvals[c].item].calls
      BY <2>1, <3>2, BatchStays DEF Base
    <3>4. CASE approvals'[c].item = approvals[c].item
      BY <3>3, <3>4
    <3>5. ASSUME NEW t \in Turns, AskAgainDoes(t), c = turn[t].conv,
                 approvals'[c].item = turn[t].item
          PROVE  approvals'[c].item = approvals[c].item
      BY <1>1, <2>2, <3>1, <3>5
      DEF IInv, Questions, OwnQuestion, AskAgainDoes
    <3>6. ASSUME NEW t \in Turns, NEW calls \in SUBSET Calls, NEW j, NEW m,
                 HoldDoes(t, calls, j, m), c = turn[t].conv,
                 approvals'[c].item = NextBatch(t)
          PROVE  batch[approvals[c].item].calls
                   \subseteq batch'[approvals'[c].item].calls
      <4>1. AskedIn(approvals[c].item) = t
        BY <2>1, <2>2, <3>6, HoldParts
      <4>2. batch[approvals[c].item].calls \subseteq Merged(t, calls)
        BY <2>1, <2>2, <3>6, <4>1, MergesOpen
      <4>3. batch'[NextBatch(t)].calls = Merged(t, calls)
        BY <2>1, <3>6 DEF HoldDoes, Base, TypeOK
      <4> QED
        BY <3>6, <4>2, <4>3
    <3> QED
      BY <2>1, <3>1, <3>4, <3>5, <3>6, WhatIsOpen
  <2> QED
    BY <2>2 DEF AddUpStep
<1>2. [Next]_vars /\ IInv => AddUpStep
  BY <1>1
<1>3. CallsAddUp <=> [][AddUpStep]_vars
  BY DEF CallsAddUp, AddUpStep
<1> QED
  BY <1>2, <1>3, IInvAlways, PTL DEF Spec

\* A question that may be put again has no rival, nor has an open one.
NoRival ==
  overlap = 1 =>
    /\ \A c \in Conversations :
         ~(approvals[c].kind = "active" /\ proposals[c].kind = "active")
    /\ \A t \in Turns :
         turn[t].at = "judge" /\ turn[t].kind = "active" =>
           proposals[turn[t].conv].kind # "active"

LEMMA NoRivalStays ==
  ASSUME IInv, NoRival, [Next]_vars
  PROVE  NoRival'
<1>0. Base /\ Does /\ overlap' = overlap
  BY BaseNext, OverlapStays DEF IInv
<1>1. ASSUME overlap = 1, NEW c \in Conversations,
             approvals'[c].kind = "active", proposals'[c].kind = "active"
      PROVE  FALSE
  <2>0. Open(c)' /\ Proposal(c)'
    BY <1>1 DEF Open, Proposal
  <2>1. ASSUME NEW t \in Turns, NEW j, ProposeDoes(t, j), c = turn[t].conv
        PROVE  FALSE
    BY <1>1, <2>1, NoEntryKind DEF ProposeDoes
  <2>2. proposals[c].kind = "active"
    BY <1>0, <1>1, <2>0, <2>1, WhatIsProposed
  <2>3. ASSUME NEW t \in Turns, AskAgainDoes(t), c = turn[t].conv
        PROVE  FALSE
    BY <1>1, <2>2, <2>3 DEF NoRival, AskAgainDoes
  <2>4. ASSUME NEW t \in Turns, NEW calls \in SUBSET Calls, NEW j, NEW m,
               HoldDoes(t, calls, j, m), c = turn[t].conv
        PROVE  FALSE
    BY <1>1, <2>4, NoEntryKind DEF HoldDoes
  <2>5. approvals[c].kind = "active"
    BY <1>0, <1>1, <2>0, <2>3, <2>4, WhatIsOpen
  <2> QED
    BY <1>1, <2>2, <2>5 DEF NoRival
<1>2. ASSUME overlap = 1, NEW u \in Turns, turn'[u].at = "judge",
             turn'[u].kind = "active", NEW c \in Conversations,
             c = turn'[u].conv, proposals'[c].kind = "active"
      PROVE  FALSE
  <2>0. Deciding(u)' /\ Proposal(c)' /\ TypeOK /\ Alone
    BY <1>0, <1>2 DEF Deciding, Proposal, Base, IInv, Questions
  <2>1. CASE /\ turn[u].at = "judge" /\ turn[u].kind = "active"
             /\ turn[u].conv = c
    <3>1. ASSUME NEW t \in Turns, NEW j, ProposeDoes(t, j), c = turn[t].conv
          PROVE  FALSE
      BY <2>0, <2>1, <3>1 DEF Alone, ProposeDoes, Stays, Waiting
    <3>2. proposals[c].kind = "active"
      BY <1>0, <1>2, <2>0, <3>1, WhatIsProposed
    <3> QED
      BY <1>2, <2>1, <3>2 DEF NoRival
  <2>2. ASSUME NEW d \in Conversations, NEW r \in Requesters, NEW j,
               ArriveDoes(u, d, r, j), Judges(j, d), turn'[u] = j
        PROVE  FALSE
    BY <1>2, <2>2 DEF ArriveDoes, Judges, NoRival
  <2> QED
    BY <1>0, <1>2, <2>0, <2>1, <2>2, WhoDecides
<1>3. \A u \in Turns : turn'[u].at = "judge" => turn'[u].conv \in Conversations
  <2>1. \A u \in Turns : TurnShape(turn'[u])
    BY <1>0, TypesStay DEF Base
  <2> QED
    BY <2>1 DEF TurnShape, Waiting
<1> QED
  BY <1>0, <1>1, <1>2, <1>3 DEF NoRival

\* With one turn at a time a conversation has one open question: each put pops
\* the other store, and touch puts back only what had no rival when it was
\* read.  The clients of approval_overlap do not wait, and there it fails.
THEOREM OneQuestionAtATime == Spec => [](overlap = 1 => OneOpenQuestion)
<1>1. Init => NoRival
  <2>1. ASSUME Init
        PROVE  /\ \A c \in Conversations : approvals[c].kind = "none"
               /\ \A t \in Turns : turn[t].at = "new"
    BY <2>1, NewTyped DEF Init, EmptyStore, NoEntry
  <2> QED
    BY <2>1 DEF NoRival
<1>2. IInv /\ NoRival /\ [Next]_vars => NoRival'
  BY NoRivalStays
<1>3. NoRival => (overlap = 1 => OneOpenQuestion)
  BY DEF NoRival, OneOpenQuestion
<1> QED
  BY <1>1, <1>2, <1>3, IInvAlways, PTL DEF Spec
=============================================================================
