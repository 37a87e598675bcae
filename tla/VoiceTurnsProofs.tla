-------------------------- MODULE VoiceTurnsProofs --------------------------
(***************************************************************************)
(* Proofs about VoiceTurns, for any number of utterances, profiles,        *)
(* enrollments, samples and replacements.                                  *)
(*                                                                         *)
(* The invariant has a part for each thing the properties speak of:        *)
(* Courses (sessions and recordings), Enrolled, Cached, Heard (the entry   *)
(* and who waits for it) and Spared (marked turns).  What a turn, a        *)
(* session and a commit do is said once, in TurnDoes, SessionDoes and      *)
(* CommitDoes.                                                             *)
(***************************************************************************)
EXTENDS VoiceTurns, TLAPS, FiniteSetTheorems

-----------------------------------------------------------------------------
(* The inductive invariants                                                *)

\* Where a session is, how it ended and where its analysis is go together.
Course(u) ==
  /\ ses[u] \in {"off", "open"} <=> how[u] = "none"
  /\ ses[u] = "confirm" \/ ses[u] = "commit" \/ Committing(u) => how[u] = "end"
  /\ ses[u] = "drop" => how[u] = "void"
  /\ ses[u] = "off" => proc[u] = "none"
  /\ ses[u] \in {"confirm", "drop"} => proc[u] # "none"
  /\ ses[u] \in {"commit", "over"} \/ Committing(u) => proc[u] = "done"
  /\ ses[u] = "commit" \/ Committing(u) => target[u] # NoProfile
  /\ u \in pending =>
       /\ proc[u] = "done" /\ target[u] # NoProfile
       /\ ses[u] \in {"open", "confirm", "drop"}

\* A sample of u was written.
Wrote(u) ==
  /\ how[u] = "end" /\ target[u] # NoProfile /\ proc[u] = "done"
  /\ ses[u] \in {"count", "review", "delete", "replace", "over"}

\* What there is of a recording of u.
Recorded(u) ==
  /\ store[u] # "none" => proc[u] = "done"
  /\ store[u] = "none" => drop[u] = "none" /\ u \notin files \cup records
  /\ ses[u] = "over" /\ how[u] = "void" /\ drop[u] = "none" => store[u] = "none"
  /\ drop[u] \in {"file", "done"} => store[u] = "done"
  /\ drop[u] = "file" => u \notin records
  /\ drop[u] = "done" => u \in undeleted \/ u \notin files \cup records

\* Every session is on its course, and a sample is of one that wrote it.
Courses ==
  /\ \A u \in Turns : Course(u) /\ Recorded(u)
  /\ \A u \in samples : Wrote(u)

\* One commit holds the lock.
OneCommit == \A u, v \in Turns : Committing(u) /\ Committing(v) => u = v

Reviewing(u) == ses[u] \in {"review", "delete", "replace"}

\* A sample was counted for p.
CountedFor(s, p) == Wrote(s) /\ ses[s] # "count" /\ target[s] = p

\* An enrollment counts its samples; it is short of some.
Tallied(a) ==
  /\ a \in Enrollments
  /\ a.profile = NoProfile => a = NotArmed
  /\ a.collected = Cardinality(a.ids) /\ a.collected <= a.asked
  /\ \A s \in a.ids : CountedFor(s, a.profile)
Short(a) == a # NotArmed => a.collected < a.asked

\* What a commit has to do: count its own sample, review what was counted for
\* its profile, and replace one of these.
ReviewOf(u) ==
  /\ Reviewing(u) =>
       /\ armed.replaced < MaxReplaced
       /\ armed.profile = target[u] \/ Short(armed)
       /\ \A o \in cands[u] : CountedFor(o, target[u])
  /\ ses[u] \in {"delete", "replace"} =>
       outlier[u] # 0 /\ CountedFor(outlier[u], target[u])
  /\ ses[u] = "count" => u \in samples \/ target[u] \notin profiles

\* A counted sample that is not in the table is being replaced.
Missing ==
  armed.profile \in profiles =>
    \A s \in armed.ids \ samples :
      \E u \in Turns : ses[u] = "replace" /\ outlier[u] = s

Enrolled ==
  /\ OneCommit /\ Tallied(armed) /\ Missing
  /\ (\A u \in Turns : ~Reviewing(u)) => Short(armed)
  /\ \A u \in Turns : ReviewOf(u)

\* A load that no invalidation overtook has read what the table holds.
Cached ==
  \/ /\ cache \in {NoCache, samples}
     /\ \A u \in fresh : proc[u] = "read" => rows[u] = samples
  \/ deleting # NoProfile
  \/ \E u \in Turns : ses[u] \in {"count", "replace"}

\* The entry is of the latest session that registered, or gone.
Entries ==
  /\ \A u \in Turns : u > cur => ses[u] = "off" /\ turn[u] = "none"
  /\ entry # 0 => ses[entry] # "off"
  /\ \A u \in Turns : ses[u] # "off" => entry = 0 \/ entry >= u
  /\ \A u \in Turns : result[u] # 0 => result[u] = u /\ ses[u] # "off"

\* An earlier turn that is not over was interrupted.
Overtaken == \A s \in Turns : s < cur /\ turn[s] # "over" => s \in interrupted

\* Who waits holds an entry of a session, and a turn that looked and finds its
\* own entry still there is the one that holds it.
Holding(t) ==
  /\ hold[t] # 0 <=> turn[t] \in {"wait", "reply"}
  /\ hold[t] # 0 => ses[hold[t]] # "off"
  /\ turn[t] # "over" => got[t] = 0 /\ t \notin carried
  /\ t \in looked =>
       /\ ses[t] # "off" /\ turn[t] \in {"wait", "reply", "over"}
       /\ entry = t => hold[t] = t

\* The turn t may have the result of s.
Hears(t, s) ==
  \/ s \in {0, t}
  \/ s < t /\ t \notin looked /\ (s \notin looked \/ s \in interrupted)
  \/ s > t /\ t \in interrupted

Heard ==
  /\ Entries /\ Overtaken
  /\ \A t \in Turns : Holding(t) /\ Hears(t, hold[t]) /\ Hears(t, got[t])

\* The entry of a marked session went before its turn came.
Missed(t) == how[t] \in {"void", "cut"} \/ t \in expired \cup taken

Spared ==
  \A t \in marked :
    /\ ses[t] # "off"
    /\ turn[t] = "none" /\ t = cur => entry = t \/ Missed(t)
    /\ t \in known /\ (turn[t] \in {"prelude", "config", "wait"}
                         \/ t \in carried) => Missed(t)
Known == \A t \in known : t \in marked /\ turn[t] # "none"

IInv ==
  /\ TypeOK /\ Courses /\ Enrolled /\ Cached
  /\ Heard /\ Spared /\ Known

-----------------------------------------------------------------------------
(* The steps by the part of the state they belong to                       *)

TurnStep(t) ==
  \/ Arrive(t) \/ ApprovalExit(t) \/ CacheReplay(t) \/ StartLookup(t)
  \/ ReadConfig(t) \/ ReadDisabled(t) \/ GiveUp(t) \/ Attach(t)
  \/ LookupTimeout(t) \/ Reply(t) \/ CancelTurn(t)

SessionStep(u) ==
  \/ Start(u) \/ AudioEnd(u) \/ NeedProfiles(u) \/ ReadProfiles(u)
  \/ BuildProfiles(u) \/ AnalysedSample(u) \/ AnalysedRecorded(u)
  \/ AnalysedOnly(u) \/ End(u) \/ Confirm(u) \/ Abort(u) \/ Lose(u)
  \/ LoseAfterAudio(u) \/ Unconfirmed(u) \/ Cut(u)

CommitStep(u) ==
  \/ Commit(u) \/ AddSample(u) \/ AddFails(u) \/ CountSample(u)
  \/ FindOutlier(u) \/ NoOutlier(u) \/ DeleteOutlier(u) \/ ReplaceSample(u)

AdminStep ==
  \/ \E p \in Profiles : RequestArm(p) \/ DeleteProfile(p)
  \/ \E n \in 1..MaxTarget : Arm(n)
  \/ Disarm \/ FinishDelete

RecordStep(u) ==
  \/ StoreFile(u) \/ StoreSkips(u) \/ StoreRow(u) \/ StoreRowFails(u)
  \/ StoreUndo(u) \/ DropRow(u) \/ DropFile(u) \/ DropFails(u)

LEMMA NextSteps ==
  ASSUME Next
  PROVE  \/ Speak \/ Purge \/ AdminStep
         \/ \E u \in Turns :
              TurnStep(u) \/ SessionStep(u) \/ CommitStep(u) \/ RecordStep(u)
  BY DEF Next, TurnStep, SessionStep, CommitStep, AdminStep, RecordStep

LEMMA TurnFrame ==
  ASSUME NEW t \in Turns, TurnStep(t)
  PROVE  UNCHANGED <<result, sesVars, armVars, rowVars, cacheVars, recVars,
                     pace>>
  BY DEF TurnStep, Arrive, ApprovalExit, CacheReplay, StartLookup, ReadConfig,
     ReadDisabled, GiveUp, Attach, LookupTimeout, Reply, CancelTurn, StoreOnly,
     PopEnds, storeVars

LEMMA SessionFrame ==
  ASSUME NEW u \in Turns, SessionStep(u)
  PROVE  UNCHANGED <<turnVars, armVars, rowVars, pace>>
  BY DEF SessionStep, Start, AudioEnd, NeedProfiles, ReadProfiles,
     BuildProfiles, AnalysedSample, AnalysedRecorded, AnalysedOnly, End,
     Confirm, Abort, Lose, LoseAfterAudio, Unconfirmed, Cut, Discard,
     Analysed, SessionOnly

LEMMA CommitFrame ==
  ASSUME NEW u \in Turns, CommitStep(u)
  PROVE  UNCHANGED <<storeVars, turnVars, how, proc, marked, target, pending,
                     arming, arms, profiles, deleting, recVars, pace>>
  BY DEF CommitStep, Commit, AddSample, AddFails, CountSample, FindOutlier,
     NoOutlier, DeleteOutlier, ReplaceSample, EnrollOnly

LEMMA AdminFrame ==
  ASSUME AdminStep
  PROVE  UNCHANGED <<storeVars, turnVars, sesVars, cands, outlier, recVars,
                     pace>>
  BY DEF AdminStep, RequestArm, DeleteProfile, Arm, Disarm, FinishDelete,
     AdminOnly

LEMMA RecordFrame ==
  ASSUME NEW u \in Turns, RecordStep(u)
  PROVE  UNCHANGED <<storeVars, turnVars, sesVars, armVars, rowVars, cacheVars,
                     pace>>
  BY DEF RecordStep, StoreFile, StoreSkips, StoreRow, StoreRowFails, StoreUndo,
     DropRow, DropFile, DropFails, RecordOnly

LEMMA PaceFrame ==
  ASSUME Speak \/ Purge
  PROVE  UNCHANGED <<result, turnVars, sesVars, armVars, rowVars, cacheVars,
                     recVars>>
  BY DEF Speak, Purge, storeVars
-----------------------------------------------------------------------------
(* What a step of a conversation turn does                                 *)

LEMMA Numbers ==
  /\ LastTurn \in Nat /\ MaxTarget \in Nat /\ MaxReplaced \in Nat
  /\ MaxArms \in Nat /\ NoProfile \notin Profiles
  /\ Turns \subseteq Utterance /\ 0 \in Utterance /\ Utterance \subseteq Nat
  /\ 0 \notin Turns /\ (\A u \in Utterance : u # 0 => u \in Turns)
  /\ NotArmed \in Enrollments /\ NotArmed.profile = NoProfile
  /\ NotArmed.asked = 0 /\ NotArmed.collected = 0 /\ NotArmed.ids = {}
  /\ NotArmed.replaced = 0
  BY VoiceAssumption DEF VoiceAssumption, Turns, Utterance, NotArmed,
     Enrollments, Profile

\* The turn goes to pc, waits for the entry h and has heard g.
Goes(t, pc, h, g) ==
  /\ turn[t] # "over" /\ (turn[t] = "none" => t = cur)
  /\ turn' = [turn EXCEPT ![t] = pc]
  /\ hold' = [hold EXCEPT ![t] = h]
  /\ got' = [got EXCEPT ![t] = g]

\* It may look, take the entry, or be carried out.
Touches(t) ==
  /\ looked' \in {looked, looked \cup {t}}
  /\ t \in looked' \ looked =>
       ses[t] # "off" /\ turn[t] \in {"none", "prelude", "config"}
  /\ entry' \in {entry, 0}
  /\ taken \subseteq taken' /\ taken' \subseteq taken \cup ({entry} \cap marked)
  /\ entry' # entry => ({entry} \cap marked) \ {t} \subseteq taken'
  /\ turn[t] = "none" => known' = known \cup ({t} \cap marked)
  /\ turn[t] # "none" => known' = known
  /\ carried' \in {carried, carried \cup {t}}
  /\ released' \in SUBSET Turns

MovesOn(t) ==
  \E pc \in {"prelude", "config"} :
    /\ Goes(t, pc, hold[t], got[t])
    /\ looked' = looked /\ entry' = entry /\ carried' = carried
    /\ turn[t] \in {"none", "prelude"}
    /\ turn[t] = "none" => ~IsEnrollmentTurn

Waits(t) ==
  \E pc \in {"wait", "reply"} :
    /\ Goes(t, pc, entry, got[t])
    /\ entry # 0 /\ entry' = entry /\ carried' = carried
    /\ turn[t] \in {"none", "config"}
    /\ pc = "wait" => turn[t] = "config"

Leaves(t) ==
  \E g \in {got[t], result[hold[t]], result[entry]} :
    /\ Goes(t, "over", 0, g)
    /\ g = got[t] \/ (g = result[hold[t]] /\ hold[t] # 0)
         \/ (g = result[entry] /\ entry # 0)
    /\ looked' = looked \/ entry' = 0
    /\ turn[t] \in {"wait", "reply"} => entry' # hold[t] \/ entry' = 0
    /\ carried' # carried => turn[t] \in {"prelude", "config", "wait"}

TurnDoes(t) == Touches(t) /\ (MovesOn(t) \/ Waits(t) \/ Leaves(t))

LEMMA Unmoved ==
  ASSUME TalkTypes, NEW t \in Turns
  PROVE  /\ hold = [hold EXCEPT ![t] = hold[t]]
         /\ got = [got EXCEPT ![t] = got[t]]
  BY DEF TalkTypes

LEMMA ReleaseKeeps ==
  ASSUME TalkTypes, NEW e \in Utterance, Release(e)
  PROVE  released' \in SUBSET Turns
  BY Numbers DEF Release, TalkTypes

LEMMA DiscardedKeeps ==
  ASSUME TalkTypes, NEW token \in Utterance, Discarded(token)
  PROVE  /\ released' \in SUBSET Turns
         /\ entry' = IF token \in {0, entry} THEN 0 ELSE entry
  BY ReleaseKeeps DEF Discarded, TalkTypes

LEMMA ArriveDoes ==
  ASSUME TalkTypes, Heard, NEW t \in Turns, Arrive(t)
  PROVE  TurnDoes(t)
<1>0. Holding(t)
  BY DEF Heard
<1>1. /\ turn[t] = "none" /\ t = cur /\ hold[t] = 0
      /\ known' = known \cup ({t} \cap marked) /\ result' = result
  BY <1>0 DEF Arrive, Holding
<1>2. CASE IsEnrollmentTurn /\ PopsAtOnce(t, FALSE)
  <2>1. Looks(t)
    BY <1>2 DEF Arrive
  <2>2. Goes(t, "over", 0, result[entry])
    BY <1>1, <1>2 DEF PopsAtOnce, Leave, Goes
  <2>3. Leaves(t)
    BY <1>1, <1>2, <2>2 DEF PopsAtOnce, Leave, Leaves
  <2>4. Touches(t)
    BY <1>1, <1>2, <2>1 DEF PopsAtOnce, Leave, Looks, TakenBy, Touches,
       TalkTypes
  <2> QED
    BY <2>3, <2>4 DEF TurnDoes
<1>3. CASE IsEnrollmentTurn /\ PopWaits(t, "reply")
  <2>1. Looks(t)
    BY <1>3 DEF Arrive
  <2>2. Goes(t, "reply", entry, got[t])
    BY <1>1, <1>3, Unmoved DEF PopWaits, Goes
  <2>3. Waits(t)
    BY <1>1, <1>3, <2>2 DEF PopWaits, Waits
  <2>4. Touches(t)
    BY <1>1, <1>3, <2>1 DEF PopWaits, Looks, Touches, TalkTypes
  <2> QED
    BY <2>3, <2>4 DEF TurnDoes
<1>4. CASE ~IsEnrollmentTurn
  <2>1. Goes(t, "prelude", hold[t], got[t])
    BY <1>1, <1>4, Unmoved DEF Arrive, Goes
  <2>2. MovesOn(t)
    BY <1>1, <1>4, <2>1 DEF Arrive, MovesOn
  <2>3. Touches(t)
    BY <1>1, <1>4 DEF Arrive, Touches, TalkTypes
  <2> QED
    BY <2>2, <2>3 DEF TurnDoes
<1> QED
  BY <1>2, <1>3, <1>4 DEF Arrive

\* The turn is over without a result.
LEMMA LeavesWithout ==
  ASSUME TalkTypes, Heard, NEW t \in Turns, NEW ran \in BOOLEAN,
         Leave(t, ran), got' = got,
         turn[t] \notin {"none", "over"},
         looked' = looked \/ entry' = 0,
         turn[t] \in {"wait", "reply"} => entry' # hold[t] \/ entry' = 0,
         ran => turn[t] \in {"prelude", "config", "wait"}
  PROVE  Leaves(t)
<1>1. Goes(t, "over", 0, got[t])
  BY Unmoved DEF Leave, Goes
<1> QED
  BY <1>1 DEF Leaves, Leave

LEMMA ApprovalExitDoes ==
  ASSUME TalkTypes, Heard, NEW t \in Turns, ApprovalExit(t) \/ GiveUp(t)
  PROVE  TurnDoes(t)
<1>1. /\ turn[t] \in {"prelude", "config"} /\ Leave(t, TRUE)
      /\ UNCHANGED <<entry, released, got, known, looked, taken>>
  BY DEF ApprovalExit, GiveUp, storeVars
<1>2. Leaves(t)
  BY <1>1, LeavesWithout
<1>3. Touches(t)
  BY <1>1 DEF Touches, Leave, TalkTypes
<1> QED
  BY <1>2, <1>3 DEF TurnDoes

LEMMA DiscardsDoes ==
  ASSUME TalkTypes, Heard, NEW t \in Turns, CacheReplay(t) \/ ReadDisabled(t)
  PROVE  TurnDoes(t)
<1>1. /\ turn[t] \in {"prelude", "config"} /\ Leave(t, TRUE)
      /\ UNCHANGED <<got, known>> /\ Looks(t) /\ Discarded(0)
      /\ TakenBy(t, entry)
  BY DEF CacheReplay, ReadDisabled
<1>2. entry' = 0 /\ released' \in SUBSET Turns
  BY <1>1, DiscardedKeeps, Numbers
<1>3. Leaves(t)
  BY <1>1, <1>2, LeavesWithout
<1>4. Touches(t)
  BY <1>1, <1>2 DEF Touches, Leave, Looks, TakenBy, TalkTypes
<1> QED
  BY <1>3, <1>4 DEF TurnDoes

LEMMA StartLookupDoes ==
  ASSUME TalkTypes, Heard, NEW t \in Turns, StartLookup(t)
  PROVE  TurnDoes(t)
<1>1. /\ turn[t] = "prelude"
      /\ UNCHANGED <<entry, released, got, known, looked, taken>>
  BY DEF StartLookup, storeVars
<1>2. CASE entry # 0
  <2>1. Goes(t, "config", hold[t], got[t]) /\ carried' = carried
    BY <1>1, <1>2, Unmoved DEF StartLookup, Goes
  <2>2. MovesOn(t)
    BY <1>1, <2>1 DEF MovesOn
  <2>3. Touches(t)
    BY <1>1, <2>1 DEF Touches, TalkTypes
  <2> QED
    BY <2>2, <2>3 DEF TurnDoes
<1>3. CASE entry = 0
  <2>1. Leave(t, TRUE)
    BY <1>3 DEF StartLookup
  <2>2. Leaves(t)
    BY <1>1, <2>1, LeavesWithout
  <2>3. Touches(t)
    BY <1>1, <2>1 DEF Touches, Leave, TalkTypes
  <2> QED
    BY <2>2, <2>3 DEF TurnDoes
<1> QED
  BY <1>2, <1>3

LEMMA ReadConfigDoes ==
  ASSUME TalkTypes, Heard, NEW t \in Turns, ReadConfig(t)
  PROVE  TurnDoes(t)
<1>1. /\ turn[t] = "config" /\ Looks(t) /\ known' = known
  BY DEF ReadConfig
<1>2. CASE PopsAtOnce(t, TRUE)
  <2>1. Goes(t, "over", 0, result[entry])
    BY <1>1, <1>2 DEF PopsAtOnce, Leave, Goes
  <2>2. Leaves(t)
    BY <1>1, <1>2, <2>1 DEF PopsAtOnce, Leave, Leaves
  <2>3. Touches(t)
    BY <1>1, <1>2 DEF PopsAtOnce, Leave, Looks, TakenBy, Touches, TalkTypes
  <2> QED
    BY <2>2, <2>3 DEF TurnDoes
<1>3. CASE PopWaits(t, "wait")
  <2>1. Goes(t, "wait", entry, got[t])
    BY <1>1, <1>3, Unmoved DEF PopWaits, Goes
  <2>2. Waits(t)
    BY <1>1, <1>3, <2>1 DEF PopWaits, Waits
  <2>3. Touches(t)
    BY <1>1, <1>3 DEF PopWaits, Looks, Touches, TalkTypes
  <2> QED
    BY <2>2, <2>3 DEF TurnDoes
<1>4. CASE /\ entry = 0 /\ Leave(t, TRUE)
           /\ UNCHANGED <<entry, released, got, taken>>
  <2>1. Leaves(t)
    BY <1>1, <1>4, LeavesWithout
  <2>2. Touches(t)
    BY <1>1, <1>4 DEF Touches, Leave, Looks, TalkTypes
  <2> QED
    BY <2>1, <2>2 DEF TurnDoes
<1> QED
  BY <1>2, <1>3, <1>4 DEF ReadConfig

LEMMA PopEndsTouches ==
  ASSUME TalkTypes, SessionTypes, Heard, NEW t \in Turns, NEW ran \in BOOLEAN,
         turn[t] \in {"wait", "reply"}, PopEnds(t), Leave(t, ran)
  PROVE  Touches(t) /\ hold[t] # 0 /\ (entry' # hold[t] \/ entry' = 0)
<1>1. hold[t] # 0
  BY DEF Heard, Holding
<1>2. entry' = IF entry = hold[t] THEN 0 ELSE entry
  BY DEF PopEnds
<1>3. CASE entry = hold[t]
  <2>1. taken' = taken \cup (({entry} \cap marked) \ {t})
    BY <1>3 DEF PopEnds, TakenBy
  <2> QED
    BY <1>1, <1>2, <1>3, <2>1 DEF PopEnds, Leave, Touches, TalkTypes
<1>4. CASE entry # hold[t]
  <2>1. 0 \notin marked
    BY Numbers DEF SessionTypes
  <2>2. taken' = taken
    BY <1>4, <2>1 DEF PopEnds, TakenBy
  <2> QED
    BY <1>1, <1>2, <1>4, <2>2 DEF PopEnds, Leave, Touches, TalkTypes
<1> QED
  BY <1>3, <1>4

LEMMA HeardDoes ==
  ASSUME TalkTypes, SessionTypes, Heard, NEW t \in Turns, Attach(t) \/ Reply(t)
  PROVE  TurnDoes(t)
<1>1. /\ turn[t] \in {"wait", "reply"} /\ PopEnds(t)
      /\ got' = [got EXCEPT ![t] = result[hold[t]]]
      /\ \/ turn[t] = "wait" /\ Leave(t, TRUE)
         \/ turn[t] = "reply" /\ Leave(t, FALSE)
  BY DEF Attach, Reply
<1>2. Touches(t) /\ hold[t] # 0 /\ (entry' # hold[t] \/ entry' = 0)
  BY <1>1, PopEndsTouches
<1>3. Goes(t, "over", 0, result[hold[t]])
  BY <1>1 DEF Goes, Leave
<1>4. looked' = looked
  BY <1>1 DEF PopEnds
<1>5. Leaves(t)
  BY <1>1, <1>2, <1>3, <1>4 DEF Leaves, Leave
<1> QED
  BY <1>2, <1>5 DEF TurnDoes

LEMMA UnheardDoes ==
  ASSUME TalkTypes, SessionTypes, Heard, NEW t \in Turns,
         LookupTimeout(t) \/ CancelTurn(t)
  PROVE  TurnDoes(t)
<1>1. got' = got
  BY DEF LookupTimeout, CancelTurn
<1>2. CASE turn[t] \in {"wait", "reply"}
  <2>1. /\ PopEnds(t)
        /\ (turn[t] = "wait" /\ Leave(t, TRUE)) \/ Leave(t, FALSE)
    BY <1>2 DEF LookupTimeout, CancelTurn
  <2>2. Touches(t) /\ (entry' # hold[t] \/ entry' = 0)
    BY <1>2, <2>1, PopEndsTouches
  <2>3. looked' = looked
    BY <2>1 DEF PopEnds
  <2>4. Leaves(t)
    BY <1>1, <1>2, <2>1, <2>2, <2>3, LeavesWithout
  <2> QED
    BY <2>2, <2>4 DEF TurnDoes
<1>3. CASE turn[t] \notin {"wait", "reply"}
  <2>1. /\ turn[t] \in {"prelude", "config"} /\ Leave(t, FALSE)
        /\ UNCHANGED <<entry, released, known, looked, taken>>
    BY <1>3 DEF LookupTimeout, CancelTurn, storeVars
  <2>2. Leaves(t)
    BY <1>1, <2>1, LeavesWithout
  <2>3. Touches(t)
    BY <2>1 DEF Touches, Leave, TalkTypes
  <2> QED
    BY <2>2, <2>3 DEF TurnDoes
<1> QED
  BY <1>2, <1>3

LEMMA TurnStepDoes ==
  ASSUME TalkTypes, SessionTypes, Heard, NEW t \in Turns, TurnStep(t)
  PROVE  /\ TurnDoes(t)
         /\ UNCHANGED <<result, sesVars, armVars, rowVars, cacheVars, recVars,
                        pace>>
  BY ArriveDoes, ApprovalExitDoes, DiscardsDoes, StartLookupDoes,
     ReadConfigDoes, HeardDoes, UnheardDoes, TurnFrame DEF TurnStep
-----------------------------------------------------------------------------
(* What a step of a voice session does                                     *)

\* Of the sessions only u changes; it has not come to its end.
Alone(u) ==
  /\ \A v \in Turns \ {u} :
       /\ ses'[v] = ses[v] /\ how'[v] = how[v] /\ proc'[v] = proc[v]
       /\ target'[v] = target[v] /\ store'[v] = store[v] /\ drop'[v] = drop[v]
       /\ v \in pending' <=> v \in pending
  /\ ses[u] \in {"off", "open", "confirm", "drop"}
  /\ ses'[u] \in {"open", "confirm", "drop", "commit", "over"}
  /\ UNCHANGED <<files, records, undeleted>>

\* What it says to the store.
Tells(u) ==
  \/ /\ ses[u] = "off" /\ u = cur /\ entry' = u /\ result' = result
     /\ marked' \in {marked, marked \cup {u}}
  \/ /\ ses[u] # "off" /\ marked' = marked
     /\ entry' = entry \/ (entry = u /\ entry' = 0 /\ how'[u] = "void")
     /\ result' = result \/ (entry = u /\ result' = [result EXCEPT ![u] = u])

\* How it uses the cache.
Uses(u) ==
  /\ u \in fresh' /\ proc'[u] = "read" =>
       rows'[u] = samples \/ (u \in fresh /\ proc[u] = "read"
                                /\ rows'[u] = rows[u])
  /\ \A v \in Turns \ {u} : rows'[v] = rows[v] /\ (v \in fresh' => v \in fresh)
  /\ cache' = cache \/ (u \in fresh /\ proc[u] = "read" /\ cache' = rows[u])

SessionDoes(u) ==
  /\ SessionTypes' /\ CacheTypes' /\ RecordTypes'
  /\ entry' \in Utterance /\ released' \in SUBSET Turns
  /\ result' \in [Turns -> Utterance]
  /\ Alone(u) /\ Course(u)' /\ Recorded(u)' /\ Tells(u) /\ Uses(u)
  /\ how[u] \in {"void", "cut"} => how'[u] \in {"void", "cut"}

LEMMA StartDoes ==
  ASSUME TypeOK, Courses, NEW u \in Turns, Start(u)
  PROVE  SessionDoes(u)
<1>0. Course(u) /\ Recorded(u)
  BY DEF Courses
<1>1. SessionTypes' /\ CacheTypes' /\ RecordTypes'
  BY Numbers DEF Start, Register, Release, SessionOnly, storeVars, sesVars,
     cacheVars, recVars, TypeOK, SessionTypes, CacheTypes, RecordTypes,
     EnrollmentTypes, Enrollments, Profile
<1>2. /\ entry' \in Utterance /\ released' \in SUBSET Turns
      /\ result' \in [Turns -> Utterance]
  BY Numbers, ReleaseKeeps DEF Start, Register, SessionOnly, storeVars,
     TypeOK, TalkTypes
<1>3. Alone(u)
  BY <1>0 DEF Start, Register, SessionOnly, storeVars, sesVars, cacheVars,
     recVars, TypeOK, SessionTypes, CacheTypes, RecordTypes, Alone, Course,
     Committing
<1>4. Course(u)'
  BY <1>0 DEF Start, Register, SessionOnly, storeVars, sesVars, cacheVars,
     recVars, TypeOK, SessionTypes, CacheTypes, RecordTypes, Course,
     Committing
<1>5. Recorded(u)'
  BY <1>0 DEF Start, Register, SessionOnly, storeVars, sesVars, cacheVars,
     recVars, TypeOK, SessionTypes, CacheTypes, RecordTypes, Course, Recorded
<1>6. Tells(u)
  BY <1>0, Numbers DEF Start, Register, SessionOnly, storeVars, sesVars,
     TypeOK, SessionTypes, TalkTypes, Course, Tells
<1>7. Uses(u)
  BY <1>0 DEF Start, Register, SessionOnly, cacheVars, TypeOK, SessionTypes,
     CacheTypes, RecordTypes, Uses
<1>8. how[u] \in {"void", "cut"} => how'[u] \in {"void", "cut"}
  BY <1>0 DEF Start, Register, SessionOnly, sesVars, TypeOK, SessionTypes,
     CacheTypes, RecordTypes, Course
<1> QED
  BY <1>1, <1>2, <1>3, <1>4, <1>5, <1>6, <1>7, <1>8 DEF SessionDoes

LEMMA AudioEndDoes ==
  ASSUME TypeOK, Courses, NEW u \in Turns, AudioEnd(u)
  PROVE  SessionDoes(u)
<1>0. Course(u) /\ Recorded(u)
  BY DEF Courses
<1>1. SessionTypes' /\ CacheTypes' /\ RecordTypes'
  BY Numbers DEF AudioEnd, StartProcessing, SessionOnly, storeVars, sesVars,
     cacheVars, recVars, TypeOK, SessionTypes, CacheTypes, RecordTypes,
     EnrollmentTypes, Enrollments, Profile
<1>2. /\ entry' \in Utterance /\ released' \in SUBSET Turns
      /\ result' \in [Turns -> Utterance]
  BY Numbers DEF AudioEnd, StartProcessing, SessionOnly, storeVars, TypeOK,
     TalkTypes
<1>3. Alone(u)
  BY <1>0 DEF AudioEnd, StartProcessing, SessionOnly, storeVars, sesVars,
     cacheVars, recVars, TypeOK, SessionTypes, CacheTypes, RecordTypes, Alone,
     Course, Committing
<1>4. Course(u)'
  BY <1>0 DEF AudioEnd, StartProcessing, SessionOnly, storeVars, sesVars,
     cacheVars, recVars, TypeOK, SessionTypes, CacheTypes, RecordTypes,
     Course, Committing
<1>5. Recorded(u)'
  BY <1>0 DEF AudioEnd, StartProcessing, SessionOnly, storeVars, sesVars,
     cacheVars, recVars, TypeOK, SessionTypes, CacheTypes, RecordTypes,
     Course, Recorded
<1>6. Tells(u)
  BY <1>0, Numbers DEF AudioEnd, StartProcessing, SessionOnly, storeVars,
     sesVars, TypeOK, SessionTypes, TalkTypes, Course, Tells
<1>7. Uses(u)
  BY <1>0 DEF AudioEnd, StartProcessing, SessionOnly, cacheVars, TypeOK,
     SessionTypes, CacheTypes, RecordTypes, Uses
<1>8. how[u] \in {"void", "cut"} => how'[u] \in {"void", "cut"}
  BY <1>0 DEF AudioEnd, StartProcessing, SessionOnly, sesVars, TypeOK,
     SessionTypes, CacheTypes, RecordTypes, Course
<1> QED
  BY <1>1, <1>2, <1>3, <1>4, <1>5, <1>6, <1>7, <1>8 DEF SessionDoes

LEMMA NeedProfilesDoes ==
  ASSUME TypeOK, Courses, NEW u \in Turns, NeedProfiles(u)
  PROVE  SessionDoes(u)
<1>0. Course(u) /\ Recorded(u)
  BY DEF Courses
<1>1. SessionTypes' /\ CacheTypes' /\ RecordTypes'
  <2>1. SessionTypes'
    BY DEF NeedProfiles, SessionOnly, storeVars, sesVars, cacheVars, recVars,
       TypeOK, SessionTypes
  <2>2. CacheTypes'
    BY DEF NeedProfiles, SessionOnly, storeVars, sesVars, cacheVars, recVars,
       TypeOK, CacheTypes
  <2>3. RecordTypes'
    BY DEF NeedProfiles, SessionOnly, storeVars, sesVars, cacheVars, recVars,
       TypeOK, RecordTypes
  <2> QED
    BY <2>1, <2>2, <2>3
<1>2. /\ entry' \in Utterance /\ released' \in SUBSET Turns
      /\ result' \in [Turns -> Utterance]
  BY Numbers DEF NeedProfiles, SessionOnly, storeVars, TypeOK, TalkTypes
<1>3. Alone(u)
  BY <1>0 DEF NeedProfiles, SessionOnly, storeVars, sesVars, cacheVars,
     recVars, TypeOK, SessionTypes, CacheTypes, RecordTypes, Alone, Course,
     Committing
<1>4. Course(u)'
  BY <1>0 DEF NeedProfiles, SessionOnly, storeVars, sesVars, cacheVars,
     recVars, TypeOK, SessionTypes, CacheTypes, RecordTypes, Course,
     Committing
<1>5. Recorded(u)'
  BY <1>0 DEF NeedProfiles, SessionOnly, storeVars, sesVars, cacheVars,
     recVars, TypeOK, SessionTypes, CacheTypes, RecordTypes, Course, Recorded
<1>6. Tells(u)
  BY <1>0, Numbers DEF NeedProfiles, SessionOnly, storeVars, sesVars, TypeOK,
     SessionTypes, TalkTypes, Course, Tells
<1>7. Uses(u)
  BY <1>0 DEF NeedProfiles, SessionOnly, cacheVars, TypeOK, SessionTypes,
     CacheTypes, RecordTypes, Uses
<1>8. how[u] \in {"void", "cut"} => how'[u] \in {"void", "cut"}
  BY <1>0 DEF NeedProfiles, SessionOnly, sesVars, TypeOK, SessionTypes,
     CacheTypes, RecordTypes, Course
<1> QED
  BY <1>1, <1>2, <1>3, <1>4, <1>5, <1>6, <1>7, <1>8 DEF SessionDoes

LEMMA ReadProfilesDoes ==
  ASSUME TypeOK, Courses, NEW u \in Turns, ReadProfiles(u)
  PROVE  SessionDoes(u)
<1>0. Course(u) /\ Recorded(u)
  BY DEF Courses
<1>1. SessionTypes' /\ CacheTypes' /\ RecordTypes'
  BY Numbers DEF ReadProfiles, SessionOnly, storeVars, sesVars, cacheVars,
     recVars, TypeOK, SessionTypes, CacheTypes, RecordTypes, EnrollmentTypes,
     Enrollments, Profile
<1>2. /\ entry' \in Utterance /\ released' \in SUBSET Turns
      /\ result' \in [Turns -> Utterance]
  BY Numbers DEF ReadProfiles, SessionOnly, storeVars, TypeOK, TalkTypes
<1>3. Alone(u)
  BY <1>0 DEF ReadProfiles, SessionOnly, storeVars, sesVars, cacheVars,
     recVars, TypeOK, SessionTypes, CacheTypes, RecordTypes, Alone, Course,
     Committing
<1>4. Course(u)'
  BY <1>0 DEF ReadProfiles, SessionOnly, storeVars, sesVars, cacheVars,
     recVars, TypeOK, SessionTypes, CacheTypes, RecordTypes, Course,
     Committing
<1>5. Recorded(u)'
  BY <1>0 DEF ReadProfiles, SessionOnly, storeVars, sesVars, cacheVars,
     recVars, TypeOK, SessionTypes, CacheTypes, RecordTypes, Course, Recorded
<1>6. Tells(u)
  BY <1>0, Numbers DEF ReadProfiles, SessionOnly, storeVars, sesVars, TypeOK,
     SessionTypes, TalkTypes, Course, Tells
<1>7. Uses(u)
  BY <1>0 DEF ReadProfiles, SessionOnly, cacheVars, TypeOK, SessionTypes,
     CacheTypes, RecordTypes, Uses
<1>8. how[u] \in {"void", "cut"} => how'[u] \in {"void", "cut"}
  BY <1>0 DEF ReadProfiles, SessionOnly, sesVars, TypeOK, SessionTypes,
     CacheTypes, RecordTypes, Course
<1> QED
  BY <1>1, <1>2, <1>3, <1>4, <1>5, <1>6, <1>7, <1>8 DEF SessionDoes

LEMMA BuildProfilesDoes ==
  ASSUME TypeOK, Courses, NEW u \in Turns, BuildProfiles(u)
  PROVE  SessionDoes(u)
<1>0. Course(u) /\ Recorded(u)
  BY DEF Courses
<1>1. SessionTypes' /\ CacheTypes' /\ RecordTypes'
  BY Numbers DEF BuildProfiles, Installed, SessionOnly, storeVars, sesVars,
     cacheVars, recVars, TypeOK, SessionTypes, CacheTypes, RecordTypes,
     EnrollmentTypes, Enrollments, Profile
<1>2. /\ entry' \in Utterance /\ released' \in SUBSET Turns
      /\ result' \in [Turns -> Utterance]
  BY Numbers DEF BuildProfiles, Installed, SessionOnly, storeVars, TypeOK,
     TalkTypes
<1>3. Alone(u)
  BY <1>0 DEF BuildProfiles, Installed, SessionOnly, storeVars, sesVars,
     cacheVars, recVars, TypeOK, SessionTypes, CacheTypes, RecordTypes, Alone,
     Course, Committing
<1>4. Course(u)'
  BY <1>0 DEF BuildProfiles, Installed, SessionOnly, storeVars, sesVars,
     cacheVars, recVars, TypeOK, SessionTypes, CacheTypes, RecordTypes,
     Course, Committing
<1>5. Recorded(u)'
  BY <1>0 DEF BuildProfiles, Installed, SessionOnly, storeVars, sesVars,
     cacheVars, recVars, TypeOK, SessionTypes, CacheTypes, RecordTypes,
     Course, Recorded
<1>6. Tells(u)
  BY <1>0, Numbers DEF BuildProfiles, Installed, SessionOnly, storeVars,
     sesVars, TypeOK, SessionTypes, TalkTypes, Course, Tells
<1>7. Uses(u)
  BY <1>0 DEF BuildProfiles, Installed, SessionOnly, cacheVars, TypeOK,
     SessionTypes, CacheTypes, RecordTypes, Uses
<1>8. how[u] \in {"void", "cut"} => how'[u] \in {"void", "cut"}
  BY <1>0 DEF BuildProfiles, Installed, SessionOnly, sesVars, TypeOK,
     SessionTypes, CacheTypes, RecordTypes, Course
<1> QED
  BY <1>1, <1>2, <1>3, <1>4, <1>5, <1>6, <1>7, <1>8 DEF SessionDoes

LEMMA AnalysedSampleDoes ==
  ASSUME TypeOK, Courses, NEW u \in Turns, AnalysedSample(u)
  PROVE  SessionDoes(u)
<1>0. Course(u) /\ Recorded(u)
  BY DEF Courses
<1>1. SessionTypes' /\ CacheTypes' /\ RecordTypes'
  BY Numbers DEF AnalysedSample, Analysed, Resolve, SessionOnly, storeVars,
     sesVars, cacheVars, recVars, TypeOK, SessionTypes, CacheTypes,
     RecordTypes, EnrollmentTypes, Enrollments, Profile
<1>2. /\ entry' \in Utterance /\ released' \in SUBSET Turns
      /\ result' \in [Turns -> Utterance]
  BY Numbers DEF AnalysedSample, Analysed, Resolve, SessionOnly, storeVars,
     TypeOK, TalkTypes
<1>3. Alone(u)
  BY <1>0 DEF AnalysedSample, Analysed, Resolve, SessionOnly, storeVars,
     sesVars, cacheVars, recVars, TypeOK, SessionTypes, CacheTypes,
     RecordTypes, Alone, Course, Committing
<1>4. Course(u)'
  BY <1>0 DEF AnalysedSample, Analysed, Resolve, SessionOnly, storeVars,
     sesVars, cacheVars, recVars, TypeOK, SessionTypes, CacheTypes,
     RecordTypes, Course, Committing
<1>5. Recorded(u)'
  BY <1>0 DEF AnalysedSample, Analysed, Resolve, SessionOnly, storeVars,
     sesVars, cacheVars, recVars, TypeOK, SessionTypes, CacheTypes,
     RecordTypes, Course, Recorded
<1>6. Tells(u)
  BY <1>0, Numbers DEF AnalysedSample, Analysed, Resolve, SessionOnly,
     storeVars, sesVars, TypeOK, SessionTypes, TalkTypes, Course, Tells
<1>7. Uses(u)
  BY <1>0 DEF AnalysedSample, Analysed, Resolve, SessionOnly, cacheVars,
     TypeOK, SessionTypes, CacheTypes, RecordTypes, Uses
<1>8. how[u] \in {"void", "cut"} => how'[u] \in {"void", "cut"}
  BY <1>0 DEF AnalysedSample, Analysed, Resolve, SessionOnly, sesVars, TypeOK,
     SessionTypes, CacheTypes, RecordTypes, Course
<1> QED
  BY <1>1, <1>2, <1>3, <1>4, <1>5, <1>6, <1>7, <1>8 DEF SessionDoes

LEMMA AnalysedRecordedDoes ==
  ASSUME TypeOK, Courses, NEW u \in Turns, AnalysedRecorded(u)
  PROVE  SessionDoes(u)
<1>0. Course(u) /\ Recorded(u)
  BY DEF Courses
<1>1. SessionTypes' /\ CacheTypes' /\ RecordTypes'
  BY Numbers DEF AnalysedRecorded, Analysed, Resolve, SessionOnly, storeVars,
     sesVars, cacheVars, recVars, TypeOK, SessionTypes, CacheTypes,
     RecordTypes, EnrollmentTypes, Enrollments, Profile
<1>2. /\ entry' \in Utterance /\ released' \in SUBSET Turns
      /\ result' \in [Turns -> Utterance]
  BY Numbers DEF AnalysedRecorded, Analysed, Resolve, SessionOnly, storeVars,
     TypeOK, TalkTypes
<1>3. Alone(u)
  BY <1>0 DEF AnalysedRecorded, Analysed, Resolve, SessionOnly, storeVars,
     sesVars, cacheVars, recVars, TypeOK, SessionTypes, CacheTypes,
     RecordTypes, Alone, Course, Committing
<1>4. Course(u)'
  BY <1>0 DEF AnalysedRecorded, Analysed, Resolve, SessionOnly, storeVars,
     sesVars, cacheVars, recVars, TypeOK, SessionTypes, CacheTypes,
     RecordTypes, Course, Committing
<1>5. Recorded(u)'
  BY <1>0 DEF AnalysedRecorded, Analysed, Resolve, SessionOnly, storeVars,
     sesVars, cacheVars, recVars, TypeOK, SessionTypes, CacheTypes,
     RecordTypes, Course, Recorded
<1>6. Tells(u)
  BY <1>0, Numbers DEF AnalysedRecorded, Analysed, Resolve, SessionOnly,
     storeVars, sesVars, TypeOK, SessionTypes, TalkTypes, Course, Tells
<1>7. Uses(u)
  BY <1>0 DEF AnalysedRecorded, Analysed, Resolve, SessionOnly, cacheVars,
     TypeOK, SessionTypes, CacheTypes, RecordTypes, Uses
<1>8. how[u] \in {"void", "cut"} => how'[u] \in {"void", "cut"}
  BY <1>0 DEF AnalysedRecorded, Analysed, Resolve, SessionOnly, sesVars,
     TypeOK, SessionTypes, CacheTypes, RecordTypes, Course
<1> QED
  BY <1>1, <1>2, <1>3, <1>4, <1>5, <1>6, <1>7, <1>8 DEF SessionDoes

LEMMA AnalysedOnlyDoes ==
  ASSUME TypeOK, Courses, NEW u \in Turns, AnalysedOnly(u)
  PROVE  SessionDoes(u)
<1>0. Course(u) /\ Recorded(u)
  BY DEF Courses
<1>1. SessionTypes' /\ CacheTypes' /\ RecordTypes'
  BY Numbers DEF AnalysedOnly, Analysed, Resolve, NoSample, SessionOnly,
     storeVars, sesVars, cacheVars, recVars, TypeOK, SessionTypes, CacheTypes,
     RecordTypes, EnrollmentTypes, Enrollments, Profile
<1>2. /\ entry' \in Utterance /\ released' \in SUBSET Turns
      /\ result' \in [Turns -> Utterance]
  BY Numbers DEF AnalysedOnly, Analysed, Resolve, NoSample, SessionOnly,
     storeVars, TypeOK, TalkTypes
<1>3. Alone(u)
  BY <1>0 DEF AnalysedOnly, Analysed, Resolve, NoSample, SessionOnly,
     storeVars, sesVars, cacheVars, recVars, TypeOK, SessionTypes, CacheTypes,
     RecordTypes, Alone, Course, Committing
<1>4. Course(u)'
  BY <1>0 DEF AnalysedOnly, Analysed, Resolve, NoSample, SessionOnly,
     storeVars, sesVars, cacheVars, recVars, TypeOK, SessionTypes, CacheTypes,
     RecordTypes, Course, Committing
<1>5. Recorded(u)'
  BY <1>0 DEF AnalysedOnly, Analysed, Resolve, NoSample, SessionOnly,
     storeVars, sesVars, cacheVars, recVars, TypeOK, SessionTypes, CacheTypes,
     RecordTypes, Course, Recorded
<1>6. Tells(u)
  BY <1>0, Numbers DEF AnalysedOnly, Analysed, Resolve, NoSample, SessionOnly,
     storeVars, sesVars, TypeOK, SessionTypes, TalkTypes, Course, Tells
<1>7. Uses(u)
  BY <1>0 DEF AnalysedOnly, Analysed, Resolve, NoSample, SessionOnly,
     cacheVars, TypeOK, SessionTypes, CacheTypes, RecordTypes, Uses
<1>8. how[u] \in {"void", "cut"} => how'[u] \in {"void", "cut"}
  BY <1>0 DEF AnalysedOnly, Analysed, Resolve, NoSample, SessionOnly, sesVars,
     TypeOK, SessionTypes, CacheTypes, RecordTypes, Course
<1> QED
  BY <1>1, <1>2, <1>3, <1>4, <1>5, <1>6, <1>7, <1>8 DEF SessionDoes

LEMMA EndDoes ==
  ASSUME TypeOK, Courses, NEW u \in Turns, End(u)
  PROVE  SessionDoes(u)
<1>0. Course(u) /\ Recorded(u)
  BY DEF Courses
<1>1. SessionTypes' /\ CacheTypes' /\ RecordTypes'
  BY Numbers DEF End, StartProcessing, SessionOnly, storeVars, sesVars,
     cacheVars, recVars, TypeOK, SessionTypes, CacheTypes, RecordTypes,
     EnrollmentTypes, Enrollments, Profile
<1>2. /\ entry' \in Utterance /\ released' \in SUBSET Turns
      /\ result' \in [Turns -> Utterance]
  BY Numbers DEF End, StartProcessing, SessionOnly, storeVars, TypeOK,
     TalkTypes
<1>3. Alone(u)
  BY <1>0 DEF End, StartProcessing, SessionOnly, storeVars, sesVars,
     cacheVars, recVars, TypeOK, SessionTypes, CacheTypes, RecordTypes, Alone,
     Course, Committing
<1>4. Course(u)'
  BY <1>0 DEF End, StartProcessing, SessionOnly, storeVars, sesVars,
     cacheVars, recVars, TypeOK, SessionTypes, CacheTypes, RecordTypes,
     Course, Committing
<1>5. Recorded(u)'
  BY <1>0 DEF End, StartProcessing, SessionOnly, storeVars, sesVars,
     cacheVars, recVars, TypeOK, SessionTypes, CacheTypes, RecordTypes,
     Course, Recorded
<1>6. Tells(u)
  BY <1>0, Numbers DEF End, StartProcessing, SessionOnly, storeVars, sesVars,
     TypeOK, SessionTypes, TalkTypes, Course, Tells
<1>7. Uses(u)
  BY <1>0 DEF End, StartProcessing, SessionOnly, cacheVars, TypeOK,
     SessionTypes, CacheTypes, RecordTypes, Uses
<1>8. how[u] \in {"void", "cut"} => how'[u] \in {"void", "cut"}
  BY <1>0 DEF End, StartProcessing, SessionOnly, sesVars, TypeOK,
     SessionTypes, CacheTypes, RecordTypes, Course
<1> QED
  BY <1>1, <1>2, <1>3, <1>4, <1>5, <1>6, <1>7, <1>8 DEF SessionDoes

LEMMA ConfirmDoes ==
  ASSUME TypeOK, Courses, NEW u \in Turns, Confirm(u)
  PROVE  SessionDoes(u)
<1>0. Course(u) /\ Recorded(u)
  BY DEF Courses
<1>1. SessionTypes' /\ CacheTypes' /\ RecordTypes'
  BY Numbers DEF Confirm, SessionOnly, storeVars, sesVars, cacheVars, recVars,
     TypeOK, SessionTypes, CacheTypes, RecordTypes, EnrollmentTypes,
     Enrollments, Profile
<1>2. /\ entry' \in Utterance /\ released' \in SUBSET Turns
      /\ result' \in [Turns -> Utterance]
  BY Numbers DEF Confirm, SessionOnly, storeVars, TypeOK, TalkTypes
<1>3. Alone(u)
  BY <1>0 DEF Confirm, SessionOnly, storeVars, sesVars, cacheVars, recVars,
     TypeOK, SessionTypes, CacheTypes, RecordTypes, Alone, Course, Committing
<1>4. Course(u)'
  BY <1>0 DEF Confirm, SessionOnly, storeVars, sesVars, cacheVars, recVars,
     TypeOK, SessionTypes, CacheTypes, RecordTypes, Course, Committing
<1>5. Recorded(u)'
  BY <1>0 DEF Confirm, SessionOnly, storeVars, sesVars, cacheVars, recVars,
     TypeOK, SessionTypes, CacheTypes, RecordTypes, Course, Recorded
<1>6. Tells(u)
  BY <1>0, Numbers DEF Confirm, SessionOnly, storeVars, sesVars, TypeOK,
     SessionTypes, TalkTypes, Course, Tells
<1>7. Uses(u)
  BY <1>0 DEF Confirm, SessionOnly, cacheVars, TypeOK, SessionTypes,
     CacheTypes, RecordTypes, Uses
<1>8. how[u] \in {"void", "cut"} => how'[u] \in {"void", "cut"}
  BY <1>0 DEF Confirm, SessionOnly, sesVars, TypeOK, SessionTypes, CacheTypes,
     RecordTypes, Course
<1> QED
  BY <1>1, <1>2, <1>3, <1>4, <1>5, <1>6, <1>7, <1>8 DEF SessionDoes

LEMMA LoseAfterAudioDoes ==
  ASSUME TypeOK, Courses, NEW u \in Turns, LoseAfterAudio(u)
  PROVE  SessionDoes(u)
<1>0. Course(u) /\ Recorded(u)
  BY DEF Courses
<1>1. SessionTypes' /\ CacheTypes' /\ RecordTypes'
  BY Numbers DEF LoseAfterAudio, StartProcessing, SessionOnly, storeVars,
     sesVars, cacheVars, recVars, TypeOK, SessionTypes, CacheTypes,
     RecordTypes, EnrollmentTypes, Enrollments, Profile
<1>2. /\ entry' \in Utterance /\ released' \in SUBSET Turns
      /\ result' \in [Turns -> Utterance]
  BY Numbers DEF LoseAfterAudio, StartProcessing, SessionOnly, storeVars,
     TypeOK, TalkTypes
<1>3. Alone(u)
  BY <1>0 DEF LoseAfterAudio, StartProcessing, SessionOnly, storeVars,
     sesVars, cacheVars, recVars, TypeOK, SessionTypes, CacheTypes,
     RecordTypes, Alone, Course, Committing
<1>4. Course(u)'
  BY <1>0 DEF LoseAfterAudio, StartProcessing, SessionOnly, storeVars,
     sesVars, cacheVars, recVars, TypeOK, SessionTypes, CacheTypes,
     RecordTypes, Course, Committing
<1>5. Recorded(u)'
  BY <1>0 DEF LoseAfterAudio, StartProcessing, SessionOnly, storeVars,
     sesVars, cacheVars, recVars, TypeOK, SessionTypes, CacheTypes,
     RecordTypes, Course, Recorded
<1>6. Tells(u)
  BY <1>0, Numbers DEF LoseAfterAudio, StartProcessing, SessionOnly,
     storeVars, sesVars, TypeOK, SessionTypes, TalkTypes, Course, Tells
<1>7. Uses(u)
  BY <1>0 DEF LoseAfterAudio, StartProcessing, SessionOnly, cacheVars, TypeOK,
     SessionTypes, CacheTypes, RecordTypes, Uses
<1>8. how[u] \in {"void", "cut"} => how'[u] \in {"void", "cut"}
  BY <1>0 DEF LoseAfterAudio, StartProcessing, SessionOnly, sesVars, TypeOK,
     SessionTypes, CacheTypes, RecordTypes, Course
<1> QED
  BY <1>1, <1>2, <1>3, <1>4, <1>5, <1>6, <1>7, <1>8 DEF SessionDoes

LEMMA UnconfirmedDoes ==
  ASSUME TypeOK, Courses, NEW u \in Turns, Unconfirmed(u)
  PROVE  SessionDoes(u)
<1>0. Course(u) /\ Recorded(u)
  BY DEF Courses
<1>1. SessionTypes' /\ CacheTypes' /\ RecordTypes'
  BY Numbers DEF Unconfirmed, NoSample, DropRecording, SessionOnly, storeVars,
     sesVars, cacheVars, recVars, TypeOK, SessionTypes, CacheTypes,
     RecordTypes, EnrollmentTypes, Enrollments, Profile
<1>2. /\ entry' \in Utterance /\ released' \in SUBSET Turns
      /\ result' \in [Turns -> Utterance]
  BY Numbers DEF Unconfirmed, NoSample, DropRecording, SessionOnly, storeVars,
     TypeOK, TalkTypes
<1>3. Alone(u)
  BY <1>0 DEF Unconfirmed, NoSample, DropRecording, SessionOnly, storeVars,
     sesVars, cacheVars, recVars, TypeOK, SessionTypes, CacheTypes,
     RecordTypes, Alone, Course, Committing
<1>4. Course(u)'
  BY <1>0 DEF Unconfirmed, NoSample, DropRecording, SessionOnly, storeVars,
     sesVars, cacheVars, recVars, TypeOK, SessionTypes, CacheTypes,
     RecordTypes, Course, Committing
<1>5. Recorded(u)'
  BY <1>0 DEF Unconfirmed, NoSample, DropRecording, SessionOnly, storeVars,
     sesVars, cacheVars, recVars, TypeOK, SessionTypes, CacheTypes,
     RecordTypes, Course, Recorded
<1>6. Tells(u)
  BY <1>0, Numbers DEF Unconfirmed, NoSample, DropRecording, SessionOnly,
     storeVars, sesVars, TypeOK, SessionTypes, TalkTypes, Course, Tells
<1>7. Uses(u)
  BY <1>0 DEF Unconfirmed, NoSample, DropRecording, SessionOnly, cacheVars,
     TypeOK, SessionTypes, CacheTypes, RecordTypes, Uses
<1>8. how[u] \in {"void", "cut"} => how'[u] \in {"void", "cut"}
  BY <1>0 DEF Unconfirmed, NoSample, DropRecording, SessionOnly, sesVars,
     TypeOK, SessionTypes, CacheTypes, RecordTypes, Course
<1> QED
  BY <1>1, <1>2, <1>3, <1>4, <1>5, <1>6, <1>7, <1>8 DEF SessionDoes

LEMMA DiscardDoes ==
  ASSUME TypeOK, Courses, NEW u \in Turns, Discard(u),
         ses[u] \in {"open", "confirm", "drop"}
  PROVE  SessionDoes(u)
<1>0. Course(u) /\ Recorded(u)
  BY DEF Courses
<1>1. SessionTypes' /\ CacheTypes' /\ RecordTypes'
  BY Numbers DEF Discard, NoSample, DropRecording, SessionOnly, Discarded,
     storeVars, sesVars, cacheVars, recVars, TypeOK, SessionTypes, CacheTypes,
     RecordTypes, EnrollmentTypes, Enrollments, Profile
<1>2. /\ entry' \in Utterance /\ released' \in SUBSET Turns
      /\ result' \in [Turns -> Utterance]
  BY Numbers, DiscardedKeeps DEF Discard, NoSample, DropRecording,
     SessionOnly, storeVars, TypeOK, TalkTypes
<1>3. Alone(u)
  BY <1>0 DEF Discard, NoSample, DropRecording, SessionOnly, Discarded,
     storeVars, sesVars, cacheVars, recVars, TypeOK, SessionTypes, CacheTypes,
     RecordTypes, Alone, Course, Committing
<1>4. Course(u)'
  BY <1>0 DEF Discard, NoSample, DropRecording, SessionOnly, Discarded,
     storeVars, sesVars, cacheVars, recVars, TypeOK, SessionTypes, CacheTypes,
     RecordTypes, Course, Committing
<1>5. Recorded(u)'
  BY <1>0 DEF Discard, NoSample, DropRecording, SessionOnly, Discarded,
     storeVars, sesVars, cacheVars, recVars, TypeOK, SessionTypes, CacheTypes,
     RecordTypes, Course, Recorded
<1>6. Tells(u)
  BY <1>0, Numbers, DiscardedKeeps DEF Discard, NoSample, DropRecording,
     SessionOnly, storeVars, sesVars, TypeOK, SessionTypes, TalkTypes, Course,
     Tells
<1>7. Uses(u)
  BY <1>0 DEF Discard, NoSample, DropRecording, SessionOnly, Discarded,
     cacheVars, TypeOK, SessionTypes, CacheTypes, RecordTypes, Uses
<1>8. how[u] \in {"void", "cut"} => how'[u] \in {"void", "cut"}
  BY <1>0 DEF Discard, NoSample, DropRecording, SessionOnly, Discarded,
     sesVars, TypeOK, SessionTypes, CacheTypes, RecordTypes, Course
<1> QED
  BY <1>1, <1>2, <1>3, <1>4, <1>5, <1>6, <1>7, <1>8 DEF SessionDoes

LEMMA CutDoes ==
  ASSUME TypeOK, Courses, NEW u \in Turns, Cut(u), proc[u] = "done"
  PROVE  SessionDoes(u)
<1>0. Course(u) /\ Recorded(u)
  BY DEF Courses
<1>1. SessionTypes' /\ CacheTypes' /\ RecordTypes'
  <2>1. SessionTypes'
    <3>1. /\ ses' = [ses EXCEPT ![u] = "over"]
          /\ how' = [how EXCEPT ![u] = "cut"]
          /\ target' = [target EXCEPT ![u] = NoProfile]
          /\ pending' = pending \ {u} /\ UNCHANGED <<proc, marked>>
      BY DEF Cut, NoSample
    <3> QED
      BY <3>1 DEF TypeOK, SessionTypes, Profile
  <2>2. CacheTypes'
    BY DEF Cut, NoSample, SessionOnly, storeVars, sesVars, cacheVars,
       recVars, TypeOK, CacheTypes
  <2>3. RecordTypes'
    BY DEF Cut, NoSample, SessionOnly, storeVars, sesVars, cacheVars,
       recVars, TypeOK, RecordTypes
  <2> QED
    BY <2>1, <2>2, <2>3
<1>2. /\ entry' \in Utterance /\ released' \in SUBSET Turns
      /\ result' \in [Turns -> Utterance]
  BY Numbers DEF Cut, NoSample, SessionOnly, storeVars, TypeOK, TalkTypes
<1>3. Alone(u)
  BY <1>0 DEF Cut, NoSample, SessionOnly, storeVars, sesVars, cacheVars,
     recVars, TypeOK, SessionTypes, CacheTypes, RecordTypes, Alone, Course,
     Committing
<1>4. Course(u)'
  BY <1>0 DEF Cut, NoSample, SessionOnly, storeVars, sesVars, cacheVars,
     recVars, TypeOK, SessionTypes, CacheTypes, RecordTypes, Course,
     Committing
<1>5. Recorded(u)'
  BY <1>0 DEF Cut, NoSample, SessionOnly, storeVars, sesVars, cacheVars,
     recVars, TypeOK, SessionTypes, CacheTypes, RecordTypes, Course, Recorded
<1>6. Tells(u)
  BY <1>0, Numbers DEF Cut, NoSample, SessionOnly, storeVars, sesVars, TypeOK,
     SessionTypes, TalkTypes, Course, Tells
<1>7. Uses(u)
  BY <1>0 DEF Cut, NoSample, SessionOnly, cacheVars, TypeOK, SessionTypes,
     CacheTypes, RecordTypes, Uses
<1>8. how[u] \in {"void", "cut"} => how'[u] \in {"void", "cut"}
  BY <1>0 DEF Cut, NoSample, SessionOnly, sesVars, TypeOK, SessionTypes,
     CacheTypes, RecordTypes, Course
<1> QED
  BY <1>1, <1>2, <1>3, <1>4, <1>5, <1>6, <1>7, <1>8 DEF SessionDoes

LEMMA SessionStepDoes ==
  ASSUME TypeOK, Courses, NEW u \in Turns, SessionStep(u)
  PROVE  SessionDoes(u) /\ UNCHANGED <<turnVars, armVars, rowVars, pace>>
<1>1. ASSUME Cut(u)
      PROVE  SessionDoes(u)
  <2>1. ses[u] \in {"open", "confirm", "drop"}
    BY <1>1 DEF Cut
  <2> QED
    BY <1>1, <2>1, CutDoes, DiscardDoes DEF Cut
<1>2. ASSUME Abort(u) \/ Lose(u)
      PROVE  SessionDoes(u)
  BY <1>2, DiscardDoes DEF Abort, Lose
<1> QED
  BY <1>1, <1>2, StartDoes, AudioEndDoes, NeedProfilesDoes, ReadProfilesDoes,
     BuildProfilesDoes, AnalysedSampleDoes, AnalysedRecordedDoes,
     AnalysedOnlyDoes, EndDoes, ConfirmDoes, LoseAfterAudioDoes,
     UnconfirmedDoes, SessionFrame DEF SessionStep
-----------------------------------------------------------------------------
(* What a step of a commit does                                            *)

Follows ==
  {<<"commit", "add">>, <<"commit", "over">>, <<"add", "count">>,
   <<"add", "over">>, <<"count", "review">>, <<"count", "over">>,
   <<"review", "delete">>, <<"review", "over">>, <<"delete", "replace">>,
   <<"delete", "over">>, <<"replace", "over">>}

CommitDoes(u) ==
  /\ \E pc : ses' = [ses EXCEPT ![u] = pc] /\ <<ses[u], pc>> \in Follows
  /\ ses[u] = "commit" => LockFree
  /\ \/ samples' = samples
     \/ samples' = samples \cup {u} /\ ses'[u] = "count"
     \/ samples' = samples \ {outlier[u]} /\ ses'[u] = "replace"
  /\ \/ UNCHANGED cacheVars
     \/ cache' = NoCache /\ fresh' = {} /\ rows' = rows
  /\ ses[u] \in {"count", "replace"} => cache' = NoCache /\ fresh' = {}
  /\ UNCHANGED <<storeVars, turnVars, how, proc, marked, target, pending,
                 arming, arms, profiles, deleting, recVars, pace>>

LEMMA CommitStepDoes ==
  ASSUME TypeOK, NEW u \in Turns, CommitStep(u)
  PROVE  CommitDoes(u)
<1>0. UNCHANGED <<storeVars, turnVars, how, proc, marked, target, pending,
                  arming, arms, profiles, deleting, recVars, pace>>
  BY CommitFrame
<1>1. CASE Commit(u)
  BY <1>0, <1>1 DEF Commit, To, CommitDoes, Follows
<1>2. CASE AddSample(u)
  BY <1>0, <1>2 DEF AddSample, To, CommitDoes, Follows, TypeOK, SessionTypes
<1>3. CASE AddFails(u)
  BY <1>0, <1>3 DEF AddFails, To, CommitDoes, Follows
<1>4. CASE CountSample(u)
  BY <1>0, <1>4 DEF CountSample, To, Invalidate, CommitDoes, Follows
<1>5. CASE FindOutlier(u)
  BY <1>0, <1>5 DEF FindOutlier, To, CommitDoes, Follows
<1>6. CASE NoOutlier(u)
  BY <1>0, <1>6 DEF NoOutlier, CommitEnds, To, CommitDoes, Follows
<1>7. CASE DeleteOutlier(u)
  BY <1>0, <1>7 DEF DeleteOutlier, To, CommitDoes, Follows, TypeOK,
     SessionTypes
<1>8. CASE ReplaceSample(u)
  <2>1. /\ ses[u] = "replace" /\ To(u, "over") /\ samples' = samples
        /\ Invalidate
    BY <1>8 DEF ReplaceSample, CommitEnds
  <2> QED
    BY <1>0, <2>1 DEF To, Invalidate, CommitDoes, Follows
<1> QED
  BY <1>1, <1>2, <1>3, <1>4, <1>5, <1>6, <1>7, <1>8 DEF CommitStep

LEMMA CommitTypes ==
  ASSUME TypeOK, NEW u \in Turns, CommitDoes(u)
  PROVE  TalkTypes' /\ SessionTypes' /\ CacheTypes' /\ RecordTypes'
<1>1. SessionTypes'
  BY DEF CommitDoes, Follows, TypeOK, SessionTypes
<1>2. CacheTypes'
  <2>1. CASE UNCHANGED cacheVars
    BY <2>1 DEF cacheVars, TypeOK, CacheTypes
  <2>2. CASE cache' = NoCache /\ fresh' = {} /\ rows' = rows
    BY <2>2 DEF TypeOK, CacheTypes
  <2> QED
    BY <2>1, <2>2 DEF CommitDoes
<1>3. TalkTypes' /\ RecordTypes'
  BY DEF CommitDoes, storeVars, turnVars, recVars, pace, TypeOK, TalkTypes,
     RecordTypes
<1> QED
  BY <1>1, <1>2, <1>3

\* Only u commits, before and after.
LEMMA CommitsAlone ==
  ASSUME TypeOK, OneCommit, NEW u \in Turns, CommitDoes(u)
  PROVE  /\ \A v \in Turns \ {u} :
              /\ ses'[v] = ses[v] /\ ~Committing(v) /\ ~Committing(v)'
         /\ <<ses[u], ses'[u]>> \in Follows
         /\ OneCommit'
<1>1. /\ \A v \in Turns \ {u} : ses'[v] = ses[v]
      /\ <<ses[u], ses'[u]>> \in Follows
  BY DEF CommitDoes, TypeOK, SessionTypes
<1>2. Committing(u) \/ LockFree
  BY <1>1 DEF CommitDoes, Follows, Committing
<1>3. \A v \in Turns \ {u} : ~Committing(v)
  BY <1>2 DEF OneCommit, LockFree
<1>4. \A v \in Turns \ {u} : ~Committing(v)'
  BY <1>1, <1>3 DEF Committing
<1>5. OneCommit'
  BY <1>4 DEF OneCommit
<1> QED
  BY <1>1, <1>3, <1>4, <1>5

LEMMA CommitWrites ==
  ASSUME TypeOK, Courses, OneCommit, NEW u \in Turns, CommitDoes(u)
  PROVE  /\ \A s \in Turns : Wrote(s) => Wrote(s)'
         /\ \A s \in Turns : \A p \in Profile :
              CountedFor(s, p) => CountedFor(s, p)'
         /\ Courses'
<1>1. /\ \A v \in Turns \ {u} : ses'[v] = ses[v]
      /\ <<ses[u], ses'[u]>> \in Follows
      /\ UNCHANGED <<how, proc, target, pending, store, drop, files, records,
                     undeleted>>
  BY CommitsAlone DEF CommitDoes, recVars
<1>2. \A s \in Turns : Wrote(s) => Wrote(s)'
  BY <1>1 DEF Wrote, Follows
<1>3. \A s \in Turns : \A p \in Profile :
        CountedFor(s, p) => CountedFor(s, p)'
  BY <1>1, <1>2 DEF CountedFor, Wrote, Follows
<1>4. Course(u) /\ Recorded(u)
  BY DEF Courses
<1>5. Course(u)' /\ (ses'[u] = "count" => Wrote(u)')
  BY <1>1, <1>4 DEF Course, Committing, Follows, Wrote
<1>6. Recorded(u)'
  BY <1>1, <1>4 DEF Course, Committing, Follows, Recorded
<1>7. \A v \in Turns \ {u} : Course(v)' /\ Recorded(v)'
  BY <1>1 DEF Courses, Course, Recorded, Committing
<1>8. \A s \in samples' : Wrote(s)'
  BY <1>2, <1>5 DEF CommitDoes, Courses, TypeOK, EnrollmentTypes
<1> QED
  BY <1>2, <1>3, <1>5, <1>6, <1>7, <1>8 DEF Courses

-----------------------------------------------------------------------------
(* Enrollment: one lemma per action                                        *)

LEMMA ArmedAt ==
  ASSUME NEW a \in Enrollments
  PROVE  /\ a.profile \in Profile /\ a.asked \in Nat /\ a.collected \in Nat
         /\ a.ids \subseteq Turns /\ IsFiniteSet(a.ids) /\ a.replaced \in Nat
         /\ Remaining(a) = 0 <=> a.asked <= a.collected
<1>1. IsFiniteSet(Turns)
  BY Numbers, FS_Interval DEF Turns
<1>2. a.ids \subseteq Turns
  BY DEF Enrollments
<1>3. IsFiniteSet(a.ids)
  BY <1>1, <1>2, FS_Subset
<1> QED
  BY <1>2, <1>3 DEF Enrollments, Remaining

LEMMA NotArmedTallied == Tallied(NotArmed) /\ Short(NotArmed)
  BY Numbers, FS_EmptySet DEF Tallied, Short

LEMMA FinishedTallied ==
  ASSUME NEW a, Tallied(a), NEW p \in Profile, p # NoProfile
  PROVE  /\ Tallied(Finished(a, p))
         /\ a.profile = p \/ Short(a) => Short(Finished(a, p))
         /\ Finished(a, p) \in {a, NotArmed}
  BY NotArmedTallied, ArmedAt DEF Finished, Tallied, Short

\* An enrollment stays the same, or is over.
LEMMA TalliedStays ==
  ASSUME TypeOK, Courses, OneCommit, NEW u \in Turns, CommitDoes(u),
         NEW a, Tallied(a), armed' = a
  PROVE  Tallied(armed)'
<1>1. a.profile \in Profile /\ a.ids \subseteq Turns
  BY ArmedAt DEF Tallied
<1> QED
  BY <1>1, CommitWrites DEF Tallied

LEMMA EnrolledStays ==
  ASSUME TypeOK, Courses, Enrolled, NEW u \in Turns, CommitDoes(u),
         outlier' \in [Turns -> Utterance], cands' \in [Turns -> SUBSET Turns],
         Tallied(armed)', Missing', ReviewOf(u)',
         Reviewing(u)' \/ Short(armed)'
  PROVE  Enrolled' /\ EnrollmentTypes'
<1>1. /\ \A v \in Turns \ {u} : ~Committing(v)'
      /\ OneCommit'
  BY CommitsAlone DEF Enrolled
<1>2. \A v \in Turns \ {u} : ReviewOf(v)' /\ ~Reviewing(v)'
  BY <1>1 DEF Committing, ReviewOf, Reviewing
<1>3. EnrollmentTypes'
  BY DEF CommitDoes, Tallied, TypeOK, EnrollmentTypes
<1> QED
  BY <1>1, <1>2, <1>3 DEF Enrolled

\* Before a commit nothing is missing.
LEMMA NoneMissing ==
  ASSUME TypeOK, Enrolled, NEW u \in Turns, CommitDoes(u),
         ses[u] # "replace"
  PROVE  /\ armed.profile \in profiles => armed.ids \subseteq samples
         /\ \A v \in Turns \ {u} : ~Reviewing(v)
         /\ ~Reviewing(u) => Short(armed)
<1>1. \A v \in Turns \ {u} : ~Committing(v)
  BY CommitsAlone DEF Enrolled
<1>2. \A v \in Turns \ {u} : ~Reviewing(v) /\ ses[v] # "replace"
  BY <1>1 DEF Committing, Reviewing
<1> QED
  BY <1>2 DEF Enrolled, Missing

LEMMA CommitEnrolls ==
  ASSUME TypeOK, Courses, Enrolled, NEW u \in Turns, Commit(u)
  PROVE  Enrolled' /\ EnrollmentTypes'
<1>0. CommitDoes(u)
  BY CommitStepDoes DEF CommitStep
<1>1. /\ UNCHANGED <<armed, samples, cands, outlier, profiles>>
      /\ ses[u] = "commit" /\ ses'[u] \in {"add", "over"}
  BY <1>0 DEF Commit, To, CommitDoes, TypeOK, SessionTypes
<1>2. PICK a : a = armed
  OBVIOUS
<1>3. Tallied(armed)'
  BY <1>0, <1>1, <1>2, TalliedStays DEF Enrolled
<1>4. ReviewOf(u)' /\ Short(armed)'
  BY <1>0, <1>1, NoneMissing DEF ReviewOf, Reviewing, Short
<1>5. Missing'
  BY <1>0, <1>1, NoneMissing DEF Missing
<1> QED
  BY <1>0, <1>1, <1>3, <1>4, <1>5, EnrolledStays DEF TypeOK, EnrollmentTypes

LEMMA AddSampleEnrolls ==
  ASSUME TypeOK, Courses, Enrolled, NEW u \in Turns, AddSample(u)
  PROVE  Enrolled' /\ EnrollmentTypes'
<1>0. CommitDoes(u)
  BY CommitStepDoes DEF CommitStep
<1>1. /\ UNCHANGED <<armed, cands, outlier, profiles>>
      /\ samples' = samples \cup {u}
      /\ ses[u] = "add" /\ ses'[u] = "count"
  BY <1>0 DEF AddSample, To, CommitDoes, TypeOK, SessionTypes
<1>2. PICK a : a = armed
  OBVIOUS
<1>3. Tallied(armed)'
  BY <1>0, <1>1, <1>2, TalliedStays DEF Enrolled
<1>4. ReviewOf(u)' /\ Short(armed)'
  BY <1>0, <1>1, NoneMissing DEF ReviewOf, Reviewing, Short
<1>5. Missing'
  BY <1>0, <1>1, NoneMissing DEF Missing
<1> QED
  BY <1>0, <1>1, <1>3, <1>4, <1>5, EnrolledStays DEF TypeOK, EnrollmentTypes

LEMMA AddFailsEnrolls ==
  ASSUME TypeOK, Courses, Enrolled, NEW u \in Turns, AddFails(u)
  PROVE  Enrolled' /\ EnrollmentTypes'
<1>0. CommitDoes(u)
  BY CommitStepDoes DEF CommitStep
<1>1. /\ UNCHANGED <<samples, cands, outlier, profiles>>
      /\ armed' \in {armed, NotArmed}
      /\ ses[u] = "add" /\ ses'[u] = "over"
  BY <1>0 DEF AddFails, Disarmed, To, CommitDoes, TypeOK, SessionTypes
<1>2. PICK a : a = armed'
  OBVIOUS
<1>3. Tallied(a) /\ Short(a)
  BY <1>0, <1>1, <1>2, NotArmedTallied, NoneMissing DEF Enrolled, Reviewing
<1>4. Tallied(armed)'
  BY <1>0, <1>2, <1>3, TalliedStays DEF Enrolled
<1>5. ReviewOf(u)' /\ Short(armed)'
  BY <1>1, <1>2, <1>3 DEF ReviewOf, Reviewing, Short
<1>6. Missing'
  BY <1>0, <1>1, NoneMissing, Numbers DEF Missing
<1> QED
  BY <1>0, <1>1, <1>4, <1>5, <1>6, EnrolledStays DEF TypeOK, EnrollmentTypes

LEMMA FindOutlierEnrolls ==
  ASSUME TypeOK, Courses, Enrolled, NEW u \in Turns, FindOutlier(u)
  PROVE  Enrolled' /\ EnrollmentTypes'
<1>0. CommitDoes(u)
  BY CommitStepDoes DEF CommitStep
<1>1. PICK o \in cands[u] : outlier' = [outlier EXCEPT ![u] = o]
                            /\ To(u, "delete")
  BY DEF FindOutlier
<1>2. /\ UNCHANGED <<armed, samples, cands, profiles, target>>
      /\ ses[u] = "review" /\ ses'[u] = "delete"
  BY <1>0, <1>1 DEF FindOutlier, To, CommitDoes, TypeOK, SessionTypes
<1>3. PICK a : a = armed
  OBVIOUS
<1>4. Tallied(armed)'
  BY <1>0, <1>2, <1>3, TalliedStays DEF Enrolled
<1>5. o \in Turns /\ outlier'[u] = o
  BY <1>1 DEF TypeOK, EnrollmentTypes
<1>6. /\ ReviewOf(u) /\ Reviewing(u) /\ target[u] \in Profile
      /\ cands[u] \subseteq Turns
  BY <1>2 DEF Enrolled, Reviewing, TypeOK, SessionTypes, EnrollmentTypes
<1>7. \A p \in cands[u] : CountedFor(p, target[u])'
  <2>1. PICK t : t = target[u]
    OBVIOUS
  <2>2. \A p \in cands[u] : CountedFor(p, t)'
    BY <1>0, <1>6, <2>1, CommitWrites DEF ReviewOf, Enrolled
  <2> QED
    BY <1>2, <2>1, <2>2 DEF CountedFor
<1>8. ReviewOf(u)' /\ Reviewing(u)'
  BY <1>2, <1>5, <1>6, <1>7, Numbers DEF ReviewOf, Reviewing, Short
<1>9. Missing'
  BY <1>0, <1>2, NoneMissing DEF Missing
<1>10. outlier' \in [Turns -> Utterance]
  BY <1>1, <1>5, Numbers DEF TypeOK, EnrollmentTypes
<1> QED
  BY <1>0, <1>2, <1>4, <1>8, <1>9, <1>10, EnrolledStays DEF TypeOK,
     EnrollmentTypes

LEMMA CommitEndsTypes ==
  ASSUME TypeOK, NEW u \in Turns, CommitEnds(u)
  PROVE  /\ outlier' \in [Turns -> Utterance]
         /\ cands' \in [Turns -> SUBSET Turns]
         /\ ses'[u] = "over"
  BY Numbers DEF CommitEnds, To, TypeOK, EnrollmentTypes, SessionTypes

LEMMA NoOutlierEnrolls ==
  ASSUME TypeOK, Courses, Enrolled, NEW u \in Turns, NoOutlier(u)
  PROVE  Enrolled' /\ EnrollmentTypes'
<1>0. CommitDoes(u)
  BY CommitStepDoes DEF CommitStep
<1>1. /\ UNCHANGED <<samples, profiles>> /\ CommitEnds(u)
      /\ Reviewing(u) /\ ses[u] # "replace" /\ ses'[u] = "over"
      /\ armed' = Finished(armed, target[u])
  BY <1>0, CommitEndsTypes DEF NoOutlier, CommitEnds, CommitDoes, Reviewing
<1>2. /\ Tallied(armed) /\ (armed.profile = target[u] \/ Short(armed))
      /\ target[u] \in Profile /\ target[u] # NoProfile
  BY <1>1 DEF Enrolled, ReviewOf, Courses, Course, Committing, Reviewing,
     TypeOK, SessionTypes
<1>3. PICK a, b : a = armed /\ b = armed'
  OBVIOUS
<1>4. Tallied(b) /\ Short(b) /\ b \in {a, NotArmed}
  BY <1>1, <1>2, <1>3, FinishedTallied
<1>5. Tallied(armed)'
  BY <1>0, <1>3, <1>4, TalliedStays DEF Enrolled
<1>6. ReviewOf(u)' /\ Short(armed)'
  BY <1>1, <1>3, <1>4 DEF ReviewOf, Reviewing, Short
<1>7. Missing'
  BY <1>0, <1>1, <1>3, <1>4, NoneMissing, Numbers DEF Missing
<1> QED
  BY <1>0, <1>1, <1>5, <1>6, <1>7, EnrolledStays, CommitEndsTypes

LEMMA DeleteOutlierEnrolls ==
  ASSUME TypeOK, Courses, Enrolled, NEW u \in Turns, DeleteOutlier(u)
  PROVE  Enrolled' /\ EnrollmentTypes'
<1>0. CommitDoes(u)
  BY CommitStepDoes DEF CommitStep
<1>1. /\ UNCHANGED <<armed, cands, outlier, profiles, target>>
      /\ samples' = samples \ {outlier[u]}
      /\ ses[u] = "delete" /\ ses'[u] = "replace"
  BY <1>0 DEF DeleteOutlier, To, CommitDoes, TypeOK, SessionTypes
<1>2. PICK a : a = armed
  OBVIOUS
<1>3. Tallied(armed)'
  BY <1>0, <1>1, <1>2, TalliedStays DEF Enrolled
<1>4. /\ ReviewOf(u) /\ Reviewing(u) /\ target[u] \in Profile
      /\ cands[u] \subseteq Turns /\ outlier[u] \in Turns
  BY <1>1, Numbers DEF Enrolled, ReviewOf, Reviewing, TypeOK, SessionTypes,
     EnrollmentTypes
<1>5. /\ \A p \in cands[u] : CountedFor(p, target[u])'
      /\ CountedFor(outlier[u], target[u])'
  <2>1. PICK t, o : t = target[u] /\ o = outlier[u]
    OBVIOUS
  <2>2. (\A p \in cands[u] : CountedFor(p, t)') /\ CountedFor(o, t)'
    BY <1>0, <1>1, <1>4, <2>1, CommitWrites DEF ReviewOf, Enrolled
  <2> QED
    BY <1>1, <2>1, <2>2 DEF CountedFor, Wrote
<1>6. ReviewOf(u)' /\ Reviewing(u)'
  BY <1>1, <1>4, <1>5 DEF ReviewOf, Reviewing, Short
<1>7. Missing'
  BY <1>0, <1>1, NoneMissing DEF Missing
<1> QED
  BY <1>0, <1>1, <1>3, <1>6, <1>7, EnrolledStays DEF TypeOK, EnrollmentTypes
-----------------------------------------------------------------------------
(* Enrollment: the samples that are counted and replaced                   *)

\* The enrollment after a sample of u was recorded.
WithSample(a, u) == [a EXCEPT !.collected = @ + 1, !.ids = @ \cup {u}]

LEMMA RecordedTallied ==
  ASSUME NEW a \in Enrollments, NEW u \in Turns, u \notin a.ids,
         a.collected = Cardinality(a.ids), a.collected < a.asked
  PROVE  LET b == WithSample(a, u)
         IN /\ b \in Enrollments /\ b.profile = a.profile
            /\ b.ids = a.ids \cup {u} /\ b.replaced = a.replaced
            /\ b.collected = Cardinality(b.ids) /\ b.collected <= b.asked
            /\ b # NotArmed
<1> DEFINE b == WithSample(a, u)
<1>1. /\ IsFiniteSet(a.ids) /\ a.ids \subseteq Turns /\ a.collected \in Nat
      /\ a.asked \in Nat
  BY ArmedAt
<1>2. Cardinality(a.ids \cup {u}) = a.collected + 1
  BY <1>1, FS_AddElement
<1>3. b = [a EXCEPT !.collected = a.collected + 1, !.ids = a.ids \cup {u}]
  BY DEF WithSample
<1>4. /\ b \in Enrollments /\ b.profile = a.profile
      /\ b.ids = a.ids \cup {u} /\ b.replaced = a.replaced
      /\ b.collected = a.collected + 1 /\ b.asked = a.asked
  <2>1. PICK n, i : n = a.collected + 1 /\ i = a.ids \cup {u}
    OBVIOUS
  <2>2. n \in Nat /\ i \in SUBSET Turns
    BY <1>1, <2>1
  <2>3. b = [a EXCEPT !.collected = n, !.ids = i]
    BY <1>3, <2>1
  <2> HIDE DEF b
  <2> QED
    BY <2>1, <2>2, <2>3 DEF Enrollments
<1> HIDE DEF b
<1>5. b # NotArmed
  BY <1>4, Numbers
<1> QED
  BY <1>1, <1>2, <1>4, <1>5 DEF b

LEMMA CountSampleEnrolls ==
  ASSUME TypeOK, Courses, Enrolled, NEW u \in Turns, CountSample(u)
  PROVE  Enrolled' /\ EnrollmentTypes'
<1> DEFINE p == target[u]
           a == IF armed.profile = p THEN WithSample(armed, u) ELSE armed
           full == a.profile # p \/ Remaining(a) = 0
           ids == IF a.profile = p /\ a.replaced < MaxReplaced THEN a.ids
                  ELSE {}
<1>0. CommitDoes(u)
  BY CommitStepDoes DEF CommitStep
<1>1. /\ UNCHANGED <<samples, outlier, profiles, target>>
      /\ ses[u] = "count"
      /\ armed' = IF full /\ ids = {} THEN Finished(a, p) ELSE a
      /\ cands' = [cands EXCEPT ![u] = IF full THEN ids ELSE {}]
      /\ ses'[u] = IF full /\ ids # {} THEN "review" ELSE "over"
  BY <1>0 DEF CountSample, WithSample, To, CommitDoes, TypeOK, SessionTypes
<1>2. /\ p \in Profile /\ p # NoProfile /\ Tallied(armed) /\ Short(armed)
      /\ u \in samples \/ p \notin profiles
      /\ armed.profile \in profiles => armed.ids \subseteq samples
  <2>1. ~Reviewing(u) /\ Committing(u)
    BY <1>1 DEF Reviewing, Committing
  <2> QED
    BY <1>0, <1>1, <2>1, NoneMissing DEF Enrolled, ReviewOf, Courses, Course,
       TypeOK, SessionTypes
<1>3. u \notin armed.ids
  BY <1>1, <1>2 DEF Tallied, CountedFor
<1>4. armed \in Enrollments /\ armed.profile = p => armed # NotArmed
  BY <1>2, Numbers DEF Tallied
<1>5. /\ a \in Enrollments /\ a.profile = armed.profile
      /\ a.replaced = armed.replaced
      /\ a.ids = IF armed.profile = p THEN armed.ids \cup {u} ELSE armed.ids
      /\ a.collected = Cardinality(a.ids) /\ a.collected <= a.asked
      /\ a.profile = NoProfile => a = NotArmed
      /\ a.profile # p => Short(a)
  <2>1. CASE armed.profile = p
    BY <1>2, <1>3, <1>4, <2>1, RecordedTallied DEF Tallied, Short
  <2>2. CASE armed.profile # p
    BY <1>2, <2>2 DEF Tallied
  <2> QED
    BY <2>1, <2>2
<1> HIDE DEF a
<1>6. a.ids \subseteq Turns /\ (a.profile # p \/ Remaining(a) # 0 => Short(a))
  BY <1>5, ArmedAt DEF Short
<1>7. PICK b, c, q : b = a /\ c = armed' /\ q = p
  OBVIOUS
<1>8. \A s \in b.ids : CountedFor(s, b.profile)'
  <2>1. armed.ids \subseteq Turns /\ armed.profile \in Profile
    BY <1>2, ArmedAt DEF Tallied
  <2>2. PICK g : g = armed.profile
    OBVIOUS
  <2>3. \A s \in armed.ids : CountedFor(s, g)'
    BY <1>0, <1>2, <2>1, <2>2, CommitWrites DEF Tallied, Enrolled
  <2>4. target[u] = g => CountedFor(u, g)'
    <3>1. Course(u)' /\ ses'[u] \in {"review", "over"}
      BY <1>0, <1>1, CommitWrites DEF Enrolled, Courses
    <3>2. how'[u] = "end" /\ proc'[u] = "done"
      BY <1>0, <1>1 DEF CommitDoes, Courses, Course, Committing
    <3> QED
      BY <1>1, <1>2, <3>1, <3>2 DEF CountedFor, Wrote
  <2> QED
    BY <1>5, <1>7, <2>2, <2>3, <2>4
<1>9. c \in {b, NotArmed} /\ Tallied(armed)'
  <2>1. Finished(b, q) \in {b, NotArmed}
    BY DEF Finished
  <2>2. c \in {b, NotArmed}
    BY <1>1, <1>7, <2>1
  <2>3. CASE c = b
    BY <1>5, <1>7, <1>8, <2>3 DEF Tallied
  <2>4. CASE c = NotArmed
    BY <1>7, <2>4, Numbers, FS_EmptySet DEF Tallied
  <2> QED
    BY <2>2, <2>3, <2>4
<1>10. \A s \in ids : full => CountedFor(s, target[u])'
  <2>1. PICK g : g = b.profile
    OBVIOUS
  <2>2. \A s \in b.ids : CountedFor(s, g)'
    BY <1>8, <2>1
  <2> QED
    BY <1>1, <1>7, <2>1, <2>2 DEF CountedFor
<1>11. Reviewing(u)' \/ Short(armed)'
  <2>1. CASE full /\ ids # {}
    BY <1>1, <2>1 DEF Reviewing
  <2>2. CASE ~full
    BY <1>1, <1>6, <2>2 DEF Short
  <2>3. CASE full /\ ids = {}
    <3>1. armed' = Finished(a, p)
      BY <1>1, <2>3
    <3>2. CASE a.profile = p
      BY <2>3, <3>1, <3>2 DEF Finished, Short
    <3>3. CASE a.profile # p
      BY <1>6, <3>1, <3>3 DEF Finished, Short
    <3> QED
      BY <3>2, <3>3
  <2> QED
    BY <2>1, <2>2, <2>3
<1>12. ReviewOf(u)'
  <2>1. CASE full /\ ids # {}
    <3>1. /\ armed' = a /\ a.profile = p /\ a.replaced < MaxReplaced
          /\ ses'[u] = "review" /\ cands'[u] = ids
      BY <1>1, <2>1 DEF TypeOK, EnrollmentTypes
    <3> QED
      BY <1>1, <1>10, <2>1, <3>1 DEF ReviewOf, Reviewing
  <2>2. CASE ~(full /\ ids # {})
    BY <1>1, <2>2 DEF ReviewOf, Reviewing
  <2> QED
    BY <2>1, <2>2
<1>13. Missing'
  <2>1. c.profile \in profiles => c.ids \subseteq samples
    BY <1>2, <1>5, <1>7, <1>9, Numbers
  <2> QED
    BY <1>1, <1>7, <2>1 DEF Missing
<1>14. cands' \in [Turns -> SUBSET Turns]
  BY <1>1, <1>6 DEF TypeOK, EnrollmentTypes
<1> QED
  BY <1>0, <1>1, <1>9, <1>11, <1>12, <1>13, <1>14, EnrolledStays DEF TypeOK,
     EnrollmentTypes

\* The enrollment after its sample o was replaced.
Replaced(a, o) ==
  [a EXCEPT !.ids = @ \ {o}, !.collected = @ - 1, !.replaced = @ + 1]

LEMMA ReplacedTallied ==
  ASSUME NEW a, Tallied(a), NEW o \in a.ids
  PROVE  LET b == Replaced(a, o)
         IN Tallied(b) /\ Short(b) /\ b.profile = a.profile
              /\ b.ids = a.ids \ {o}
<1> DEFINE b == Replaced(a, o)
<1>1. /\ a \in Enrollments
      /\ IsFiniteSet(a.ids) /\ a.ids \subseteq Turns /\ a.collected \in Nat
      /\ a.asked \in Nat /\ a.replaced \in Nat
  BY ArmedAt DEF Tallied
<1>2. Cardinality(a.ids \ {o}) = a.collected - 1 /\ a.collected - 1 \in Nat
  <2>1. /\ Cardinality(a.ids \ {o}) = Cardinality(a.ids) - 1
        /\ IsFiniteSet(a.ids \ {o})
    BY <1>1, FS_RemoveElement
  <2>2. Cardinality(a.ids \ {o}) \in Nat
    BY <2>1, FS_CardinalityType
  <2> QED
    BY <2>1, <2>2 DEF Tallied
<1>3. b = [a EXCEPT !.ids = a.ids \ {o}, !.collected = a.collected - 1,
                    !.replaced = a.replaced + 1]
  BY DEF Replaced
<1>4. /\ b \in Enrollments /\ b.profile = a.profile
      /\ b.ids = a.ids \ {o} /\ b.asked = a.asked
      /\ b.collected = a.collected - 1 /\ b.replaced = a.replaced + 1
  <2>1. PICK n, i, r : /\ n = a.collected - 1 /\ i = a.ids \ {o}
                       /\ r = a.replaced + 1
    OBVIOUS
  <2>2. n \in Nat /\ i \in SUBSET Turns /\ r \in Nat
    BY <1>1, <1>2, <2>1
  <2>3. b = [a EXCEPT !.ids = i, !.collected = n, !.replaced = r]
    BY <1>3, <2>1
  <2> HIDE DEF b
  <2>4. b \in Enrollments
    BY <1>1, <2>2, <2>3 DEF Enrollments
  <2>5. b.ids = i /\ b.collected = n /\ b.replaced = r
    BY <1>1, <2>3 DEF Enrollments
  <2>6. b.profile = a.profile /\ b.asked = a.asked
    BY <1>1, <2>3 DEF Enrollments
  <2> QED
    BY <2>1, <2>4, <2>5, <2>6
<1>5. a.profile # NoProfile
  BY Numbers DEF Tallied
<1> HIDE DEF b
<1>6. Tallied(b) /\ Short(b)
  BY <1>1, <1>2, <1>4, <1>5 DEF Tallied, Short
<1> QED
  BY <1>4, <1>6 DEF b

LEMMA ReplaceSampleEnrolls ==
  ASSUME TypeOK, Courses, Enrolled, NEW u \in Turns, ReplaceSample(u)
  PROVE  Enrolled' /\ EnrollmentTypes'
<1> DEFINE o == outlier[u]
           fits == armed.profile = target[u] /\ o \in armed.ids
<1>0. CommitDoes(u)
  BY CommitStepDoes DEF CommitStep
<1>1. ses[u] = "replace" /\ UNCHANGED <<samples, profiles, target>>
  BY <1>0 DEF ReplaceSample, CommitDoes
<1>2. /\ Tallied(armed) /\ (armed.profile = target[u] \/ Short(armed))
      /\ target[u] \in Profile /\ target[u] # NoProfile
      /\ armed.replaced < MaxReplaced
      /\ CountedFor(o, target[u])
  BY <1>1 DEF Enrolled, ReviewOf, Courses, Course, Committing, Reviewing,
     TypeOK, SessionTypes
<1>3. armed.profile \in profiles => armed.ids \ samples \subseteq {o}
  <2>1. \A v \in Turns \ {u} : ~Committing(v)
    BY <1>0, CommitsAlone DEF Enrolled
  <2> QED
    BY <2>1 DEF Enrolled, Missing, Committing
<1>4. PICK a, b : a = armed /\ b = armed'
  OBVIOUS
<1>5. /\ ses'[u] = "over" /\ Tallied(b) /\ Short(b)
      /\ b.profile \in profiles => b.ids \subseteq samples
      /\ outlier' \in [Turns -> Utterance] /\ cands' \in [Turns -> SUBSET Turns]
  <2>1. CASE fits
    <3>1. /\ b = Replaced(a, o) /\ To(u, "over")
          /\ cands' = [cands EXCEPT ![u] = {}]
          /\ outlier' = [outlier EXCEPT ![u] = 0]
      BY <1>2, <1>4, <2>1 DEF ReplaceSample, Replaced
    <3>2. PICK s : s = o
      OBVIOUS
    <3>3. Tallied(b) /\ Short(b) /\ b.profile = a.profile /\ b.ids = a.ids \ {s}
      BY <1>2, <1>4, <2>1, <3>1, <3>2, ReplacedTallied
    <3> QED
      BY <1>3, <1>4, <3>1, <3>2, <3>3, Numbers DEF To, TypeOK, SessionTypes,
         EnrollmentTypes
  <2>2. CASE ~fits
    <3>1. CommitEnds(u)
      BY <2>2 DEF ReplaceSample
    <3>2. b = Finished(a, target[u])
      BY <1>4, <3>1 DEF CommitEnds
    <3>3. Tallied(b) /\ Short(b) /\ b \in {a, NotArmed}
      BY <1>2, <1>4, <3>2, FinishedTallied
    <3>4. o \notin armed.ids
      BY <1>2, <2>2 DEF Tallied, CountedFor
    <3> QED
      BY <1>3, <1>4, <3>1, <3>3, <3>4, CommitEndsTypes, Numbers
  <2> QED
    BY <2>1, <2>2
<1>6. Tallied(armed)'
  BY <1>0, <1>4, <1>5, TalliedStays DEF Enrolled
<1>7. ReviewOf(u)' /\ Short(armed)' /\ Missing'
  BY <1>1, <1>4, <1>5 DEF ReviewOf, Reviewing, Short, Missing
<1> QED
  BY <1>0, <1>5, <1>6, <1>7, EnrolledStays

LEMMA CommitStepEnrolls ==
  ASSUME TypeOK, Courses, Enrolled, NEW u \in Turns, CommitStep(u)
  PROVE  Enrolled' /\ TypeOK' /\ Courses'
<1>1. CommitDoes(u)
  BY CommitStepDoes
<1>2. Enrolled' /\ EnrollmentTypes'
  BY CommitEnrolls, AddSampleEnrolls, AddFailsEnrolls, CountSampleEnrolls,
     FindOutlierEnrolls, NoOutlierEnrolls, DeleteOutlierEnrolls,
     ReplaceSampleEnrolls DEF CommitStep
<1> QED
  BY <1>1, <1>2, CommitTypes, CommitWrites DEF TypeOK, Enrolled
-----------------------------------------------------------------------------
(* What the other steps leave alone                                        *)

LEMMA CoursesFrame ==
  ASSUME Courses, UNCHANGED <<sesVars, recVars, samples>>
  PROVE  Courses'
  BY DEF Courses, Course, Recorded, Wrote, Committing, sesVars, recVars

LEMMA EnrolledFrame ==
  ASSUME Enrolled, UNCHANGED <<ses, how, proc, target, armed, profiles, samples,
                               cands, outlier>>
  PROVE  Enrolled'
<1>1. \A u \in Turns : ReviewOf(u)'
  BY DEF Enrolled, ReviewOf, Reviewing, CountedFor, Wrote, Short
<1>2. Tallied(armed)'
  BY DEF Enrolled, Tallied, CountedFor, Wrote
<1>3. OneCommit' /\ Missing'
  BY DEF Enrolled, OneCommit, Committing, Missing
<1>4. (\A u \in Turns : ~Reviewing(u)') => Short(armed)'
  BY DEF Enrolled, Reviewing, Short
<1> QED
  BY <1>1, <1>2, <1>3, <1>4 DEF Enrolled

-----------------------------------------------------------------------------
(* Sessions before a commit                                                *)

LEMMA SessionCourses ==
  ASSUME TypeOK, Courses, NEW u \in Turns, SessionStep(u)
  PROVE  Courses' /\ (\A s \in Turns : Wrote(s) => Wrote(s)')
<1>1. SessionDoes(u) /\ samples' = samples
  BY SessionStepDoes DEF rowVars
<1>2. \A v \in Turns \ {u} :
        Course(v)' /\ Recorded(v)' /\ (Wrote(v) => Wrote(v)')
  BY <1>1 DEF SessionDoes, Alone, Courses, Course, Recorded, Committing, Wrote
<1>3. ~Wrote(u)
  BY <1>1 DEF SessionDoes, Alone, Wrote
<1> QED
  BY <1>1, <1>2, <1>3 DEF SessionDoes, Courses, TypeOK, EnrollmentTypes

LEMMA SessionEnrolled ==
  ASSUME TypeOK, Courses, Enrolled, NEW u \in Turns, SessionStep(u)
  PROVE  Enrolled' /\ TypeOK'
<1>1. /\ SessionDoes(u) /\ UNCHANGED <<turnVars, armVars, rowVars, pace>>
  BY SessionStepDoes
<1>2. \A v \in Turns \ {u} :
        ses'[v] = ses[v] /\ how'[v] = how[v] /\ proc'[v] = proc[v]
          /\ target'[v] = target[v]
  BY <1>1 DEF SessionDoes, Alone
<1>3. /\ ~Committing(u) /\ ~Committing(u)' /\ ~Wrote(u)
  BY <1>1 DEF SessionDoes, Alone, Committing, Wrote
<1>4. /\ UNCHANGED <<armed, profiles, samples, cands, outlier>>
      /\ armed.ids \subseteq Turns /\ cands \in [Turns -> SUBSET Turns]
      /\ \A v \in Turns : outlier[v] # 0 => outlier[v] \in Turns
  BY <1>1, ArmedAt, Numbers DEF armVars, rowVars, TypeOK, EnrollmentTypes
<1>5. \A s \in Turns, p \in Profile : CountedFor(s, p) => CountedFor(s, p)'
  BY <1>2, <1>3 DEF CountedFor, Wrote
<1>6. \A v \in Turns : Committing(v)' => v # u /\ Committing(v)
  BY <1>2, <1>3 DEF Committing
<1>7. \A v \in Turns : Reviewing(v)' <=> Reviewing(v)
  BY <1>2, <1>3 DEF Committing, Reviewing
<1>8. \A v \in Turns : ReviewOf(v)'
  <2> SUFFICES ASSUME NEW v \in Turns PROVE ReviewOf(v)'
    OBVIOUS
  <2>1. CASE v = u
    BY <1>3, <2>1 DEF ReviewOf, Reviewing, Committing
  <2>2. CASE v # u
    <3>1. PICK p : p = target[v] /\ p \in Profile
      BY DEF TypeOK, SessionTypes
    <3>2. target'[v] = p /\ ses'[v] = ses[v]
      BY <1>2, <2>2, <3>1
    <3>3. \A o \in Turns : CountedFor(o, target[v]) => CountedFor(o, target[v])'
      BY <1>5, <3>1, <3>2 DEF CountedFor
    <3> QED
      BY <1>4, <1>7, <3>1, <3>2, <3>3 DEF Enrolled, ReviewOf, Short, Reviewing
  <2> QED
    BY <2>1, <2>2
<1>9. Tallied(armed)'
  <2>1. PICK a : a = armed /\ a.profile \in Profile
    BY ArmedAt DEF TypeOK, EnrollmentTypes
  <2>2. \A s \in a.ids : CountedFor(s, a.profile)'
    BY <1>4, <1>5, <2>1 DEF Enrolled, Tallied
  <2> QED
    BY <1>4, <2>1, <2>2 DEF Enrolled, Tallied
<1>10. OneCommit' /\ Missing'
  BY <1>2, <1>3, <1>4, <1>6 DEF Enrolled, OneCommit, Missing, Committing
<1>11. TypeOK'
  BY <1>1 DEF SessionDoes, armVars, rowVars, turnVars, pace, TypeOK, TalkTypes,
     EnrollmentTypes
<1> QED
  BY <1>4, <1>7, <1>8, <1>9, <1>10, <1>11 DEF Enrolled, Short

-----------------------------------------------------------------------------
(* The administrator                                                       *)

\* The enrollment goes, is replaced, or stays; of the profiles at most one.
LEMMA AdminDoes ==
  ASSUME TypeOK, AdminStep
  PROVE  /\ armed' \in Enrollments /\ arming' \in Profile /\ arms' \in Nat
         /\ deleting' \in Profile /\ profiles' \subseteq profiles
         /\ \/ armed' = armed
            \/ /\ armed'.ids = {} /\ armed'.collected = 0
               /\ armed'.profile = NoProfile => armed' = NotArmed
               /\ armed' # NotArmed => armed'.asked > 0
               /\ armed'.replaced = 0
         /\ \/ UNCHANGED <<profiles, samples>>
            \/ \E p \in Profiles :
                 /\ profiles' = profiles \ {p} /\ deleting' = p
                 /\ samples' = {s \in samples : target[s] # p}
                 /\ armed' = armed
         /\ \/ UNCHANGED <<cache, fresh, rows>>
            \/ cache' = NoCache /\ fresh' = {} /\ rows' = rows
         /\ deleting # NoProfile /\ deleting' = NoProfile =>
              cache' = NoCache /\ fresh' = {}
<1>0. NoProfile \in Profile
  BY DEF Profile
<1>1. CASE \E p \in Profiles : RequestArm(p)
  BY <1>0, <1>1 DEF RequestArm, cacheVars, Profile, TypeOK, EnrollmentTypes
<1>2. CASE \E n \in 1..MaxTarget : Arm(n)
  <2>1. PICK n \in 1..MaxTarget : Arm(n)
    BY <1>2
  <2>2. PICK p : p = arming
    OBVIOUS
  <2>3. /\ armed' = [NotArmed EXCEPT !.profile = p, !.asked = n]
        /\ p \in Profile /\ p # NoProfile /\ n \in Nat /\ n > 0
    BY <2>1, <2>2, Numbers DEF Arm, TypeOK, EnrollmentTypes
  <2>4. /\ armed' \in Enrollments /\ armed'.profile = p /\ armed'.asked = n
        /\ armed'.ids = {} /\ armed'.collected = 0 /\ armed'.replaced = 0
    BY <2>3, Numbers DEF NotArmed, Enrollments
  <2> QED
    BY <1>0, <2>1, <2>3, <2>4 DEF Arm, cacheVars, TypeOK, EnrollmentTypes
<1>3. CASE Disarm
  BY <1>0, <1>3, Numbers DEF Disarm, cacheVars, Profile, TypeOK, EnrollmentTypes
<1>4. CASE \E p \in Profiles : DeleteProfile(p)
  BY <1>0, <1>4 DEF DeleteProfile, cacheVars, armVars, Profile, TypeOK,
     EnrollmentTypes
<1>5. CASE FinishDelete
  BY <1>0, <1>5, Numbers DEF FinishDelete, Disarmed, Invalidate, Profile,
     TypeOK, EnrollmentTypes
<1> QED
  BY <1>1, <1>2, <1>3, <1>4, <1>5 DEF AdminStep

LEMMA AdminEnrolls ==
  ASSUME TypeOK, Courses, Enrolled, AdminStep
  PROVE  Enrolled' /\ TypeOK' /\ Courses'
<1>0. UNCHANGED <<storeVars, turnVars, sesVars, cands, outlier, recVars, pace>>
  BY AdminFrame
<1>1. /\ armed' \in Enrollments /\ arming' \in Profile /\ arms' \in Nat
      /\ deleting' \in Profile /\ profiles' \subseteq profiles
      /\ \/ armed' = armed
         \/ /\ armed'.ids = {} /\ armed'.collected = 0
            /\ armed'.profile = NoProfile => armed' = NotArmed
            /\ armed' # NotArmed => armed'.asked > 0
            /\ armed'.replaced = 0
      /\ \/ UNCHANGED <<profiles, samples>>
         \/ \E p \in Profiles :
              /\ profiles' = profiles \ {p} /\ deleting' = p
              /\ samples' = {s \in samples : target[s] # p}
              /\ armed' = armed
      /\ \/ UNCHANGED <<cache, fresh, rows>>
         \/ cache' = NoCache /\ fresh' = {} /\ rows' = rows
  BY AdminDoes
<1>2. samples' \subseteq samples
  BY <1>1
<1>3. TypeOK'
  <2>1. CacheTypes'
    BY <1>1 DEF TypeOK, CacheTypes
  <2>2. EnrollmentTypes'
    BY <1>0, <1>1, <1>2 DEF TypeOK, EnrollmentTypes
  <2> QED
    BY <1>0, <2>1, <2>2 DEF TypeOK, TalkTypes, SessionTypes, RecordTypes,
       storeVars, turnVars, sesVars, recVars, pace
<1>4. Courses'
  BY <1>0, <1>2 DEF Courses, Course, Recorded, Wrote, Committing, sesVars,
     recVars
<1>5. /\ UNCHANGED <<ses, how, proc, target>>
      /\ \A s, p : CountedFor(s, p) => CountedFor(s, p)'
  BY <1>0 DEF sesVars, CountedFor, Wrote
<1>6. Tallied(armed)'
  <2>1. CASE armed' = armed
    BY <1>5, <2>1 DEF Enrolled, Tallied, CountedFor, Wrote
  <2>2. CASE armed' # armed
    BY <1>1, <2>2, FS_EmptySet DEF Tallied, Enrollments
  <2> QED
    BY <2>1, <2>2
<1>7. /\ Short(armed) => Short(armed)'
      /\ armed' # armed => Short(armed)' /\ armed'.replaced = 0
  BY <1>1 DEF Short, Enrollments
<1>8. \A u \in Turns : Reviewing(u) => 0 < MaxReplaced
  BY ArmedAt, Numbers DEF Enrolled, ReviewOf, TypeOK, EnrollmentTypes
<1>9. \A u \in samples : target[u] \in profiles =>
        u \in samples' \/ target[u] \notin profiles'
  BY <1>1
<1>10. \A u \in Turns : ReviewOf(u)'
  BY <1>0, <1>1, <1>5, <1>7, <1>8, <1>9 DEF Enrolled, ReviewOf, Reviewing,
     CountedFor, Wrote
<1>11. Missing'
  <2>1. CASE armed' = armed
    <3>1. armed.profile \in profiles' =>
            armed.ids \ samples' \subseteq armed.ids \ samples
      BY <1>1, <2>1 DEF Enrolled, Tallied, CountedFor
    <3> QED
      BY <1>0, <1>1, <1>5, <2>1, <3>1 DEF Enrolled, Missing
  <2>2. CASE armed' # armed
    BY <1>1, <2>2 DEF Missing
  <2> QED
    BY <2>1, <2>2
<1>12. OneCommit'
  BY <1>5 DEF Enrolled, OneCommit, Committing
<1>13. (\A u \in Turns : ~Reviewing(u)') => Short(armed)'
  BY <1>5, <1>7 DEF Enrolled, Reviewing
<1> QED
  BY <1>3, <1>4, <1>6, <1>10, <1>11, <1>12, <1>13 DEF Enrolled

-----------------------------------------------------------------------------
(* Recordings                                                              *)

LEMMA RecordCourses ==
  ASSUME TypeOK, Courses, NEW u \in Turns, RecordStep(u)
  PROVE  Courses' /\ TypeOK'
<1>0. UNCHANGED <<storeVars, turnVars, sesVars, armVars, rowVars, cacheVars,
                  pace>>
  BY RecordFrame
<1>1. RecordTypes'
  BY DEF RecordStep, StoreFile, StoreSkips, StoreRow, StoreRowFails, StoreUndo,
     DropRow, DropFile, DropFails, StoreTo, TypeOK, RecordTypes
<1>2. TypeOK'
  BY <1>0, <1>1 DEF TypeOK, TalkTypes, SessionTypes, EnrollmentTypes,
     CacheTypes, storeVars, turnVars, sesVars, armVars, rowVars, cacheVars,
     pace
<1>3. \A v \in Turns \ {u} :
        /\ store'[v] = store[v] /\ drop'[v] = drop[v]
        /\ v \in files' <=> v \in files
        /\ v \in records' <=> v \in records
        /\ v \in undeleted => v \in undeleted'
  BY DEF RecordStep, StoreFile, StoreSkips, StoreRow, StoreRowFails, StoreUndo,
     DropRow, DropFile, DropFails, StoreTo, TypeOK, RecordTypes
<1>4. UNCHANGED <<ses, how, proc, target, pending, samples>>
  BY <1>0 DEF sesVars, rowVars
<1>5. \A v \in Turns \ {u} : Recorded(v)'
  BY <1>3, <1>4 DEF Courses, Recorded
<1>6. Recorded(u)'
  <2>0. Recorded(u)
    BY DEF Courses
  <2>1. CASE StoreFile(u) \/ StoreSkips(u)
    BY <1>4, <2>0, <2>1 DEF StoreFile, StoreSkips, StoreTo, Recorded, TypeOK,
       RecordTypes
  <2>2. CASE StoreRow(u) \/ StoreRowFails(u) \/ StoreUndo(u)
    BY <1>4, <2>0, <2>2 DEF StoreRow, StoreRowFails, StoreUndo, StoreTo,
       Recorded, TypeOK, RecordTypes
  <2>3. CASE DropRow(u) \/ DropFile(u) \/ DropFails(u)
    BY <1>4, <2>0, <2>3 DEF DropRow, DropFile, DropFails, Recorded, TypeOK,
       RecordTypes
  <2> QED
    BY <2>1, <2>2, <2>3 DEF RecordStep
<1>7. \A v \in Turns : Course(v)' /\ (Wrote(v) => Wrote(v)')
  BY <1>4 DEF Courses, Course, Wrote, Committing
<1> QED
  BY <1>2, <1>4, <1>5, <1>6, <1>7 DEF Courses, TypeOK, EnrollmentTypes
-----------------------------------------------------------------------------
(* Pace and turns leave the sessions alone                                 *)

LEMMA OthersKeep ==
  ASSUME TypeOK, Courses, Enrolled,
         UNCHANGED <<sesVars, armVars, rowVars, cacheVars, recVars>>
  PROVE  /\ Courses' /\ Enrolled'
         /\ SessionTypes' /\ EnrollmentTypes' /\ CacheTypes' /\ RecordTypes'
  BY CoursesFrame, EnrolledFrame DEF sesVars, armVars, rowVars, cacheVars,
     recVars, TypeOK, SessionTypes, EnrollmentTypes, CacheTypes, RecordTypes

LEMMA PaceTyped ==
  ASSUME TypeOK, Speak \/ Purge
  PROVE  TalkTypes'
<1>1. CASE Speak
  <2>1. cur' \in Utterance /\ interrupted' \subseteq Turns
    BY <1>1, Numbers DEF Speak, TypeOK, TalkTypes, Turns, Utterance
  <2> QED
    BY <1>1, <2>1 DEF Speak, TypeOK, TalkTypes, storeVars, turnVars
<1>2. CASE Purge
  <2>1. /\ entry \in Utterance /\ entry # 0 /\ Discarded(entry)
        /\ TalkTypes
    BY <1>2, Numbers DEF Purge, TypeOK, TalkTypes
  <2>2. released' \in SUBSET Turns /\ entry' \in Utterance
    BY <2>1, DiscardedKeeps, Numbers
  <2>3. expired' \subseteq Turns
    BY <1>2, Numbers DEF Purge, TypeOK, TalkTypes, SessionTypes
  <2> QED
    BY <1>2, <2>2, <2>3 DEF Purge, TypeOK, TalkTypes, turnVars
<1> QED
  BY <1>1, <1>2

LEMMA TurnTyped ==
  ASSUME TypeOK, NEW t \in Turns, TurnDoes(t), UNCHANGED <<result, pace>>
  PROVE  TalkTypes'
<1>0. /\ TalkTypes /\ marked \subseteq Turns
      /\ UNCHANGED <<result, cur, interrupted, expired>>
  BY DEF TypeOK, SessionTypes, pace
<1>1. /\ entry' \in Utterance /\ released' \subseteq Turns
      /\ known' \subseteq Turns /\ looked' \subseteq Turns
      /\ carried' \subseteq Turns /\ taken' \subseteq Turns
  BY <1>0, Numbers DEF TurnDoes, Touches, TalkTypes
<1>2. \E pc \in {"prelude", "config", "wait", "reply", "over"},
         h \in Utterance, g \in Utterance : Goes(t, pc, h, g)
  <2>1. CASE MovesOn(t)
    BY <1>0, <2>1 DEF MovesOn, TalkTypes
  <2>2. CASE Waits(t)
    BY <1>0, <2>2 DEF Waits, TalkTypes
  <2>3. CASE Leaves(t)
    BY <1>0, <2>3, Numbers DEF Leaves, TalkTypes
  <2> QED
    BY <2>1, <2>2, <2>3 DEF TurnDoes
<1>3. /\ turn' \in [Turns -> {"none", "prelude", "config", "wait", "reply",
                              "over"}]
      /\ hold' \in [Turns -> Utterance] /\ got' \in [Turns -> Utterance]
  BY <1>0, <1>2 DEF Goes, TalkTypes
<1> QED
  BY <1>0, <1>1, <1>3 DEF TalkTypes

-----------------------------------------------------------------------------
(* Cached                                                                  *)

LEMMA CachedStays ==
  ASSUME TypeOK, Courses, Enrolled, Cached, Heard, [Next]_vars
  PROVE  Cached'
<1>1. ASSUME UNCHANGED <<sesVars, rowVars, cacheVars>>
      PROVE  Cached'
  BY <1>1 DEF Cached, sesVars, rowVars, cacheVars
<1>2. ASSUME NEW u \in Turns, SessionStep(u)
      PROVE  Cached'
  <2>1. /\ SessionDoes(u) /\ UNCHANGED <<samples, deleting>>
    BY <1>2, SessionStepDoes DEF rowVars
  <2>2. CASE \E v \in Turns : ses[v] \in {"count", "replace"}
    <3>1. \E v \in Turns : ses'[v] \in {"count", "replace"}
      BY <2>1, <2>2 DEF SessionDoes, Alone
    <3> QED
      BY <3>1 DEF Cached
  <2>3. CASE deleting # NoProfile
    BY <2>1, <2>3 DEF Cached
  <2>4. CASE /\ cache \in {NoCache, samples}
             /\ \A v \in fresh : proc[v] = "read" => rows[v] = samples
    <3>1. cache' \in {NoCache, samples'}
      BY <2>1, <2>4 DEF SessionDoes, Uses
    <3>2. \A v \in fresh' : proc'[v] = "read" => rows'[v] = samples'
      BY <2>1, <2>4 DEF SessionDoes, Uses, Alone, CacheTypes
    <3> QED
      BY <3>1, <3>2 DEF Cached
  <2> QED
    BY <2>2, <2>3, <2>4 DEF Cached
<1>3. ASSUME NEW u \in Turns, CommitStep(u)
      PROVE  Cached'
  <2>1. CommitDoes(u) /\ <<ses[u], ses'[u]>> \in Follows
    BY <1>3, CommitStepDoes, CommitsAlone DEF Enrolled
  <2>2. /\ UNCHANGED <<proc, deleting>>
        /\ \A v \in Turns \ {u} : ses[v] \notin {"count", "replace"}
    BY <2>1, CommitsAlone DEF CommitDoes, Enrolled, Committing
  <2>3. CASE ses'[u] \in {"count", "replace"}
    BY <2>3 DEF Cached
  <2>4. CASE ses[u] \in {"count", "replace"}
    BY <2>1, <2>4 DEF CommitDoes, Cached
  <2>5. CASE /\ ses'[u] \notin {"count", "replace"}
             /\ ses[u] \notin {"count", "replace"}
    <3>1. samples' = samples
      BY <2>1, <2>5 DEF CommitDoes
    <3>2. \/ deleting # NoProfile
          \/ /\ cache \in {NoCache, samples}
             /\ \A v \in fresh : proc[v] = "read" => rows[v] = samples
      BY <2>2, <2>5 DEF Cached
    <3>3. \/ UNCHANGED <<cache, fresh, rows>>
          \/ cache' = NoCache /\ fresh' = {}
      BY <2>1 DEF CommitDoes, cacheVars
    <3> QED
      BY <2>2, <3>1, <3>2, <3>3 DEF Cached
  <2> QED
    BY <2>3, <2>4, <2>5
<1>4. ASSUME AdminStep
      PROVE  Cached'
  <2>1. UNCHANGED <<ses, proc>>
    BY <1>4, AdminFrame DEF sesVars
  <2>2. /\ \/ UNCHANGED <<profiles, samples>>
           \/ deleting' # NoProfile
        /\ \/ UNCHANGED <<cache, fresh, rows>>
           \/ cache' = NoCache /\ fresh' = {}
        /\ deleting # NoProfile /\ deleting' = NoProfile =>
             cache' = NoCache /\ fresh' = {}
    BY <1>4, AdminDoes, Numbers
  <2> QED
    BY <2>1, <2>2 DEF Cached
<1> QED
  BY <1>1, <1>2, <1>3, <1>4, NextSteps, PaceFrame, TurnFrame, RecordFrame
     DEF vars
-----------------------------------------------------------------------------
(* Heard                                                                   *)

\* Steps that neither tell nor ask the store anything.
LEMMA SilentKeeps ==
  ASSUME Heard, UNCHANGED <<storeVars, turnVars, pace>>,
         \A u \in Turns : ses'[u] = "off" <=> ses[u] = "off",
         entry \in Utterance, hold \in [Turns -> Utterance]
  PROVE  Heard'
<1>1. UNCHANGED <<cur, entry, result, turn, hold, got, looked, carried,
                  interrupted>>
  BY DEF storeVars, turnVars, pace
<1>2. Entries' /\ Overtaken'
  BY <1>1, Numbers DEF Heard, Entries, Overtaken
<1>3. \A t \in Turns : Holding(t)'
  BY <1>1, Numbers DEF Heard, Holding
<1>4. \A t \in Turns : Hears(t, hold[t])' /\ Hears(t, got[t])'
  BY <1>1 DEF Heard, Hears
<1> QED
  BY <1>2, <1>3, <1>4 DEF Heard

LEMMA PaceHeard ==
  ASSUME TypeOK, Heard, Speak \/ Purge
  PROVE  Heard'
<1>0. /\ UNCHANGED <<result, turn, hold, got, looked, carried, ses>>
      /\ TalkTypes
  BY PaceFrame DEF turnVars, sesVars, TypeOK
<1>1. CASE Speak
  <2>1. /\ cur' = cur + 1 /\ entry' = entry /\ cur \in Nat
        /\ interrupted \subseteq interrupted'
        /\ cur \in Turns /\ turn[cur] # "over" => cur \in interrupted'
        /\ \A u \in Turns : u \in Nat
    BY <1>0, <1>1, Numbers DEF Speak, storeVars, TalkTypes
  <2>2. Entries' /\ Overtaken'
    BY <1>0, <2>1 DEF Heard, Entries, Overtaken
  <2>3. \A t \in Turns : Holding(t)' /\ Hears(t, hold[t])' /\ Hears(t, got[t])'
    BY <1>0, <2>1 DEF Heard, Holding, Hears
  <2> QED
    BY <2>2, <2>3 DEF Heard
<1>2. CASE Purge
  <2>1. entry' = 0 /\ UNCHANGED <<cur, interrupted>>
    BY <1>0, <1>2, DiscardedKeeps DEF Purge, TalkTypes
  <2>2. Entries' /\ Overtaken'
    BY <1>0, <2>1, Numbers DEF Heard, Entries, Overtaken
  <2>3. \A t \in Turns : Holding(t)' /\ Hears(t, hold[t])' /\ Hears(t, got[t])'
    BY <1>0, <2>1, Numbers DEF Heard, Holding, Hears
  <2> QED
    BY <2>2, <2>3 DEF Heard
<1> QED
  BY <1>1, <1>2

LEMMA SessionHeard ==
  ASSUME TypeOK, Courses, Heard, NEW u \in Turns, SessionStep(u)
  PROVE  Heard'
<1>0. /\ UNCHANGED <<cur, turn, hold, got, looked, carried, interrupted>>
      /\ Alone(u) /\ Tells(u) /\ TalkTypes
      /\ cur \in Nat /\ \A v \in Turns : v \in Nat
  BY SessionStepDoes, Numbers DEF SessionDoes, turnVars, pace, TypeOK, TalkTypes
<1>1. \A v \in Turns : ses'[v] = "off" => ses[v] = "off"
  BY <1>0 DEF Alone
<1>2. Entries'
  <2>1. \A v \in Turns : ses[v] # "off" => v <= cur
    BY <1>0 DEF Heard, Entries
  <2>2. CASE ses[u] = "off" /\ u = cur /\ entry' = u /\ result' = result
    BY <1>0, <1>1, <2>1, <2>2, Numbers DEF Heard, Entries, Alone
  <2>3. CASE /\ ses[u] # "off" /\ entry' \in {entry, 0}
             /\ \/ result' = result
                \/ result' = [result EXCEPT ![u] = u]
    <3>1. \A v \in Turns : ses'[v] = "off" <=> ses[v] = "off"
      BY <1>0, <2>3 DEF Alone
    <3>2. \A v \in Turns : result'[v] \in {result[v], v}
                             /\ (result'[v] # result[v] => v = u)
      BY <1>0, <2>3 DEF TalkTypes
    <3>3. entry' # 0 => entry' = entry /\ entry \in Turns
      BY <1>0, <2>3, Numbers DEF TalkTypes
    <3> QED
      BY <1>0, <2>3, <3>1, <3>2, <3>3 DEF Heard, Entries
  <2> QED
    BY <1>0, <2>2, <2>3 DEF Tells
<1>3. Overtaken'
  BY <1>0 DEF Heard, Overtaken
<1>4. \A t \in Turns : Holding(t)'
  <2>1. \A t \in Turns : t \in looked /\ entry' = t => entry = t
    BY <1>0, Numbers DEF Tells, Heard, Holding
  <2>2. \A t \in Turns : hold[t] # 0 => hold[t] \in Turns
    BY <1>0, Numbers DEF TalkTypes
  <2> QED
    BY <1>0, <1>1, <2>1, <2>2 DEF Heard, Holding
<1>5. \A t \in Turns : Hears(t, hold[t])' /\ Hears(t, got[t])'
  BY <1>0 DEF Heard, Hears
<1> QED
  BY <1>2, <1>3, <1>4, <1>5 DEF Heard

LEMMA TurnHeard ==
  ASSUME TypeOK, Heard, NEW t \in Turns, TurnDoes(t),
         UNCHANGED <<result, sesVars, pace>>
  PROVE  Heard'
<1>0. /\ TalkTypes /\ Touches(t) /\ Holding(t)
      /\ UNCHANGED <<result, ses, cur, interrupted>>
      /\ cur \in Nat /\ \A v \in Turns : v \in Nat
  BY Numbers DEF TurnDoes, TypeOK, TalkTypes, sesVars, pace, Heard
<1>1. /\ turn[t] # "over" /\ (turn[t] = "none" => t = cur)
      /\ turn'[t] # "none"
      /\ \A v \in Turns \ {t} :
           turn'[v] = turn[v] /\ hold'[v] = hold[v] /\ got'[v] = got[v]
  BY <1>0 DEF TurnDoes, MovesOn, Waits, Leaves, Goes, TalkTypes
<1>2. t <= cur /\ (turn[t] # "none" \/ t = cur)
  BY <1>0, <1>1 DEF Heard, Entries
<1>3. /\ entry' \in {entry, 0} /\ looked' \in {looked, looked \cup {t}}
      /\ carried' \in {carried, carried \cup {t}}
      /\ t \in looked' \ looked =>
           ses[t] # "off" /\ turn[t] \in {"none", "prelude", "config"}
  BY <1>0 DEF Touches
<1>4. Entries'
  <2>1. entry' # 0 => entry' = entry /\ entry \in Turns
    BY <1>0, <1>3, Numbers DEF TalkTypes
  <2> QED
    BY <1>0, <1>1, <1>2, <1>3, <2>1 DEF Heard, Entries
<1>5. Overtaken'
  BY <1>0, <1>1, <1>2 DEF Heard, Overtaken
<1>6. \A v \in Turns \ {t} : Holding(v)'
  <2>1. \A v \in Turns \ {t} : /\ v \in looked' <=> v \in looked
                               /\ v \in carried' <=> v \in carried
                               /\ hold[v] # 0 => hold[v] \in Turns
    BY <1>0, <1>3, Numbers DEF TalkTypes
  <2> QED
    BY <1>0, <1>1, <1>3, <2>1, Numbers DEF Heard, Holding
<1>7. \A v \in Turns \ {t} : Hears(v, hold[v])' /\ Hears(v, got[v])'
  <2> SUFFICES ASSUME NEW v \in Turns \ {t}, NEW x \in Utterance,
                      x = hold[v] \/ x = got[v]
               PROVE  Hears(v, x)'
    BY <1>0, <1>1 DEF TalkTypes
  <2>1. Hears(v, x) /\ x \in Nat /\ v \in Nat
    BY <1>0, Numbers DEF Heard
  <2>2. v \in looked' <=> v \in looked
    BY <1>3
  <2>3. ASSUME x = t, x < v
        PROVE  x \in interrupted
    <3>1. turn[v] # "none"
      BY <2>3, Numbers DEF Heard, Holding
    <3>2. v <= cur
      BY <1>0, <3>1 DEF Heard, Entries
    <3> QED
      BY <1>0, <1>1, <2>1, <2>3, <3>2 DEF Heard, Overtaken
  <2> QED
    BY <1>0, <1>3, <2>1, <2>2, <2>3 DEF Hears
<1>8. entry # 0 => \A x : x = entry => Hears(t, x)'
  <2>1. ASSUME entry # 0
        PROVE  \/ /\ entry < t /\ t \notin looked'
                  /\ entry \notin looked' \/ entry \in interrupted
               \/ entry = t
               \/ entry > t /\ t \in interrupted
    <3>0. entry \in Turns /\ entry \in Nat /\ t \in Nat /\ cur \in Nat
      BY <1>0, <2>1, Numbers DEF TalkTypes
    <3>1. entry <= cur
      BY <1>0, <2>1, <3>0 DEF Heard, Entries
    <3>2. CASE entry < t
      <4>1. ses[t] = "off"
        BY <2>1, <3>0, <3>2 DEF Heard, Entries
      <4>2. t \notin looked'
        BY <1>0, <1>3, <4>1 DEF Holding
      <4>3. entry \in looked' => entry \in looked
        BY <1>3, <3>0, <3>2
      <4>4. entry \in looked => hold[entry] = entry /\ turn[entry] # "over"
        BY <2>1, <3>0 DEF Heard, Holding
      <4> QED
        BY <1>2, <3>0, <3>2, <4>2, <4>3, <4>4 DEF Heard, Overtaken
    <3>3. CASE entry > t
      BY <1>1, <3>0, <3>1, <3>3 DEF Heard, Overtaken
    <3> QED
      BY <3>0, <3>2, <3>3
  <2> QED
    BY <1>0, <2>1 DEF Hears
<1>9. hold[t] # 0 => Hears(t, hold[t]) /\ looked' = looked
  BY <1>0, <1>3 DEF Heard, Holding
<1>10. /\ result[entry] \in {0, entry} \/ entry = 0
       /\ result[hold[t]] \in {0, hold[t]} \/ hold[t] = 0
  BY <1>0, Numbers DEF Heard, Entries, TalkTypes
<1>11. CASE MovesOn(t)
  <2>1. /\ hold'[t] = 0 /\ got'[t] = 0 /\ turn'[t] \in {"prelude", "config"}
        /\ t \notin looked' /\ t \notin carried'
    BY <1>0, <1>11 DEF MovesOn, Goes, Holding, TalkTypes
  <2>2. Holding(t)' /\ Hears(t, hold[t])' /\ Hears(t, got[t])'
    BY <2>1 DEF Holding, Hears
  <2> QED
    BY <1>4, <1>5, <1>6, <1>7, <2>2 DEF Heard
<1>12. CASE Waits(t)
  <2>1. /\ hold'[t] = entry /\ got'[t] = 0 /\ turn'[t] \in {"wait", "reply"}
        /\ t \notin carried' /\ entry # 0 /\ entry' = entry
        /\ t \notin looked
    BY <1>0, <1>12 DEF Waits, Goes, Holding, TalkTypes
  <2>2. Holding(t)'
    BY <1>0, <1>3, <2>1 DEF Holding, Heard, Entries
  <2>3. Hears(t, hold[t])' /\ Hears(t, got[t])'
    BY <1>8, <2>1 DEF Hears
  <2> QED
    BY <1>4, <1>5, <1>6, <1>7, <2>2, <2>3 DEF Heard
<1>13. CASE Leaves(t)
  <2>1. /\ hold'[t] = 0 /\ turn'[t] = "over"
        /\ \/ got'[t] = 0
           \/ got'[t] = result[hold[t]] /\ hold[t] # 0
           \/ got'[t] = result[entry] /\ entry # 0
        /\ looked' = looked \/ entry' = 0
        /\ turn[t] \in {"wait", "reply"} => entry' # hold[t] \/ entry' = 0
    BY <1>0, <1>13 DEF Leaves, Goes, Holding, TalkTypes
  <2>2. Holding(t)'
    BY <1>0, <1>1, <1>3, <2>1, Numbers DEF Holding
  <2>3. Hears(t, hold[t])' /\ Hears(t, got[t])'
    BY <1>0, <1>8, <1>9, <1>10, <2>1 DEF Hears
  <2> QED
    BY <1>4, <1>5, <1>6, <1>7, <2>2, <2>3 DEF Heard
<1> QED
  BY <1>11, <1>12, <1>13 DEF TurnDoes
-----------------------------------------------------------------------------
(* Spared                                                                  *)

LEMMA SilentSpares ==
  ASSUME Spared, Known, UNCHANGED <<storeVars, turnVars, pace, marked, how>>,
         \A u \in Turns : ses'[u] = "off" => ses[u] = "off",
         marked \subseteq Turns
  PROVE  Spared' /\ Known'
<1>1. UNCHANGED <<cur, entry, turn, known, carried, taken, expired, marked,
                  how>>
  BY DEF storeVars, turnVars, pace
<1> QED
  BY <1>1 DEF Spared, Known, Missed

LEMMA PaceSpares ==
  ASSUME TypeOK, Heard, Spared, Known, Speak \/ Purge
  PROVE  Spared' /\ Known'
<1>0. /\ UNCHANGED <<turn, known, carried, taken, marked, how, ses>>
      /\ TalkTypes /\ marked \subseteq Turns
  BY PaceFrame DEF turnVars, sesVars, TypeOK, SessionTypes
<1>1. CASE Speak
  <2>1. cur' = cur + 1 /\ UNCHANGED <<entry, expired>> /\ cur \in Nat
    BY <1>0, <1>1, Numbers DEF Speak, storeVars, TalkTypes
  <2>2. \A t \in marked : t # cur'
    BY <1>0, <2>1, Numbers DEF Heard, Entries, Spared
  <2> QED
    BY <1>0, <2>1, <2>2 DEF Spared, Known, Missed
<1>2. CASE Purge
  <2>1. /\ entry' = 0 /\ cur' = cur
        /\ expired' = expired \cup ({entry} \cap marked)
    BY <1>0, <1>2, DiscardedKeeps DEF Purge, TalkTypes
  <2> QED
    BY <1>0, <2>1 DEF Spared, Known, Missed
<1> QED
  BY <1>1, <1>2

LEMMA SessionSpares ==
  ASSUME TypeOK, Courses, Heard, Spared, Known, NEW u \in Turns, SessionStep(u)
  PROVE  Spared' /\ Known'
<1>0. /\ UNCHANGED <<cur, turn, known, carried, taken, expired>>
      /\ Alone(u) /\ Tells(u) /\ marked \subseteq Turns
      /\ how[u] \in {"void", "cut"} => how'[u] \in {"void", "cut"}
  BY SessionStepDoes DEF SessionDoes, turnVars, pace, TypeOK, SessionTypes
<1>1. \A t \in Turns : (ses'[t] = "off" => ses[t] = "off")
                         /\ (Missed(t) => Missed(t)')
  BY <1>0 DEF Alone, Missed
<1>2. known \subseteq marked
  BY DEF Known
<1>3. CASE /\ ses[u] = "off" /\ u = cur /\ entry' = u
           /\ marked' \in {marked, marked \cup {u}}
  <2>1. u \notin marked /\ ses'[u] # "off"
    BY <1>0, <1>3 DEF Alone, Spared
  <2> QED
    BY <1>0, <1>1, <1>2, <1>3, <2>1 DEF Spared, Known
<1>4. CASE /\ marked' = marked
           /\ entry' = entry \/ (entry = u /\ entry' = 0 /\ how'[u] = "void")
  <2>1. \A t \in marked : entry = t => entry' = t \/ Missed(t)'
    BY <1>0, <1>4 DEF Missed
  <2> QED
    BY <1>0, <1>1, <1>4, <2>1 DEF Spared, Known
<1> QED
  BY <1>0, <1>3, <1>4 DEF Tells

LEMMA TurnSpares ==
  ASSUME TypeOK, Heard, Spared, Known, NEW t \in Turns, TurnDoes(t),
         UNCHANGED <<result, sesVars, pace>>
  PROVE  Spared' /\ Known'
<1>0. /\ TalkTypes /\ Touches(t) /\ Holding(t) /\ marked \subseteq Turns
      /\ UNCHANGED <<ses, how, marked, cur, expired>>
  BY DEF TurnDoes, TypeOK, SessionTypes, sesVars, pace, Heard
<1>1. /\ turn[t] # "over" /\ (turn[t] = "none" => t = cur)
      /\ turn'[t] # "none"
      /\ \A v \in Turns \ {t} : turn'[v] = turn[v]
  BY <1>0 DEF TurnDoes, MovesOn, Waits, Leaves, Goes, TalkTypes
<1>2. /\ entry' \in {entry, 0}
      /\ taken \subseteq taken'
      /\ entry' # entry => ({entry} \cap marked) \ {t} \subseteq taken'
      /\ known' \in {known, known \cup ({t} \cap marked)}
      /\ turn[t] # "none" => known' = known
      /\ carried' \in {carried, carried \cup {t}}
  BY <1>0 DEF Touches
<1>3. \A v \in Turns : Missed(v) => Missed(v)'
  BY <1>0, <1>2 DEF Missed
<1>4. \A v \in marked \ {t} :
        /\ ses'[v] # "off"
        /\ turn'[v] = "none" /\ v = cur' => entry' = v \/ Missed(v)'
        /\ v \in known' /\ (turn'[v] \in {"prelude", "config", "wait"}
                              \/ v \in carried') => Missed(v)'
  <2> SUFFICES ASSUME NEW v \in marked, v # t
               PROVE  /\ ses'[v] # "off"
                      /\ turn'[v] = "none" /\ v = cur' =>
                           entry' = v \/ Missed(v)'
                      /\ v \in known' /\
                           (turn'[v] \in {"prelude", "config", "wait"}
                              \/ v \in carried') => Missed(v)'
    OBVIOUS
  <2>1. /\ turn'[v] = turn[v] /\ v \in Turns
        /\ v \in known' <=> v \in known
        /\ v \in carried' <=> v \in carried
    BY <1>0, <1>1, <1>2
  <2>2. entry = v => entry' = v \/ Missed(v)'
    BY <1>2 DEF Missed
  <2> QED
    BY <1>0, <1>3, <2>1, <2>2 DEF Spared
<1>5. ASSUME t \in marked, t \in known',
             turn'[t] \in {"prelude", "config", "wait"} \/ t \in carried'
      PROVE  Missed(t)
  <2>0. t \notin carried /\ 0 \notin Turns
    BY <1>0, <1>1, Numbers DEF Holding
  <2>1. CASE MovesOn(t)
    <3>1. /\ turn[t] \in {"none", "prelude"}
          /\ turn[t] = "none" => ~IsEnrollmentTurn
      BY <2>1 DEF MovesOn
    <3>2. CASE turn[t] = "none"
      BY <1>0, <1>1, <1>5, <2>0, <3>1, <3>2 DEF IsEnrollmentTurn, Spared
    <3>3. CASE turn[t] = "prelude"
      BY <1>2, <1>5, <3>3 DEF Spared
    <3> QED
      BY <3>1, <3>2, <3>3
  <2>2. CASE Waits(t)
    <3>1. turn'[t] = "wait" /\ turn[t] = "config"
      BY <1>0, <1>5, <2>0, <2>2 DEF Waits, Goes, TalkTypes
    <3> QED
      BY <1>2, <1>5, <3>1 DEF Spared
  <2>3. CASE Leaves(t)
    <3>1. turn'[t] = "over" /\ carried' # carried
      BY <1>0, <1>5, <2>0, <2>3 DEF Leaves, Goes, TalkTypes
    <3>2. turn[t] \in {"prelude", "config", "wait"}
      BY <2>3, <3>1 DEF Leaves
    <3> QED
      BY <1>2, <1>5, <3>2 DEF Spared
  <2> QED
    BY <2>1, <2>2, <2>3 DEF TurnDoes
<1>6. Spared'
  BY <1>0, <1>1, <1>3, <1>4, <1>5 DEF Spared
<1>7. Known'
  BY <1>0, <1>1, <1>2 DEF Known, TypeOK, TalkTypes
<1> QED
  BY <1>6, <1>7

-----------------------------------------------------------------------------
(* The invariant                                                           *)

LEMMA InitHolds == Init => IInv
<1> SUFFICES ASSUME Init PROVE IInv
  OBVIOUS
<1>1. TypeOK
  BY Numbers DEF Init, TypeOK, TalkTypes, SessionTypes, EnrollmentTypes,
     CacheTypes, RecordTypes, Profile
<1>2. Courses
  BY DEF Init, Courses, Course, Recorded, Committing
<1>3. Enrolled
  BY NotArmedTallied, Numbers DEF Init, Enrolled, OneCommit, Committing,
     Missing, ReviewOf, Reviewing
<1>4. Cached
  BY DEF Init, Cached
<1>5. Heard
  BY Numbers DEF Init, Heard, Entries, Overtaken, Holding, Hears
<1>6. Spared /\ Known
  BY DEF Init, Spared, Known
<1> QED
  BY <1>1, <1>2, <1>3, <1>4, <1>5, <1>6 DEF IInv

LEMMA StepKeeps == IInv /\ [Next]_vars => IInv'
<1> SUFFICES ASSUME IInv, [Next]_vars PROVE IInv'
  OBVIOUS
<1>0. /\ TypeOK /\ Courses /\ Enrolled /\ Cached /\ Heard /\ Spared /\ Known
      /\ TalkTypes /\ SessionTypes /\ marked \subseteq Turns
      /\ entry \in Utterance /\ hold \in [Turns -> Utterance]
  BY DEF IInv, TypeOK, TalkTypes, SessionTypes
<1>1. Cached'
  BY <1>0, CachedStays
<1>2. ASSUME Speak \/ Purge
      PROVE  IInv'
  <2>1. /\ TypeOK' /\ Courses' /\ Enrolled'
    BY <1>0, <1>2, PaceFrame, PaceTyped, OthersKeep DEF TypeOK
  <2> QED
    BY <1>0, <1>1, <1>2, <2>1, PaceHeard, PaceSpares DEF IInv
<1>3. ASSUME NEW t \in Turns, TurnStep(t)
      PROVE  IInv'
  <2>1. /\ TurnDoes(t)
        /\ UNCHANGED <<result, sesVars, armVars, rowVars, cacheVars, recVars,
                       pace>>
    BY <1>0, <1>3, TurnStepDoes
  <2>2. /\ TypeOK' /\ Courses' /\ Enrolled'
    BY <1>0, <2>1, TurnTyped, OthersKeep DEF TypeOK
  <2> QED
    BY <1>0, <1>1, <2>1, <2>2, TurnHeard, TurnSpares DEF IInv
<1>4. ASSUME NEW u \in Turns, SessionStep(u)
      PROVE  IInv'
  BY <1>0, <1>1, <1>4, SessionCourses, SessionEnrolled, SessionHeard,
     SessionSpares DEF IInv
<1>5. ASSUME NEW u \in Turns, CommitStep(u)
      PROVE  IInv'
  <2>1. /\ Enrolled' /\ TypeOK' /\ Courses'
        /\ UNCHANGED <<storeVars, turnVars, pace, marked, how>>
    BY <1>0, <1>5, CommitStepEnrolls, CommitFrame
  <2>2. \A v \in Turns : ses'[v] = "off" <=> ses[v] = "off"
    <3>1. /\ \A v \in Turns \ {u} : ses'[v] = ses[v]
          /\ <<ses[u], ses'[u]>> \in Follows
      BY <1>0, <1>5, CommitStepDoes, CommitsAlone DEF Enrolled
    <3> QED
      BY <3>1 DEF Follows
  <2> QED
    BY <1>0, <1>1, <2>1, <2>2, SilentKeeps, SilentSpares DEF IInv
<1>6. ASSUME AdminStep
      PROVE  IInv'
  <2>1. /\ Enrolled' /\ TypeOK' /\ Courses'
        /\ UNCHANGED <<storeVars, turnVars, pace, marked, how, ses>>
    BY <1>0, <1>6, AdminEnrolls, AdminFrame DEF sesVars
  <2> QED
    BY <1>0, <1>1, <2>1, SilentKeeps, SilentSpares DEF IInv
<1>7. ASSUME NEW u \in Turns, RecordStep(u)
      PROVE  IInv'
  <2>1. /\ TypeOK' /\ Courses'
        /\ UNCHANGED <<storeVars, turnVars, pace, sesVars, armVars, rowVars>>
    BY <1>0, <1>7, RecordCourses, RecordFrame
  <2>2. UNCHANGED <<marked, ses, how, proc, target, armed, profiles, samples,
                    cands, outlier>>
    BY <2>1 DEF sesVars, armVars, rowVars
  <2>3. Enrolled'
    BY <1>0, <2>2, EnrolledFrame
  <2> QED
    BY <1>0, <1>1, <2>1, <2>2, <2>3, SilentKeeps, SilentSpares DEF IInv
<1>8. ASSUME UNCHANGED vars
      PROVE  IInv'
  <2>1. UNCHANGED <<storeVars, turnVars, sesVars, armVars, rowVars, cacheVars,
                    recVars, pace>>
    BY <1>8 DEF vars
  <2>2. UNCHANGED <<marked, how, ses>>
    BY <2>1 DEF sesVars
  <2>3. TypeOK' /\ Courses' /\ Enrolled'
    <3>1. TalkTypes'
      BY <1>0, <2>1 DEF TalkTypes, storeVars, turnVars, pace
    <3> QED
      BY <1>0, <2>1, <3>1, OthersKeep DEF TypeOK
  <2> QED
    BY <1>0, <1>1, <2>1, <2>2, <2>3, SilentKeeps, SilentSpares DEF IInv
<1> QED
  BY <1>2, <1>3, <1>4, <1>5, <1>6, <1>7, <1>8, NextSteps

LEMMA IInvAlways == Spec => []IInv
  BY InitHolds, StepKeeps, PTL DEF Spec

-----------------------------------------------------------------------------
(* Theorems                                                                *)

\* Every variable has its type.
THEOREM Typing == Spec => []TypeOK
<1>1. IInv => TypeOK
  BY DEF IInv
<1> QED
  BY <1>1, IInvAlways, PTL

\* A turn takes the result of its own session: SpeakerTurnStore keeps one
\* entry per conversation, whose token only its session has, and a turn that
\* waits stays with the entry it found.
THEOREM SpeakerOfOwnTurnAlways == Spec => []SpeakerOfOwnTurn
<1>1. IInv => SpeakerOfOwnTurn
  BY DEF IInv, Heard, Hears, SpeakerOfOwnTurn
<1> QED
  BY <1>1, IInvAlways, PTL

\* What is said while an enrollment is armed is not carried out, whatever
\* becomes of the enrollment: the marking is fixed in the entry by begin.
THEOREM MarkedTurnsSpared == Spec => []MarkedTurnsAreNotCarriedOut
<1>1. IInv => MarkedTurnsAreNotCarriedOut
  BY DEF IInv, Spared, Missed, MarkedTurnsAreNotCarriedOut
<1> QED
  BY <1>1, IInvAlways, PTL

\* An unconfirmed session leaves no sample and no recording, however its
\* tasks and those of the recording end.
THEOREM UnconfirmedLeaveNothing == Spec => []UnconfirmedLeavesNothing
<1>1. IInv => UnconfirmedLeavesNothing
  <2> SUFFICES ASSUME IInv, NEW u \in Turns, ses[u] = "over", how[u] # "end"
               PROVE  /\ u \notin samples
                      /\ \/ u \notin files \cup records
                         \/ store[u] # "done" \/ drop[u] \in {"wait", "file"}
                         \/ u \in undeleted \/ how[u] = "cut"
    BY DEF UnconfirmedLeavesNothing
  <2>1. Course(u) /\ Recorded(u) /\ (u \in samples => Wrote(u))
    BY DEF IInv, Courses
  <2>2. /\ how[u] \in {"void", "cut"}
        /\ drop[u] \in {"none", "wait", "file", "done"}
    BY <2>1 DEF IInv, TypeOK, SessionTypes, RecordTypes, Course
  <2> QED
    BY <2>1, <2>2 DEF Wrote, Recorded
<1> QED
  BY <1>1, IInvAlways, PTL

\* The count of an armed enrollment is that of its samples, and it never stays
\* armed without asking for one, though commits review and replace samples
\* while it is cancelled, re-armed or its profile deleted.
THEOREM EnrollmentCountsAlways == Spec => []EnrollmentCounts
<1>1. IInv => EnrollmentCounts
  <2>1. IInv /\ LockFree => Short(armed)
    BY DEF IInv, Enrolled, LockFree, Reviewing, Committing
  <2> QED
    BY <2>1 DEF IInv, Enrolled, Tallied, Short, Missing, EnrollmentCounts
<1> QED
  BY <1>1, IInvAlways, PTL

\* Voices are compared with the samples of the table, but between a write and
\* the invalidation that follows: a load that one overtook is not cached.
THEOREM CentroidsMatchAlways == Spec => []CentroidsMatchSamples
<1>1. IInv => CentroidsMatchSamples
  BY DEF IInv, Cached, CentroidsMatchSamples
<1> QED
  BY <1>1, IInvAlways, PTL
=============================================================================
