----------------------------- MODULE VoiceTurns -----------------------------
(***************************************************************************)
(* Who spoke: the voice sessions of one satellite (api/routes/voice.py),   *)
(* the store that hands their results to the conversation turns            *)
(* (voice/turn_store.py), and what a session may leave behind: a sample of *)
(* the armed enrollment (voice/enrollment.py, voice/service.py) or a       *)
(* recording (voice/recordings.py).                                        *)
(*                                                                         *)
(* The satellite's utterances 1..LastTurn belong to one conversation.      *)
(* Utterance u has a session, the copy of its audio on a socket of its     *)
(* own, and a conversation turn; the two reach the container on different  *)
(* ways, and either may never come.  A new utterance may interrupt the     *)
(* turn of the one before.  `entry` is the entry of the conversation in    *)
(* SpeakerTurnStore, named by the utterance whose session registered it,   *)
(* and 0 without one; a sample and a recording are named by their          *)
(* utterance too.                                                          *)
(*                                                                         *)
(* Left out: what is computed from the audio, scores, rejection counters,  *)
(* the link of a recording to a trace, its assignment to a profile by      *)
(* hand, its retention, and the deletion of single samples.                *)
(***************************************************************************)
EXTENDS Naturals, FiniteSets

CONSTANTS
  LastTurn,     \* bound: utterances
  Profiles,     \* voice profiles
  NoProfile,
  MaxTarget,    \* bound: samples an enrollment asks for
  MaxReplaced,  \* MAX_OUTLIER_REPLACEMENTS
  MaxArms       \* bound: enrollments started

ASSUME VoiceAssumption ==
  /\ LastTurn \in Nat /\ MaxTarget \in Nat \ {0}
  /\ MaxReplaced \in Nat /\ MaxArms \in Nat
  /\ NoProfile \notin Profiles

Turns == 1..LastTurn

VARIABLES
  \* The store and the conversation turns.
  cur,          \* the utterance being spoken or answered
  entry,        \* the entry of the conversation
  released,     \* entries removed over those who wait for them
  result,       \* whose result each entry object holds, 0 for none
  turn,         \* where each conversation turn is
  hold,         \* the entry object its pop waits for
  got,          \* whose result it took
  \* The sessions.
  ses,          \* where each session's loop is
  how,          \* how it ended
  proc,         \* where its analysis is (_process)
  marked,       \* sessions that started while an enrollment was armed
  target,       \* the profile its audio is analysed for
  pending,      \* sessions with a sample that `end` may confirm
  \* Enrollment and profiles.
  armed,        \* the armed enrollment
  arming,       \* the profile of a request that is about to arm
  arms,         \* enrollments started so far
  profiles,     \* rows of voice_profiles
  deleting,     \* a deleted profile that has not been disarmed yet
  samples,      \* rows of voice_samples
  cands,        \* samples the review of a commit may replace
  outlier,      \* the sample it decided to delete
  cache,        \* the samples behind the cached centroids, or NoCache
  fresh,        \* loads of the cache that began after the last invalidation
  rows,         \* the samples such a load read
  \* Recordings.
  store,        \* where the task that stores a recording is
  drop,         \* where the task that deletes it again is
  files,        \* audio files
  records,      \* rows of voice_turns
  \* History.
  known,        \* turns that came after their session had been marked
  looked,       \* turns that looked into the store after it had
  carried,      \* turns carried out by the agents
  interrupted,  \* turns that a later utterance overtook
  taken,        \* marked entries another turn than their own removed
  expired,      \* marked entries that outlived ENTRY_TTL_S
  undeleted     \* recordings whose deletion failed

storeVars == <<entry, released, result>>
turnVars == <<turn, hold, got, known, looked, carried, taken>>
sesVars == <<ses, how, proc, marked, target, pending>>
armVars == <<armed, arming, arms>>
rowVars == <<profiles, deleting, samples, cands, outlier>>
cacheVars == <<cache, fresh, rows>>
recVars == <<store, drop, files, records, undeleted>>
pace == <<cur, interrupted, expired>>
vars == <<storeVars, turnVars, sesVars, armVars, rowVars, cacheVars, recVars,
          pace>>

NoCache == {0}
NotArmed == [profile |-> NoProfile, asked |-> 0, collected |-> 0,
             ids |-> {}, replaced |-> 0]
Remaining(a) == IF a.asked > a.collected THEN a.asked - a.collected ELSE 0

Init ==
  /\ cur = 0 /\ entry = 0 /\ released = {} /\ result = [u \in Turns |-> 0]
  /\ turn = [u \in Turns |-> "none"] /\ hold = [u \in Turns |-> 0]
  /\ got = [u \in Turns |-> 0]
  /\ ses = [u \in Turns |-> "off"] /\ how = [u \in Turns |-> "none"]
  /\ proc = [u \in Turns |-> "none"] /\ marked = {} /\ pending = {}
  /\ target = [u \in Turns |-> NoProfile]
  /\ armed = NotArmed /\ arming = NoProfile /\ arms = 0
  /\ profiles = Profiles /\ deleting = NoProfile /\ samples = {}
  /\ cands = [u \in Turns |-> {}] /\ outlier = [u \in Turns |-> 0]
  /\ cache = NoCache /\ fresh = {} /\ rows = [u \in Turns |-> {}]
  /\ store = [u \in Turns |-> "none"] /\ drop = [u \in Turns |-> "none"]
  /\ files = {} /\ records = {}
  /\ known = {} /\ looked = {} /\ carried = {} /\ interrupted = {}
  /\ taken = {} /\ expired = {} /\ undeleted = {}

-----------------------------------------------------------------------------
(* The store.                                                              *)

\* Those who wait for an entry are told when it has a result or is removed by
\* anyone but another waiter.
Release(e) ==
  released' = IF \E t \in Turns : hold[t] = e THEN (released \cup {e}) \ {0}
              ELSE released
Told(e) == result[e] # 0 \/ e \in released

\* discard, with the token of a session or without one: 0 stands for any.
Discarded(token) ==
  IF token \in {0, entry} THEN entry' = 0 /\ Release(entry)
  ELSE UNCHANGED <<entry, released>>

\* begin: an older entry goes, and those who wait for it are released.
Register(u) ==
  entry' = u /\ Release(entry)

\* (faulty) the result goes to whatever entry the conversation has
ResolveAny(u) ==
  result' = IF entry # 0 THEN [result EXCEPT ![entry] = u] ELSE result

\* resolve: only the entry that this session registered takes its result.
Resolve(u) ==
  result' = IF entry = u THEN [result EXCEPT ![u] = u] ELSE result

\* An entry is purged by the next access to the store after ENTRY_TTL_S, or
\* evicted by those of other conversations.
Purge ==
  /\ entry # 0
  /\ Discarded(entry)
  /\ expired' = expired \cup ({entry} \cap marked)
  /\ UNCHANGED <<result, turnVars, sesVars, armVars, rowVars, cacheVars,
                 recVars, cur, interrupted>>

-----------------------------------------------------------------------------
(* Conversation turns (the prelude of the orchestrator).                   *)

\* The next utterance begins, after the turn of the last one or over it.
Speak ==
  /\ cur < LastTurn
  /\ cur' = cur + 1
  /\ interrupted' = IF cur > 0 /\ turn[cur] # "over"
                    THEN interrupted \cup {cur} ELSE interrupted
  /\ UNCHANGED <<storeVars, turnVars, sesVars, armVars, rowVars, cacheVars,
                 recVars, expired>>

Looks(t) == looked' = IF ses[t] # "off" THEN looked \cup {t} ELSE looked
TakenBy(t, e) == taken' = taken \cup (({e} \cap marked) \ {t})
Leave(t, ran) ==
  /\ turn' = [turn EXCEPT ![t] = "over"] /\ hold' = [hold EXCEPT ![t] = 0]
  /\ carried' = IF ran THEN carried \cup {t} ELSE carried

\* pop: a result that is there is taken at once,
PopsAtOnce(t, ran) ==
  /\ entry # 0 /\ result[entry] # 0
  /\ got' = [got EXCEPT ![t] = result[entry]]
  /\ entry' = 0 /\ TakenBy(t, entry) /\ Leave(t, ran)
  /\ UNCHANGED released

\* else the turn waits for this entry, whatever becomes of it.
PopWaits(t, pc) ==
  /\ entry # 0 /\ result[entry] = 0
  /\ turn' = [turn EXCEPT ![t] = pc] /\ hold' = [hold EXCEPT ![t] = entry]
  /\ UNCHANGED <<entry, released, got, carried, taken>>

StoreOnly == UNCHANGED <<sesVars, armVars, rowVars, cacheVars, recVars, pace>>

\* (faulty) what counts is whether an enrollment is armed now
IsEnrollmentNow == entry # 0 /\ armed # NotArmed

\* is_enrollment_turn: the turn of a marked session is answered, not run.
IsEnrollmentTurn == entry # 0 /\ entry \in marked

Arrive(t) ==
  /\ t = cur /\ turn[t] = "none"
  /\ known' = known \cup ({t} \cap marked)
  /\ IF IsEnrollmentTurn
     THEN Looks(t) /\ (PopsAtOnce(t, FALSE) \/ PopWaits(t, "reply"))
     ELSE /\ turn' = [turn EXCEPT ![t] = "prelude"]
          /\ UNCHANGED <<entry, released, hold, looked, got, carried, taken>>
  /\ UNCHANGED result /\ StoreOnly

\* The answer to an approval question leaves before the lookup, and leaves
\* the entry where it is.
ApprovalExit(t) ==
  /\ turn[t] = "prelude"
  /\ Leave(t, TRUE)
  /\ UNCHANGED <<storeVars, got, known, looked, taken>> /\ StoreOnly

\* A replayed action needs no speaker: discard_pending_speaker.
CacheReplay(t) ==
  /\ turn[t] = "prelude"
  /\ Discarded(0) /\ TakenBy(t, entry) /\ Looks(t) /\ Leave(t, TRUE)
  /\ UNCHANGED <<result, got, known>> /\ StoreOnly

StartLookup(t) ==
  /\ turn[t] = "prelude"
  /\ IF entry # 0
     THEN turn' = [turn EXCEPT ![t] = "config"] /\ UNCHANGED <<hold, carried>>
     ELSE Leave(t, TRUE)
  /\ UNCHANGED <<storeVars, got, known, looked, taken>> /\ StoreOnly

\* The lookup has read the settings and pops the entry that is there now.
ReadConfig(t) ==
  /\ turn[t] = "config"
  /\ Looks(t)
  /\ \/ PopsAtOnce(t, TRUE)
     \/ PopWaits(t, "wait")
     \/ /\ entry = 0 /\ Leave(t, TRUE)
        /\ UNCHANGED <<entry, released, got, taken>>
  /\ UNCHANGED <<result, known>> /\ StoreOnly

\* Speaker identification was turned off meanwhile.
ReadDisabled(t) ==
  /\ turn[t] = "config"
  /\ Discarded(0) /\ TakenBy(t, entry) /\ Looks(t) /\ Leave(t, TRUE)
  /\ UNCHANGED <<result, got, known>> /\ StoreOnly

\* join gives up, or the classification fails, before the lookup has popped.
GiveUp(t) ==
  /\ turn[t] = "config"
  /\ Leave(t, TRUE)
  /\ UNCHANGED <<storeVars, got, known, looked, taken>> /\ StoreOnly

\* The end of pop: the entry goes in every outcome, if it is still this one.
PopEnds(t) ==
  /\ entry' = IF entry = hold[t] THEN 0 ELSE entry
  /\ TakenBy(t, IF entry = hold[t] THEN entry ELSE 0)
  /\ UNCHANGED <<released, result, known, looked>>

Attach(t) ==
  /\ turn[t] = "wait" /\ Told(hold[t])
  /\ got' = [got EXCEPT ![t] = result[hold[t]]]
  /\ PopEnds(t) /\ Leave(t, TRUE) /\ StoreOnly

LookupTimeout(t) ==
  /\ turn[t] = "wait"
  /\ PopEnds(t) /\ Leave(t, TRUE) /\ UNCHANGED got /\ StoreOnly

\* consume_enrollment_turn: the result, or ENROLLMENT_RESULT_WAIT_S is over.
Reply(t) ==
  /\ turn[t] = "reply"
  /\ got' = [got EXCEPT ![t] = result[hold[t]]]
  /\ PopEnds(t) /\ Leave(t, FALSE) /\ StoreOnly

\* The client is gone.
CancelTurn(t) ==
  /\ turn[t] \in {"prelude", "config", "wait", "reply"}
  /\ IF turn[t] \in {"wait", "reply"} THEN PopEnds(t)
     ELSE UNCHANGED <<storeVars, known, looked, taken>>
  /\ Leave(t, FALSE) /\ UNCHANGED got /\ StoreOnly

-----------------------------------------------------------------------------
(* Voice sessions.                                                         *)

\* The session registers before any audio.  Its marking is fixed here.
Start(u) ==
  /\ u = cur /\ ses[u] = "off"
  /\ ses' = [ses EXCEPT ![u] = "open"]
  /\ marked' = IF armed # NotArmed THEN marked \cup {u} ELSE marked
  /\ Register(u)
  /\ UNCHANGED <<result, turnVars, how, proc, target, pending, armVars,
                 rowVars, cacheVars, recVars, pace>>

\* _start_processing; the analysis begins with a look at the enrollment.
StartProcessing(u) ==
  IF proc[u] = "none"
  THEN /\ proc' = [proc EXCEPT ![u] = "run"]
       /\ target' = [target EXCEPT ![u] = armed.profile]
  ELSE UNCHANGED <<proc, target>>

SessionOnly == UNCHANGED <<turnVars, armVars, rowVars, pace>>

AudioEnd(u) ==
  /\ ses[u] = "open" /\ proc[u] = "none"
  /\ StartProcessing(u)
  /\ UNCHANGED <<storeVars, ses, how, marked, pending, cacheVars, recVars>>
  /\ SessionOnly

\* ProfileCentroidCache.get: a hit, or a load that ends in two steps.
NeedProfiles(u) ==
  /\ proc[u] = "run"
  /\ IF cache # NoCache
     THEN proc' = [proc EXCEPT ![u] = "ready"] /\ UNCHANGED fresh
     ELSE proc' = [proc EXCEPT ![u] = "load"] /\ fresh' = fresh \cup {u}
  /\ UNCHANGED <<storeVars, ses, how, marked, target, pending, cache, rows,
                 recVars>>
  /\ SessionOnly

ReadProfiles(u) ==
  /\ proc[u] = "load"
  /\ proc' = [proc EXCEPT ![u] = "read"]
  /\ rows' = [rows EXCEPT ![u] = samples]
  /\ UNCHANGED <<storeVars, ses, how, marked, target, pending, cache, fresh,
                 recVars>>
  /\ SessionOnly

\* (faulty) a load that an invalidation overtook is cached all the same
InstalledAnyway(u) == rows[u]

\* A load that an invalidation overtook serves its caller only.
Installed(u) == IF u \in fresh THEN rows[u] ELSE cache

BuildProfiles(u) ==
  /\ proc[u] = "read"
  /\ proc' = [proc EXCEPT ![u] = "ready"]
  /\ cache' = Installed(u) /\ fresh' = fresh \ {u}
  /\ rows' = [rows EXCEPT ![u] = {}]
  /\ UNCHANGED <<storeVars, ses, how, marked, target, pending, recVars>>
  /\ SessionOnly

Analysed(u) ==
  /\ proc' = [proc EXCEPT ![u] = "done"] /\ Resolve(u)
  /\ fresh' = fresh \ {u} /\ rows' = [rows EXCEPT ![u] = {}]
  /\ UNCHANGED <<entry, released, ses, how, marked, cache>> /\ SessionOnly
NoSample(u) == target' = [target EXCEPT ![u] = NoProfile]

\* The audio makes a sample; it waits for `end`.
AnalysedSample(u) ==
  /\ proc[u] = "ready" /\ target[u] # NoProfile
  /\ pending' = pending \cup {u}
  /\ Analysed(u) /\ UNCHANGED <<target, recVars>>

\* The voice was compared, and the turn is recorded in the background.
AnalysedRecorded(u) ==
  /\ proc[u] = "ready" /\ target[u] = NoProfile /\ u \notin marked
  /\ store' = [store EXCEPT ![u] = "check"]
  /\ Analysed(u)
  /\ UNCHANGED <<target, pending, drop, files, records, undeleted>>

\* No embedding, no recording wanted, or a sample that was rejected.
AnalysedOnly(u) ==
  /\ proc[u] \in {"run", "load", "read", "ready"}
  /\ Analysed(u) /\ NoSample(u) /\ UNCHANGED <<pending, recVars>>

End(u) ==
  /\ ses[u] = "open"
  /\ ses' = [ses EXCEPT ![u] = "confirm"]
  /\ how' = [how EXCEPT ![u] = "end"]
  /\ StartProcessing(u)
  /\ UNCHANGED <<storeVars, marked, pending, cacheVars, recVars>>
  /\ SessionOnly

\* `end` confirms: only now is the sample stored.
Confirm(u) ==
  /\ ses[u] = "confirm" /\ proc[u] = "done"
  /\ ses' = [ses EXCEPT ![u] = IF u \in pending THEN "commit" ELSE "over"]
  /\ pending' = pending \ {u}
  /\ UNCHANGED <<storeVars, how, proc, marked, target, cacheVars, recVars>>
  /\ SessionOnly

\* _discard_recording
DropRecording(u) ==
  /\ drop' = [drop EXCEPT ![u] = IF store[u] = "none" THEN @ ELSE "wait"]
  /\ UNCHANGED <<store, files, records, undeleted>>

\* _discard: the analysis is cancelled, and nothing of the turn is kept.
Discard(u) ==
  /\ ses' = [ses EXCEPT ![u] = "over"] /\ how' = [how EXCEPT ![u] = "void"]
  /\ proc' = [proc EXCEPT ![u] = "done"]
  /\ fresh' = fresh \ {u} /\ rows' = [rows EXCEPT ![u] = {}]
  /\ pending' = pending \ {u}
  /\ NoSample(u) /\ DropRecording(u) /\ Discarded(u)
  /\ UNCHANGED <<result, marked, cache>> /\ SessionOnly

\* The transcript is empty or audio was lost, or a frame breaks the protocol.
Abort(u) == ses[u] = "open" /\ Discard(u)

\* The socket is lost or idle before `end`: without audio nothing is kept,
Lose(u) == ses[u] = "open" /\ proc[u] = "none" /\ Discard(u)

\* with audio the speaker may still be told to the conversation
LoseAfterAudio(u) ==
  /\ ses[u] = "open"
  /\ ses' = [ses EXCEPT ![u] = "drop"]
  /\ how' = [how EXCEPT ![u] = "void"]
  /\ StartProcessing(u)
  /\ UNCHANGED <<storeVars, marked, pending, cacheVars, recVars>>
  /\ SessionOnly

\* but there is no sample and no recording.
Unconfirmed(u) ==
  /\ ses[u] = "drop" /\ proc[u] = "done"
  /\ ses' = [ses EXCEPT ![u] = "over"]
  /\ pending' = pending \ {u}
  /\ NoSample(u) /\ DropRecording(u)
  /\ UNCHANGED <<storeVars, how, proc, marked, cacheVars>>
  /\ SessionOnly

\* The task of the session is cancelled: _cleanup.  What has been resolved
\* stays.
Cut(u) ==
  /\ ses[u] \in {"open", "confirm", "drop"}
  /\ IF proc[u] # "done" THEN Discard(u)
     ELSE /\ ses' = [ses EXCEPT ![u] = "over"]
          /\ how' = [how EXCEPT ![u] = "cut"]
          /\ pending' = pending \ {u} /\ NoSample(u)
          /\ UNCHANGED <<storeVars, proc, marked, cacheVars, recVars>>
          /\ SessionOnly

-----------------------------------------------------------------------------
(* Enrollment.                                                             *)

Committing(u) == ses[u] \in {"add", "count", "review", "delete", "replace"}
LockFree == \A u \in Turns : ~Committing(u)
EnrollOnly ==
  UNCHANGED <<storeVars, turnVars, how, proc, marked, target, pending, arming,
              arms, profiles, deleting, recVars, pace>>
To(u, pc) == ses' = [ses EXCEPT ![u] = pc]
Invalidate == cache' = NoCache /\ fresh' = {} /\ UNCHANGED rows

\* disarm_profile
Disarmed(p) == IF armed.profile = p THEN NotArmed ELSE armed
\* finish: a session that reached its target ends.
Finished(a, p) ==
  IF a.profile = p /\ Remaining(a) = 0 THEN NotArmed ELSE a

\* (faulty) without _enroll_lock
CommitUnlocked(u) ==
  /\ ses[u] = "commit"
  /\ To(u, IF armed.profile = target[u] THEN "add" ELSE "over")
  /\ UNCHANGED <<armed, samples, cands, outlier, cacheVars>> /\ EnrollOnly

\* Commits follow one another; the enrollment may have changed meanwhile.
Commit(u) ==
  /\ ses[u] = "commit" /\ LockFree
  /\ To(u, IF armed.profile = target[u] THEN "add" ELSE "over")
  /\ UNCHANGED <<armed, samples, cands, outlier, cacheVars>> /\ EnrollOnly

AddSample(u) ==
  /\ ses[u] = "add" /\ target[u] \in profiles
  /\ samples' = samples \cup {u}
  /\ To(u, "count")
  /\ UNCHANGED <<armed, cands, outlier, cacheVars>> /\ EnrollOnly

\* The profile is gone, or the table cannot be written.
AddFails(u) ==
  /\ ses[u] = "add"
  /\ armed' = Disarmed(target[u])
  /\ To(u, "over")
  /\ UNCHANGED <<samples, cands, outlier, cacheVars>> /\ EnrollOnly

\* record_sample; the sample that reaches the target starts the review.
CountSample(u) ==
  LET p == target[u]
      a == IF armed.profile = p
           THEN [armed EXCEPT !.collected = @ + 1, !.ids = @ \cup {u}]
           ELSE armed
      full == a.profile # p \/ Remaining(a) = 0
      ids == IF a.profile = p /\ a.replaced < MaxReplaced THEN a.ids ELSE {}
  IN
  /\ ses[u] = "count"
  /\ Invalidate
  /\ armed' = IF full /\ ids = {} THEN Finished(a, p) ELSE a
  /\ cands' = [cands EXCEPT ![u] = IF full THEN ids ELSE {}]
  /\ To(u, IF full /\ ids # {} THEN "review" ELSE "over")
  /\ UNCHANGED <<samples, outlier>> /\ EnrollOnly

CommitEnds(u) ==
  /\ armed' = Finished(armed, target[u])
  /\ To(u, "over")
  /\ cands' = [cands EXCEPT ![u] = {}] /\ outlier' = [outlier EXCEPT ![u] = 0]

\* find_session_outlier over the samples of the profile
FindOutlier(u) ==
  /\ ses[u] = "review"
  /\ \E o \in cands[u] :
       /\ outlier' = [outlier EXCEPT ![u] = o]
       /\ To(u, "delete")
  /\ UNCHANGED <<armed, samples, cands, cacheVars>> /\ EnrollOnly

\* There is none, or the review fails.
NoOutlier(u) ==
  /\ ses[u] \in {"review", "delete"}
  /\ CommitEnds(u)
  /\ UNCHANGED <<samples, cacheVars>> /\ EnrollOnly

DeleteOutlier(u) ==
  /\ ses[u] = "delete" /\ outlier[u] \in samples
  /\ samples' = samples \ {outlier[u]}
  /\ To(u, "replace")
  /\ UNCHANGED <<armed, cands, outlier, cacheVars>> /\ EnrollOnly

\* replace_sample, or the session changed during the review.
ReplaceSample(u) ==
  LET o == outlier[u] IN
  /\ ses[u] = "replace"
  /\ Invalidate
  /\ IF armed.profile = target[u] /\ o \in armed.ids
        /\ armed.replaced < MaxReplaced
     THEN /\ armed' = [armed EXCEPT !.ids = @ \ {o}, !.collected = @ - 1,
                                    !.replaced = @ + 1]
          /\ To(u, "over")
          /\ cands' = [cands EXCEPT ![u] = {}]
          /\ outlier' = [outlier EXCEPT ![u] = 0]
     ELSE CommitEnds(u)
  /\ UNCHANGED samples /\ EnrollOnly

AdminOnly == UNCHANGED <<storeVars, turnVars, sesVars, cands, outlier, recVars,
                         pace>>

\* POST enroll: the profile is read, then the setting, then it is armed.
RequestArm(p) ==
  /\ arms < MaxArms /\ arming = NoProfile /\ p \in profiles
  /\ arming' = p /\ arms' = arms + 1
  /\ UNCHANGED <<armed, profiles, deleting, samples, cacheVars>> /\ AdminOnly

Arm(n) ==
  /\ arming # NoProfile
  /\ armed' = [NotArmed EXCEPT !.profile = arming, !.asked = n]
  /\ arming' = NoProfile
  /\ UNCHANGED <<arms, profiles, deleting, samples, cacheVars>> /\ AdminOnly

\* The administrator cancels, or the time is over.
Disarm ==
  /\ armed # NotArmed
  /\ armed' = NotArmed
  /\ UNCHANGED <<arming, arms, profiles, deleting, samples, cacheVars>>
  /\ AdminOnly

DeleteProfile(p) ==
  /\ p \in profiles /\ deleting = NoProfile
  /\ profiles' = profiles \ {p} /\ deleting' = p
  /\ samples' = {s \in samples : target[s] # p}
  /\ UNCHANGED <<armVars, cacheVars>> /\ AdminOnly

FinishDelete ==
  /\ deleting # NoProfile
  /\ armed' = Disarmed(deleting) /\ deleting' = NoProfile
  /\ Invalidate
  /\ UNCHANGED <<arming, arms, profiles, samples>> /\ AdminOnly

-----------------------------------------------------------------------------
(* Recordings: the task that stores one and the one that deletes it.       *)

RecordOnly == UNCHANGED <<storeVars, turnVars, sesVars, armVars, rowVars,
                          cacheVars, pace>>
StoreTo(u, pc) == store' = [store EXCEPT ![u] = pc]

StoreFile(u) ==
  /\ store[u] = "check"
  /\ files' = files \cup {u} /\ StoreTo(u, "row")
  /\ UNCHANGED <<drop, records, undeleted>> /\ RecordOnly

\* Recording was turned off, or the file cannot be written.
StoreSkips(u) ==
  /\ store[u] = "check"
  /\ StoreTo(u, "done")
  /\ UNCHANGED <<drop, files, records, undeleted>> /\ RecordOnly

StoreRow(u) ==
  /\ store[u] = "row"
  /\ records' = records \cup {u} /\ StoreTo(u, "done")
  /\ UNCHANGED <<drop, files, undeleted>> /\ RecordOnly

StoreRowFails(u) ==
  /\ store[u] = "row"
  /\ StoreTo(u, "undo")
  /\ UNCHANGED <<drop, files, records, undeleted>> /\ RecordOnly

StoreUndo(u) ==
  /\ store[u] = "undo"
  /\ files' = files \ {u} /\ StoreTo(u, "done")
  /\ UNCHANGED <<drop, records, undeleted>> /\ RecordOnly

\* (faulty) the deletion does not wait
DropRowAtOnce(u) ==
  /\ drop[u] = "wait"
  /\ records' = records \ {u} /\ drop' = [drop EXCEPT ![u] = "file"]
  /\ UNCHANGED <<store, files, undeleted>> /\ RecordOnly

\* The deletion waits for the task that stores.
DropRow(u) ==
  /\ drop[u] = "wait" /\ store[u] = "done"
  /\ records' = records \ {u} /\ drop' = [drop EXCEPT ![u] = "file"]
  /\ UNCHANGED <<store, files, undeleted>> /\ RecordOnly

DropFile(u) ==
  /\ drop[u] = "file"
  /\ files' = files \ {u} /\ drop' = [drop EXCEPT ![u] = "done"]
  /\ UNCHANGED <<store, records, undeleted>> /\ RecordOnly

DropFails(u) ==
  /\ \/ drop[u] = "wait" /\ store[u] = "done"
     \/ drop[u] = "file"
  /\ undeleted' = undeleted \cup {u} /\ drop' = [drop EXCEPT ![u] = "done"]
  /\ UNCHANGED <<store, files, records>> /\ RecordOnly

-----------------------------------------------------------------------------
Next ==
  \/ Speak \/ Purge
  \/ \E t \in Turns :
       \/ Arrive(t) \/ ApprovalExit(t) \/ CacheReplay(t) \/ StartLookup(t)
       \/ ReadConfig(t) \/ ReadDisabled(t) \/ GiveUp(t) \/ Attach(t)
       \/ LookupTimeout(t) \/ Reply(t) \/ CancelTurn(t)
  \/ \E u \in Turns :
       \/ Start(u) \/ AudioEnd(u) \/ NeedProfiles(u) \/ ReadProfiles(u)
       \/ BuildProfiles(u) \/ AnalysedSample(u) \/ AnalysedRecorded(u)
       \/ AnalysedOnly(u) \/ End(u) \/ Confirm(u) \/ Abort(u) \/ Lose(u)
       \/ LoseAfterAudio(u) \/ Unconfirmed(u) \/ Cut(u)
  \/ \E u \in Turns :
       \/ Commit(u) \/ AddSample(u) \/ AddFails(u) \/ CountSample(u)
       \/ FindOutlier(u) \/ NoOutlier(u) \/ DeleteOutlier(u)
       \/ ReplaceSample(u)
  \/ \E p \in Profiles : RequestArm(p) \/ DeleteProfile(p)
  \/ \E n \in 1..MaxTarget : Arm(n)
  \/ Disarm \/ FinishDelete
  \/ \E u \in Turns :
       \/ StoreFile(u) \/ StoreSkips(u) \/ StoreRow(u) \/ StoreRowFails(u)
       \/ StoreUndo(u) \/ DropRow(u) \/ DropFile(u) \/ DropFails(u)

Spec == Init /\ [][Next]_vars

-----------------------------------------------------------------------------
(* Properties.                                                             *)

Profile == Profiles \cup {NoProfile}
Utterance == 0..LastTurn
Enrollments == [profile : Profile, asked : Nat, collected : Nat,
                ids : SUBSET Turns, replaced : Nat]

TalkTypes ==
  /\ cur \in Utterance /\ entry \in Utterance
  /\ turn \in [Turns -> {"none", "prelude", "config", "wait", "reply", "over"}]
  /\ hold \in [Turns -> Utterance] /\ got \in [Turns -> Utterance]
  /\ result \in [Turns -> Utterance] /\ released \subseteq Turns
  /\ known \subseteq Turns /\ looked \subseteq Turns /\ carried \subseteq Turns
  /\ interrupted \subseteq Turns /\ taken \subseteq Turns
  /\ expired \subseteq Turns

SessionTypes ==
  /\ ses \in [Turns -> {"off", "open", "confirm", "drop", "commit", "add",
                        "count", "review", "delete", "replace", "over"}]
  /\ how \in [Turns -> {"none", "end", "void", "cut"}]
  /\ proc \in [Turns -> {"none", "run", "load", "read", "ready", "done"}]
  /\ target \in [Turns -> Profile]
  /\ marked \subseteq Turns /\ pending \subseteq Turns

EnrollmentTypes ==
  /\ armed \in Enrollments /\ arming \in Profile /\ arms \in Nat
  /\ profiles \subseteq Profiles /\ deleting \in Profile
  /\ samples \subseteq Turns /\ outlier \in [Turns -> Utterance]
  /\ cands \in [Turns -> SUBSET Turns]

CacheTypes ==
  /\ cache \in {NoCache} \cup SUBSET Turns /\ fresh \subseteq Turns
  /\ rows \in [Turns -> SUBSET Turns]

RecordTypes ==
  /\ store \in [Turns -> {"none", "check", "row", "undo", "done"}]
  /\ drop \in [Turns -> {"none", "wait", "file", "done"}]
  /\ files \subseteq Turns /\ records \subseteq Turns
  /\ undeleted \subseteq Turns

TypeOK ==
  /\ TalkTypes /\ SessionTypes /\ EnrollmentTypes /\ CacheTypes
  /\ RecordTypes

\* A turn takes the result of its own session.  An earlier one's can only
\* reach a turn without a session, and only if the turn of that session had
\* not looked for it (it never came, came too early, or answered an approval)
\* or was interrupted; a later one's only a turn that was interrupted.
SpeakerOfOwnTurn ==
  \A t \in Turns : LET s == got[t] IN
    \/ s \in {0, t}
    \/ s < t /\ t \notin looked /\ (s \notin looked \/ s \in interrupted)
    \/ s > t /\ t \in interrupted

\* What is said to a satellite while an enrollment is armed is not carried
\* out, also if the enrollment is completed, cancelled or replaced before the
\* turn arrives - unless its session was aborted, cut or lost, or its entry
\* expired or was removed by a turn it interrupted.
MarkedTurnsAreNotCarriedOut ==
  \A t \in carried \cap marked \cap known :
    how[t] \in {"void", "cut"} \/ t \in expired \cup taken

\* A session that `end` did not confirm leaves no sample and, when its tasks
\* are done, no recording: neither the row nor the file.
UnconfirmedLeavesNothing ==
  \A u \in Turns : ses[u] = "over" /\ how[u] # "end" =>
    /\ u \notin samples
    /\ \/ u \notin files \cup records
       \/ store[u] # "done" \/ drop[u] \in {"wait", "file"}
       \/ u \in undeleted \/ how[u] = "cut"

\* The count of an armed enrollment is that of its samples in the table, it
\* never exceeds what was asked for, and reaches it only while a commit is
\* under way: no enrollment stays armed without asking for a sample.
EnrollmentCounts ==
  armed # NotArmed =>
    /\ armed.collected = Cardinality(armed.ids)
    /\ armed.collected <= armed.asked
    /\ LockFree => armed.collected < armed.asked
    /\ armed.profile \in profiles =>
         \A s \in armed.ids \ samples :
           \E u \in Turns : ses[u] = "replace" /\ outlier[u] = s

\* The centroids that voices are compared with are those of the samples in
\* the table, but between a write to it and the invalidation that follows.
CentroidsMatchSamples ==
  \/ cache \in {NoCache, samples}
  \/ deleting # NoProfile
  \/ \E u \in Turns : ses[u] \in {"count", "replace"}
=============================================================================
