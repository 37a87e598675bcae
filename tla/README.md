# Verification of HA-AgentHub

TLA+ models of the parts of HA-AgentHub whose correctness depends on the order
in which things happen, the TLC configurations that check them on small
instances, and TLAPS proofs of what matters most. Paths below are relative to
the repository; `container/app` is the service, `custom_components/ha_agenthub`
the integration that runs inside Home Assistant.

    tlc -workers 2 -config TimerSafety.cfg MCTimerScheduler  one run
    tlapm TimerSchedulerProofs.tla                           one proof module

`PROJECT.json` holds the machine-readable side: the components, the runs with
their properties, the line ranges of the code each definition stands for, for
every property a mutation of the model that the run must reject, the findings
and the hazards.

Contents: 1 the system, 2 the plan, 3 the modules, 4 the runs, 5 bounds and
fairness, 6 findings and known limits of the code, 7 proofs, 8 not modelled.

---------------------------------------------------------------------------

## 1. The system

The integration hands the turns of Home Assistant's voice pipelines to the
container over one shared WebSocket (or REST). In the container the
orchestrator classifies the text, dispatches it to one or more domain agents,
and streams the answer back. Agents act on Home Assistant through its REST and
WebSocket API. Around this run a timer scheduler with a database table, a cache
of executed actions, questions that wait for the user's answer, and mirrors of
Home Assistant's registries that are kept up to date by events. The service is
one asyncio event loop plus worker threads for the cache; the integration lives
in Home Assistant's event loop.

| Component | State | Operations | Interacts with | What is hard | What makes it correct |
|---|---|---|---|---|---|
| **Timer scheduler** `agents/timer_scheduler.py`, `db/repositories/scheduled_timers.py` | table of timers (survives restarts), one asyncio task per pending row, one recovery coroutine | schedule, cancel, pause, resume, reschedule, fire, start, retry, stop | timer executor, background actions, HA client, missed notices | calls race tasks and each other; stop between any two writes; HA away when a timer is due | a timer rings once per (re)start, never after a cancel; no pending row is forgotten; a series continues; a miss is reported |
| **Action cache** `cache/*.py` | table of rows, generation, key marks, queued hits | store, lookup and replay, flush, delete, invalidate, evict, validate | agents, entity index, registry events, LLM (validator) | worker threads interleave between the locked sections; the validator writes back minutes after its scan | a row speaks for its own action; deleted rows stay deleted; corrections stick; a store is given up exactly when invalidated |
| **Approval** `agents/approval.py`, `approval_gate.py`, `automation_confirmation.py`, `pending_store.py` | two in-memory stores of open questions (TTL, tombstones, cap) | hold, ask, judge, execute, decline, re-ask, propose, apply | orchestrator, agents, LLM classifier, HA client | the classifier's await; overlapping turns; expiry; restart; the two stores rival each other | nothing runs without the requester's timely yes; once; never after it was dropped; one open question |
| **Streamed turn** `agents/orchestrator.py`, `dispatch_manager.py`, `filler_coordinator.py`, `ha_client/rest.py`, `action_marker.py`, `api/routes/conversation.py` | streaming context, agent tasks, filler, reminder probe, frames | route, dispatch, race the filler, relay, recover, mediate, finish | agents, HA, the bridge | deadlines race the agent and its service call; chain of generators; disconnect anywhere | a command at most once, one last frame, answer spoken once, nothing outlives the turn |
| **Conversation bridge** `custom_components/ha_agenthub/conversation.py` | shared WebSocket and its lock, idle reader, reconnect loop, in-flight requests | coalesce, acquire, send, read, give back, fall back to REST, remove | HA pipelines, the container's socket handler | two tasks on a socket; cancellation at every await; lost connections | one reader per socket; own frames only; work repeated only after a loss; every call returns |
| **Entity index and sync** `entity/*`, `bootstrap/_entity.py`, `ha_client/rest.py` | index in memory and its collection, marks of the last change, queue of pushes, registry cache, hidden list | first snapshot, periodic and deferred sync, resync, push, registry event, flush | HA WebSocket client, cache, agents | syncs overlap; queued updates against removals; a reconnect during a resync; what is stale when it is written | the index ends up equal to Home Assistant; no snapshot undoes newer information; hidden entities stay out |
| **HA WebSocket client** `ha_client/websocket.py`, `rest.py` | session and socket with their lock, pending commands, state waiters, the reconnect loop | connect, receive, reconnect, command, wait for a state, drop, disconnect | entity index (reconnect callbacks), service calls, administration, shutdown | a command or waiter registered while the socket is torn down; a connection made while the client is stopped | one session; a command goes out only while awaited; waiters fall with their socket; no silent gap; every operation ends |
| **Voice turns and enrollment** `container/app/voice/*`, `api/routes/voice.py` | entries of the turn store, the armed enrollment, profiles and samples, cached centroids, recordings and their files | register a session, analyse its audio, hand the speaker to the turn, commit a sample, review outliers, record and discard | speech tee of the integration, orchestrator, administration | session and turn come on two ways and either may be late, missing or aborted; the enrollment changes while a commit waits | a turn gets the speaker of its own audio; a marked turn is not carried out; an unconfirmed session leaves nothing; counts and centroids follow the samples |
| **Alarm monitor** `agents/alarm_monitor.py` | last rung helpers | poll, ring | HA helpers | window against polling interval, midnight | each due helper rings once |
| **Timer recurrence** `timer_scheduler.py` 77-208 | none | next occurrence | scheduler | weekdays, DST | strictly later, on an allowed weekday, none skipped |
| **Conversation manager** `agents/conversation_manager.py` | history per conversation, pending question | append, pending question of the noise route | orchestrator | two turns of a conversation | the question is restored once |
| **MCP client** `mcp/*` | owner task, command queue | connect, call, close | agents | call against teardown | every call ends |
| **Everything else** (timer executor, background actions, routing, domain agents, entity resolution, sensitive actions, mediation, memory, calendar, LLM client, plugins, OpenAI API, rate limits, traces, database, people and home context, startup, administration, speech and logs, configuration) | little or none of their own | see `PROJECT.json` | | sequential, pure, or I/O | |

How they interact, as far as the models are concerned:

- *Calls and callbacks.* The bridge calls the handler of the container (`Bridge`
  has the container's end of each socket, `StreamTurn` the handler and the turn
  behind it). A turn first asks the approval flow, then dispatches to agents,
  whose sensitive calls come back to the approval store.
- *Shared state.* Rows and tasks in the scheduler; rows, marks and queued
  updates in the cache; the two question stores; the shared socket. Each is
  guarded by a lock, by a guarded `UPDATE`, by comparing with what was read, or
  by nothing but "no await in between". The models make every await, unlock and
  thread switch a point where anything else may run.
- *Time.* TTLs and due times matter to the scheduler and the approvals, and are
  a counter there. In the turn and the bridge a deadline is nothing but a step
  that may come at any moment.

What is hard to test in this code is listed as `hazards` in `PROJECT.json`, each
at its line with the properties that cover it. A note says which
cases a property excepts because the code has the limits that section 6 describes.

---------------------------------------------------------------------------

## 2. The plan

Ordered by what a fault costs and by how little a test can say about it.

| # | Module | Composes | State |
|---|---|---|---|
| 1 | `TimerScheduler`, `TimerPromise` | table, tasks, callers, recovery, restarts; what they promise | checked; every safety property and the refinement proved |
| 2 | `ActionCache` | state, store, worker threads, validator | checked; every property proved |
| 3 | `Approval` over `PendingStore` | two stores and the turns of conversations | checked; every property proved |
| 4 | `StreamTurn` | turn, agents, filler, probe, handler | checked; every safety property proved |
| 5 | `Bridge` | callers, requests, sockets, container's end | checked; every safety property proved |
| 6 | `EntityIndex` | index, collection, queue, syncs, HA's registry | checked; its safety property proved |
| 7 | `HaLink` | client, users, administrator, shutdown, Home Assistant's end | checked; every safety property proved |
| 8 | `VoiceTurns` | sessions, turn store, turns, enrollment, recordings | checked; every property proved |
| 9 | `Recurrence` | pure algorithm against a reference definition over a bounded calendar | next |
| 10 | `AlarmMonitor`, pending question of the conversation manager, MCP client | | |

Abstract specifications worth stating next:

- *a cached row*: absent or present with the answer of one store; `ActionCache`
  implements it, its threads are stutters but for the upsert and the deletes.
- *one request, one answer*: `Bridge` seen from the pipeline, and `HaLink` seen
  from a user.

Theorems worth proving next: that `ActionCache` implements *a cached row* and
`Bridge` *one request, one answer*, for which the invariants of section 7 are at
hand.

Questions that fit in one instance share a run, so that the set stays quick to
check. Where several small instances are better than a large one, the initial
state of `cache_calls` and `entity_sync` chooses between them, in a record
`bound`, and `timer_safety` follows the steps that stay in one of them
(`Explored`).

---------------------------------------------------------------------------

## 3. The modules

Each module's head comment says what it stands for; `PROJECT.json` "map" gives
the lines behind every definition. Definitions marked `(faulty)` are mutations
used to test the properties, no action uses them.

### TimerScheduler

A timer is a *row* (state, kind, due time, remaining time of a paused one) and a
*task* (where it is in `_run`, `_fire`, `_finish_fired`, `_finish_missed`). The
kinds are those the code treats differently: device actions, rings, and
recurring alarms.

| In the model | In the code |
|---|---|
| `Schedule` | `schedule`: insert, then spawn |
| `ReadCancel` … `ReadRename`, then `Cancel`, `Pause`, `Resume`, `Reschedule` or `Refused` | the calls: read the row, decide, then a guarded `UPDATE` together with what is done to the task |
| `Wake`, `Deliver`, `FireFails`, `Unreachable`, `ScheduleNext`, `ScheduleNextFails`, `Mark`, `MarkFails`, `SendNotice`, `NoticeFails` | one task from its sleep to its end, with the retries of an unreachable Home Assistant |
| `Start`, `StartFails`, `RetryLoad`, `RetryFails`, `RetryRehydrate` | `start` and the one retry of a failed load |
| `Takes`, `DropLate`, `Miss`, `MissNext`, `Begin`, `RecDeliver`, `RecFails`, `RecUnreachable`, `RecNext`, `RecMark`, `RecDone`, `RecNotice` | the recovery of overdue rows, one coroutine, one `now` for all |
| `DropLateFails`, `MissFails`, `RecNextFails`, `RecMarkFails`, `RecNoticeFails`, with `Handler` | a failing statement in that loop, its exception handler, which marks the row fired, and a notice that is given up |
| `Stop`, `HaDown`, `HaUp`, `Tick` | the process, Home Assistant and the clock |

A database write and the following change of the task table are one step:
`get_db_write` (`db/schema/__init__.py` 125-142) holds the module-wide lock
until the statement's block is left, and the continuation that updates `_tasks`
does not await. The read that precedes it is a step of its own.

What may fail is what a timer's end depends on: the load of the rows, a terminal
mark, the insert of a next occurrence (each counts against `MaxFaults`), and,
at any time and without limit, the delivery of a ring or of a notice: every
outcome but `ha_unreachable` is final (`FireFails`, `NoticeFails`). Left out are
a failing statement of a call, which raises to its caller and changes nothing,
and the two arguments of `reschedule` that turn a series into a single alarm or
back (lines 527-530): a timer keeps its kind.

History variables hold what a property compares: `arms`, `boots`, `rings`;
`nexted` and `unscheduled`, the alarms whose next occurrence was scheduled, or
given up after a failed statement; `notified` and `unsaid`, the same of a missed
notice; and `raced`, the timers that got another due time while a rename had
read their row and not yet written it.

### TimerPromise and TimerRefinement

`TimerPromise` is the scheduler as its callers may think of it: a timer is free,
running, paused or done, and there are rings *owed* to it. Accepting it, resuming
or moving it, and a restart that loads it owe it one; a ring pays one back and
needs a running timer, unless a restart loaded it. There are no tasks, no loaded
rows, no retries and no recovery. `TimerRefinement` maps the scheduler to it: the
phase is read off the row's state, what is owed is `arms + boots - rings`, and
most steps of tasks and recovery become stutters. So it says three things at
once: a ring is never given twice, a paused or cancelled timer is silent at once,
and a finished one stays finished.

### ActionCache

The table, the marks of `_CacheState`, and threads. Each action is one section
under the lock of the state or of the store with the local code after it; a
thread's `job` is its program counter and locals. `StoreBegin` … `Upsert` is a
store with its token, flush of queued hits and eviction; `ReplayBegin` …
`Execute` a lookup and the replay of its action; `EntityFind` … `EntityDelete`,
`FlushBegin` … `Wipe`, `ManualDelete`, `Mark`, `Delete` the invalidations;
`Scan` … `CompareDelete` a validator run, of which the periodic one and one of
`POST /validate` may overlap. `made` is the number of the store call
that wrote a row and stands for `created_at`, `answer` the store call whose
speech the row holds. The history variable `rivals` has the rows that another
run wrote since a run's scan.

A run chooses among `Scenarios` with the variable `bound`: which operations there
are, how many stores and invalidations, how many validator runs at a time
(`passes`), and whether merges fail.

### PendingStore and Approval

`PendingStore` is the store as operators on a map from conversations to entries,
with ageing, tombstones and the eviction of the oldest. `Approval` keeps two of
them and lets turns run between awaits: `Arrive` reads the open question, and
the turn is judged (`AnswerExpired`, `Refuse`, `Confirm`, `AskAgain`), executes
(`Execute`, call by call), holds calls of its agents (`Hold`), or has the
automation agent answer and propose (`ReadProposal`, `AnswerProposal`,
`Propose`); `Finish`, `Cancel`, `Restart`, `Tick`. The classifier's verdict is
any of its decisions. An agent's calls are merged into the question of its own
turn, which `put` recognises by the trace id; a turn without one (`Untraced`)
replaces its own question instead (`SameTrace`). `overlap` says how many turns the clients keep in flight
per conversation; nothing in the code limits it, so both one and two are
checked, and properties that need a client that waits for its answer say so.

### StreamTurn

One turn, its agents ("legs"), the filler, the reminder probe, and the frames
sent. `Progress` is the turn with its handler: whatever asyncio is bound to run,
deadlines included. `Agent`, `StartFiller` and `FillerEnds` are what the world
may delay for ever. `TurnRaises`, `Cancel` and `SendFails` are an exception in
the turn, the cancellation of the handler, and a client found gone while a frame
is sent. `LegRaises` is an exception in one of several content legs: the
`gather` of `orchestrator.py:994` ends the turn with it and leaves the other legs
running (`Abandoned`), so their agents go on. The mediation is a stream, or the
blocking one of a personality (`Blocking`), which may lose a reminder on two of
its paths (`Tells`). An agent's command is followed from the POST over the mark of
`action_marker.py` to the retry over the WebSocket and the fallback agent.

### Bridge

Callers, the requests they share, the sockets with both their ends, the shared
socket, the idle reader, the reconnect loop, and the life of the entity. The
lock is not a variable: `LockFree` derives it from where the requests and the
loop are, which the proof uses. The container's end of a socket works on one
request at a time, sends a token and a last frame; after the last frame it says
nothing until the next request. `_coalesce_lock` is left out: no await happens
under it. `work` counts how often the container began a request.

### EntityIndex

One entity, Home Assistant's end included: its registry row and its state, which
`Rename`, `WriteState`, `Visibility`, `Remove` and `Create` change. `primary` is
the index in memory with the marks `_record_mutation_locked` leaves, `stored` the
collection it is built from after a restart. Pushes (`ReceiveState`) queue
updates that `FlushTake`, `FlushStore`, `FlushPrimary` write; registry events run
through their handler (`HandlerRegistry` to `HandlerPrimary`) behind the registry
cache (`Fetch`, `Expire`). The snapshot syncs, of startup, periodic, deferred and
after a reconnect, are jobs of one kind: `ReadStates`, `Publish`, `ReadRegistry`,
`PublishHidden`, `Plan`, `Write`, `Install`, with the failures at each fetch, and
the code's locks deciding which may overlap. `Drop` and `Connect` lose events and
start a resync. What an entity is called is modelled by where the name comes
from (`NameOf`), since that is what the sources disagree about.

### HaLink

| In the model | In the code |
|---|---|
| `Connect` … `Connected`, `Refused`, `ConnectRaises` | `connect`, with the lock held from the session to the subscriptions |
| `Deliver`, `ReceiveEnds`, `BackoffEnds`, `Exit` | the receive loop, the reconnect loop and the end of `run` |
| `CloseStarts`, `CloseGranted`, `Teardown`, `Shut` | `_close_session` and `_close_session_locked`, by the task of `run`, `drop_connection` or `disconnect` |
| `DisconnectEnds` | `disconnect` returns and the shutdown cancels the task, wherever it is |
| `CallService`, `RestReturns`, `RestFails`, `RestUnsent`, `WatchEnds` | a service call inside `expect_state`, with its waiter and the fall back to the WebSocket |
| `SendCommand`, `SendGranted`, `Sent`, `CommandFails`, `CommandSucceeds`, `Query` | `send_command` |
| `Answer`, `StateChanges`, `Breaks`, `Noticed` | Home Assistant, the network, aiohttp's heartbeat |

The lock is the queue of those who want it, as `asyncio.Lock` is fair, and a
free lock is taken without an await; both matter: a waiter slips in between the
two halves of a teardown only while the lock is taken, and a command registered
before a teardown is never sent after the next connect only because it stands
before it in the queue. `born` and `missed` are history. A first connection
clears `missed` without an announcement, because the snapshot of the startup
waits for it. It waits for 30 seconds (`_entity.py` 384-412); one that gave up
may have read the states before a connection that came later, a gap that
`NoSilentGap` does not count.

### VoiceTurns

The utterances of one satellite, each with a voice session (the copy of its
audio on `/ws/voice`) and a conversation turn. The store's entry is named by the
utterance that registered it, which is what its token tells apart; `hold` is the
entry object a `pop` waits for, so that an entry can go while somebody waits.

| In the model | In the code |
|---|---|
| `Register`, `Resolve`, `Discarded`, `Purge`; `PopsAtOnce`, `PopWaits`, `PopEnds` | `SpeakerTurnStore`: `begin`, `resolve`, `discard`, the expiry, and `pop` before and after its wait |
| `Arrive`, `Reply` | the turn asks `is_enrollment_turn` first and answers a marked one |
| `ApprovalExit`, `CacheReplay`, `StartLookup` … `Attach`, `LookupTimeout`, `GiveUp`, `CancelTurn` | the prelude's other exits, and `PendingSpeakerLookup` from its start to `join` |
| `Start`, `AudioEnd`, `NeedProfiles` … `AnalysedOnly`, `End`, `Confirm`, `Abort`, `Lose`, `LoseAfterAudio`, `Unconfirmed`, `Cut` | `VoiceTurnSession`, with the analysis as a task of its own |
| `Commit`, `AddSample`, `AddFails`, `CountSample`, `FindOutlier`, `NoOutlier`, `DeleteOutlier`, `ReplaceSample` | `commit_enrollment` under `_enroll_lock`, with `_review_session` |
| `RequestArm`, `Arm`, `Disarm`, `DeleteProfile`, `FinishDelete` | the administrator's requests and the enrollment's timeout |
| `StoreFile` … `StoreUndo`, `DropRow`, `DropFile`, `DropFails` | the task that stores a recording and the one that discards it |

`Speak` lets the next utterance begin over the turn of the last one. A session's
`start` is taken to reach the container before the next utterance begins: the
tee gives up connecting after two seconds. The variables from `known` on are
history.

---------------------------------------------------------------------------

## 4. The runs

| Run | Instance | Properties | Shows |
|---|---|---|---|
| `timer_safety` | 2 callers and 1 timer armed up to 3 times, or 2 timers with 1 stop and either 1 failure (an outage or a failed statement) or 2 failed statements that leave no row unmarked; `MaxTime` 3 | `TypeOK`, `TaskOnlyWhilePending`, `PendingHasOwner`, `FiredSeriesContinues`, `TaskMatchesRow`, `KeepsPromise` | calls race each other and the task; every pending row is in somebody's hands; a task sleeps for its row's due time but where a rename raced; a fired alarm has its successor unless a statement failed; the scheduler implements `TimerPromise` |
| `timer_live` | 1 timer, 1 caller, 1 stop, 1 outage, 1 failed statement, notices that may fail, fairness | `PendingEnds`, `MissedReported` | a timer ends, and its miss is reported or the report was given up |
| `timer_lost_series` | 2 timers, 2 stops | `MissedSeriesContinues` violated | finding 1 |
| `cache_calls` | 2 keys, 2 threads, 3 stores, 2 invalidations, room for 1 row; or 1 thread, 1 validator run, 2 stores, failing merges; or 1 thread that stores twice and 2 validator runs | `AnswersStayWithTheirAction`, `AbortIffInvalidated`, `NoRevival`, `CorrectionSticks` | a store is given up exactly when its row or the tier was invalidated; stale copies revive and mix up nothing, and revert nothing but in a validator run that another overtook |
| `approval_flow` | 3 turns of which one has no trace id, 2 conversations, 2 calls, 3 requesters of which one cannot be asked, room for 1 question, 1 restart, overlap 1 or 2 | `DoneOnce`, `ConfirmedCalls`, `DropIsFinal`, `CallsAddUp` | a held call runs only for its requester's timely yes, once, never after it was dropped |
| `approval_overlap` | 3 turns of one conversation, 2 in flight | `OneOpenQuestion` violated | finding 2 |
| `turn_frames` | 3 agents (two beside each other, then the send-agent), up to 2 tokens each | `CommandOnce`, `OneLastFrame`, `SpokenOnce`, `ReminderTold`, `NothingOutlivesAnswer`, `NoCommandAfterAnswer`, `EveryTurnEnds` | commands at most once, and none after the answer but from a leg beside one that raised; one last frame; the answer spoken once; the turn ends |
| `bridge_turns` | 2 calls of one text, 2 requests, 2 connections | `OneReader`, `OwnFrames`, `WorkRepeatsAfterLoss`, `SocketsAccounted`, `CancelSparesOthers`, `EveryCallReturns` | one reader per socket, own frames only, work repeated only after a loss, every call returns |
| `entity_sync` | 1 entity, 1 event of any kind, fairness; all four syncs one at a time; or 1 failed fetch, build or handler with the prime and the periodic sync; or 1 lost connection; or the resync of a reconnect overlapping the periodic sync, or the prime | `SnapshotNeverOlder`, `EventuallyMirrors` | no snapshot undoes newer information; the index and its collection end up equal to Home Assistant, failures, losses and overlaps are repaired |
| `entity_hidden_window` | the start, 1 push of a hidden entity | `HiddenStaysOut` violated | finding 3 |
| `ha_link` | 1 service call, 1 command, 2 connections, 1 event, 1 drop, 1 shutdown, fairness | `OneConnection`, `UsersFollowTheirSocket`, `NoSilentGap`, `EveryOperationEnds` | one session at a time and none left; commands and waiters end with their socket; lost events are announced; everything ends |
| `voice_turns` | 2 utterances, 2 profiles, followed in three ways (`Explored`): their turns with up to 1 enrollment; up to 2 enrollments for 1 or 2 samples with 1 outlier replaced, without turns; their recordings | `SpeakerOfOwnTurn`, `MarkedTurnsAreNotCarriedOut`, `UnconfirmedLeavesNothing`, `EnrollmentCounts`, `CentroidsMatchSamples` | the speaker reaches the turn of the same audio; a marked turn is answered, not run; unconfirmed sessions leave neither sample nor recording; counts and centroids follow the samples |

Each passing property has a mutation of the code's model in `PROJECT.json`
(a dropped guard, a missing reset, a swapped order) that makes the same run fail.

Each module states the types of its variables in `TypeOK`. The scheduler's is
part of a run; hardly an order of events could break the others, and all are
proved.

Symmetry is used only in runs without liveness. `approval_flow` also uses a
`VIEW` that forgets what can no longer matter: batches that no entry and no turn
refers to, and the history of turns whose questions are gone. Two states that
agree on the view have the same future and the same truth of the properties for
all that is still to come.

---------------------------------------------------------------------------

## 5. Bounds and fairness

Every bound is a constant marked `bound` in its module.

- *Timers.* Two timers suffice for what recovery does to one row while it works
  on another, and for a series with its successor. Due times, grace periods and
  the clock are small numbers that put each comparison on both of its sides
  (late by less than, exactly, and more than a limit). `MaxArms` 3 lets a timer
  be scheduled, paused and resumed, and moved. Two stops let the second fall
  into the recovery of the first. Two callers on one timer give every race of
  a rename with another call; `timer_live` has one caller, since what a call does
  to a timer's end does not depend on another.
- *Cache.* Two keys show that the invalidation of a row leaves another alone;
  room for one row makes eviction happen; three stores let a row be replaced
  while an older store and a queued hit are under way; flush and eviction
  intervals of 2 make both fall on every other call. Two validator runs are the
  periodic one and a requested one; further requested runs would only repeat the
  second.
- *Approval.* Two conversations with room for one question make the cap evict;
  a TTL of 0 and a tombstone of 1 within two ticks give an answer in time, one
  too late, and one after everything is forgotten. Three turns are one that asks
  and two that answer, or two that ask and one that answers.
- *Entity index.* One entity: entities do not influence each other but through
  the name collisions that are left out. One event and what it starts are enough
  for a push, a handler and two syncs to hold different versions of it. The
  scenarios choose which syncs there are, how many at a time, and what is lost or
  may fail. A rename is two events, a registry entry and a state, and most of the
  states: it happens where a fetch fails or the connection is lost. All scenarios
  but the one with the prime and a resync alone have the periodic sync, which
  `EventuallyMirrors` needs.
- *Link.* Two connections let a command or waiter of the first meet the second;
  one change of the settings and one shutdown are teardowns that race each other
  and that of the task itself, and two users contend for the lock with all of
  them. One event is enough to be lost, or read.
- *Voice.* Two utterances are one and the one that interrupts or follows it;
  two sessions feed an enrollment of one or two samples, so that both may want to
  be the last one, and a second enrollment may replace the first while they
  commit. An enrollment is armed for one of two profiles and re-armed for the
  other. The three ways are kept apart because they meet only in the store and
  in the list of samples: turns do not touch enrollments (`Arrive` reads what
  the session was marked with), and recordings touch neither. They limit the
  run only: the proofs of section 7 are about the specification without them, in
  which everything happens at once.
- *Turn.* Three agents are the parallel dispatch, and a sequential send with two
  content legs, of which one may raise beside the other, and its send-agent. Two
  tokens before the last chunk distinguish a first chunk, a later one and the
  last. The frames of a turn are bounded by that.
- *Bridge.* Two calls with the same text join, replace and follow each other.
  Two connections let one be lost while the other is in use. A further instance
  with three calls, three requests and two connections was checked once for the
  safety properties (732,613 states with symmetry); it is too large to be kept
  beside the others.

`CHECK_DEADLOCK FALSE` stands where the bounds, or the end of the one turn
modelled, stop the system.

Fairness is what the event loop and the supervisor do, never the world:

- *TimerScheduler* (`FairSpec`, only in `timer_live`): every task and the
  recovery coroutine go on when they can, the supervisor restarts a stopped
  process (`Start`), the clock ticks, and an unreachable Home Assistant returns.
  The last is what the retries of the missed notice wait for; a scheduler cannot
  promise an end without it. Calls, stops and failures, of statements and
  deliveries, are never forced.
- *EntityIndex*: weak fairness of the steps of the flush, the handlers and the
  syncs, of the periodic sync and of the first connection. Home Assistant may
  fail a fetch, but only as often as the scenario says.
- *HaLink*: weak fairness of the client's task, of a teardown under way and of
  each user, whose waits have timeouts (10 s for a handshake or an answer, 1.5 s
  for a state, the HTTP client's for REST; aiohttp bounds connecting and closing,
  its heartbeat a send). Connecting need not ever succeed, and Home Assistant may
  never answer.
- *StreamTurn*: weak fairness of `Progress`, the coroutine of the turn with its
  timeouts (`asyncio.timeout`, `wait_for`, the dispatch deadline). Agents, the
  filler and Home Assistant may hang for ever.
- *Bridge*: weak fairness of a request's steps, since every wait has a timeout;
  of the return to a caller; and of the end of the reconnect loop's attempt,
  which holds the lock with a timeout. Strong fairness of taking the lock:
  `asyncio.Lock` wakes its waiters in order, but between two holders it is free
  only for moments. The container may hang and the network fail for ever.

---------------------------------------------------------------------------

## 6. Findings

Three runs show that the code does not do what a comment or the documentation of
the repository says.

1. `timer_lost_series` (`agents/timer_scheduler.py:677`). Recovery marks a
   missed recurring alarm expired before it inserts the next occurrence. If the
   process stops in between, the series ends. The path of a task that missed its
   time inserts first. `docs/user-guide.md:259`: "A missed recurring alarm keeps
   its series".
2. `approval_overlap` (`agents/approval.py:462`). The batch read before the
   classifier's await is put back after it without another look at the store, so
   an approval that a newer proposal dropped is open again beside it.
   `agents/automation_confirmation.py:74`: "one open question at a time".
   With one turn of a conversation at a time the sentence is true, for any number
   of turns and restarts (theorem `OneQuestionAtATime`).
3. `entity_hidden_window` (`bootstrap/_entity.py:648`). `build_entity_snapshot`
   fetches the hidden list, awaits the device directory, and only then publishes
   the list, while `on_state_changed` filters by the published one as soon as the
   fetch is done. A push of a hidden entity in between is indexed, and the sync
   keeps it as newer than its snapshot. The comment at
   `bootstrap/_entity.py:1088`: "Before the first snapshot and the hidden list
   are in place, an entity cannot be checked against HA's hidden flag: do not
   index it."

Met while modelling, described here because the properties had to be stated
around them:

- *Timers.* After a restart, recovery rings rows as it loaded them: one that a
  caller paused or cancelled while an earlier row was being delivered rings all
  the same (this is why `TimerPromise` lets a timer that went through a restart
  ring, and `TaskOnlyWhilePending` speaks of timers that were never rehydrated).
  Its `now` is sampled once, so a device action that waits for slow deliveries
  before it may run later than the limit for such actions. A failed insert of the next occurrence is logged and the row
  marked fired (822-830), and the handler of the recovery loop (685-693) marks a
  row fired without a next occurrence: the series ends. A notice whose delivery
  fails for any reason but an unreachable Home Assistant is lost (716-731, 842).
  `FiredSeriesContinues` and `MissedReported` name these cases (`unscheduled`,
  `unsaid`). `reschedule` without a due time takes the one of the row it read
  before its update (551): if another call moves the timer in between, the row
  keeps the new time and the task sleeps for the old one, although the docstring
  (506) says that the task is spawned "from the updated row". `TaskMatchesRow`
  holds of every timer to which this did not happen (`raced`).
- *Cache.* A flush or deletion that falls between a store's check of its token
  and its upsert is not noticed. An invalidation by entity does not find a row
  that is being stored. `invalidate_if_unchanged` deletes and marks in two steps. The
  verdict on an entity's visibility may be older than the readiness of the
  index that decides whether the row is deleted. Two validator runs may overlap
  (`run_periodic` and `POST /validate`), and a correction does not change
  `created_at`: the run whose model accepted the old answer writes its snapshot
  over the correction of the other (`cache_validator.py:447`), although
  `_base_cache.py:277` says that the patch is merged "only while it is unchanged"
  and `sqlite_cache_store.py:644` calls it a compare-and-swap. `CorrectionSticks`
  holds of every write but that of a run which another overtook (`rivals`).
- *Approvals.* With overlapping turns two confirmations of one question both
  run; a declined batch runs if a yes was already being judged; an unclear answer
  that overlaps the asking turn puts back the batch of its first agent and loses
  the calls of the second. A proposal being answered is applied although another
  agent of that turn superseded it. The question of the conversation stored
  longest ago is evicted when the cap is exceeded.
- *Turns.* A reminder is marked as fired before the dispatch and lost if the turn
  fails, is a directive, raises, is cut off in the mediation, or is left by the
  client. With a personality the blocking mediation loses it, too: with an agent
  that said nothing `mediate_response` returns before it looks at the reminder
  (`mediation.py` 439-440), and with an empty rewriting it returns the agent's
  speech alone (479), although its docstring (423-427) has the reminder woven in,
  or appended "on any failure". `ReminderTold` lists exactly these cases.
  When one of several content legs raises, `asyncio.gather`
  (`orchestrator.py:994`) ends the turn and leaves its siblings running, which may
  still post their commands after the error frame; `NothingOutlivesAnswer` and
  `NoCommandAfterAnswer` except these legs (`Abandoned`) and hold of the
  send-agent and of every other turn. The probe of a turn that raised may go on
  reading calendars and mark a reminder that nobody tells.
  The generators below the dispatcher's stream are not closed with it
  (`a2a/transport.py:102`): when a send fails, the handler returns and the agent
  runs on until the event loop finalizes them (`NothingOutlivesAnswer` excepts
  such turns).
- *Link.* A state waiter registered while a teardown waits for the lock is not
  reset, although the waiters are to be failed with the socket; it ends with its
  own timeout (`WaitersFallWithTheirSocket`, a part of `UsersFollowTheirSocket`, names this
  case). A cancelled command
  leaves its entry in `_pending_responses` until the next teardown. A command
  issued during the handshake takes its message id before the subscriptions and
  is sent after them, which Home Assistant refuses since ids must increase; ids
  are not modelled. A waiter may be resolved by an event that was on its way
  before the call.
- *Voice.* The turn that answers an approval question leaves before the lookup
  and leaves the entry, and so does a lookup that is cancelled while it reads the
  settings: a later turn without a session of its own may get that speaker,
  although `discard_pending_speaker` (`service.py:903`) is there so that an entry
  "never leaks into a later turn". A turn that the next utterance interrupts
  looks up, pops or discards whatever entry the conversation has by then, which
  may be that utterance's. A marked turn whose session is aborted or lost loses
  its mark and is carried out. A session that started before the enrollment was
  armed and is analysed after becomes a sample although its turn is carried out;
  `docs/user-guide.md:303` has it that enrollment turns are not. A sample is
  stored when the enrollment is cancelled during the write of it. A
  session whose task is cancelled between its analysis and `end` keeps its
  recording, although the head of `api/routes/voice.py` (31-33) says that it is
  deleted "unless `end` confirms the turn". The properties name the exceptions.
- *Bridge.* A connection lost after the request arrived and before its first
  frame makes the bridge send it again over REST, and the container works twice,
  although the docstring of `_WsNotDeliveredError` (conversation.py 109-117) has
  it that nothing was delivered. A request cancelled while it waits for the lock
  in `_reuse_shared_ws` leaves its socket open, although `_process_via_ws_read`
  says that on any failure or cancellation the socket is closed
  (`SocketsAccounted` names this case).

---------------------------------------------------------------------------

## 7. Proofs

The theorems hold for every number of timers, callers, requests and connections
and every value of the bounds and limits.

`TimerSchedulerProofs` rests on the assumptions of `TimerScheduler`: the bounds
are naturals, the kinds are among the three, the retry interval and the period
are positive.

- `TypeCorrect`. `TypeOK` is inductive as it stands, with lemmas on the types of
  records and of the next occurrence.
- `RingsAlwaysAccounted`. `rings[t] <= arms[t] + boots[t]` is not inductive: a
  step that delivers raises the left side. The invariant proved is `Accounted`:
  the rings plus the *credits* of the timer, one for a task before its delivery
  and one for a row that recovery still holds or may load, do not exceed the
  armings and restarts. Each delivery spends a credit, each arming and each start
  grants one. `RecoveryRuns` (a recovery that holds rows is under way, in a
  process that runs) is needed with it, so that a restart finds nothing left over.
- `FinishedStaysFinished`. A step lemma: from a state of the right types no step
  takes a row from a terminal state to a live one; the `UPDATE`s of pause,
  resume and reschedule test the state, `mark_fired` and `mark_expired` write a
  terminal one.
- `TasksFollowRows`. Strengthened to `Tracked`, which also says what holds of a
  timer that was never rehydrated: recovery does not hold it, and while its
  task may still ring, or marks, its row is pending.
- `SchedulerKeepsPromise`: every behaviour of the scheduler is, under the mapping
  of `TimerRefinement`, one of `TimerPromise`. The step lemma
  `StepKeepsPromise` goes through the actions. Most leave rows, rings, armings
  and restarts as they are, or change the phase of one timer without touching
  what is owed (`Unseen`, `OneRow`); the three that do more are the arming
  (`Armed`), the ring (`Rings`) and the load after a start (`Loaded`). A ring
  needs `Accounted` above, so that one is owed, and `Tracked`, so that the row is
  pending unless the timer went through a restart. `InUse` is a new invariant:
  what a task or the recovery holds was scheduled once, so that marking or
  loading it is a step of a timer the promise knows. `RingsAlwaysAccounted` and
  `FinishedStaysFinished` are consequences of this theorem that speak of the
  scheduler's own variables.
- `PendingAlwaysOwned` and `FiredSeriesGoOn` (a fired alarm has its successor, or
  a failed statement kept it from being scheduled). The invariant is
  `LookedAfter`. Its half `Owned` is the property with the two facts that make it
  inductive: a task or a recovery that is about to report or to continue a miss
  is at a row that has ended, or one whose mark failed. Its half `Continues` says
  that the next occurrence is there, or was given up, as soon as the row is
  *about* to be marked, and that what a task or recovery holds is a scheduled
  row, so that a new one is nobody's.
- `TasksMatchRows` holds for any number of callers. `Follows` adds to the property
  that the row a rename has read still has the due time it will write back, or
  the timer has `raced`; `RacedAt` is what each call guarantees: it keeps the due
  time, or records every rename it overtakes.

`BridgeProofs` rests on `None` being no request and no socket.

- `OneReaderAlways`. The invariant `IInv` adds to `OneReader`: what the pieces of
  state are (`Shape`); a socket never made is nobody's (`FreshHaveNone`,
  `OwnedAreMade`), so that a new connection has no reader yet; and `LockHeldOnce`:
  at most one request or the loop is in the section under the lock, and no idle
  reader runs while a request probes the shared socket. The latter is what makes
  the hand-over from the reader to a request safe: `_idle_reader_ws` is cleared
  and the reader stopped before the socket is probed. `Known` adds the types, and
  everything below rests on it.
- `OwnFramesAlways`. A socket has one of few shapes. It is `Quiet` while it is
  new, shared, or with a request that has not sent or is giving it back; with a
  reading request it carries an `Exchange`: the request on its way, or being
  served, or frames of its answer of which only the last one ends it. So a
  request that has read its last frame leaves a quiet socket behind, and one that
  breaks off must close it.
- `WorkRepeatsAfterLossAlways`. A count of what the container did does not bound
  what it will do: `Worked` gives each request a `Budget` by where it is, none
  before it is sent or goes to REST, one after, two once it was lost and repeated,
  and says that the work done and the copy still in transit together stay within it.
- `SocketsAccountedAlways` and `CancelSparesOthersAlways` are inductive with one
  more fact each (`Held`: the loop connects only if no socket is shared;
  `Spared`: a request that has ended is not joined any more, and nobody waits
  for a cancelled one while the entity is up).

`HaLinkProofs` rests on the names of users and teardowns being different. Its
invariant is about the queue of the lock: `Turns` says who is in it (each once)
and that its holder is its head.

- `OneConnectionAlways`: every session that is neither new nor shut is the
  client's own or the one a teardown is closing (`Sessions`), and no session is
  opened after the shutdown, which comes last (`Stopped`).
- `UsersFollowTheirSocketAlways`: no command stands in the queue behind the task
  that would connect, so one whose future a teardown has failed finds no session
  when its turn comes (`Commands`); the only waiters open while a teardown waits
  for the lock belong to no session (`Waiters`).
- `NoSilentGapAlways` from `Gap`: on an open socket nothing is missed, since the
  reconnect callbacks run before the first read.

`StreamTurnProofs` is for any number of agents and chunks.

- `CommandOnceAlways`: an agent that may still act is running and has not been
  retried, and what it has on the way and what has run are at most one (`LegOK`).
- `NothingOutlivesAnswerAlways` and `NoCommandAfterAnswerAlways`: `Stage` says
  which agents can be at work at which stage of the turn, `Ends` that a stream's
  end is in the queue only when its agent has ended, and `Done` that nothing is
  at work once the answer is out.
  Both except the content legs of a sequential send that another leg made raise;
  that the send-agent is never among them is part of what is proved.
- `OneLastFrameAlways` and `SpokenOnceAlways`: `Spoken` relates the frames sent to
  the flags of the turn that decide what the last frame says (relayed, mediated,
  raised, directive).
- `ReminderToldAlways`: `Reminder` follows the probe from its start to the answer,
  and keeps which mediation was chosen, since the blocking one is excepted.

`ActionCacheProofs` is for any number of keys, workers, stores and invalidations,
and rests on `Keys` being finite (the eviction counts the rows), on workers not
being validators and on positive intervals.

- The types go with `Shapes`, which says which fields of a thread's job mean
  something at which step.
- `AnswersStayAlways`: `Faithful` says the property of the copies that threads
  work on, `seen` and `scan`, as well as of the table.
- `NoRevivalAlways` is a step property: by `RowStep` each step leaves a row's
  number and answer as they are, deletes the row, is its upsert, or patches the
  row whose number the thread has read.
- `CorrectionsStick` holds for any number of overlapping validator runs. `Fixed`
  says of the copies of each run (`FixedJob`, `Unfixed`) that they are as corrected
  as the row, or that the key is among the run's `rivals`, which another run that
  writes a row back adds it to (`RivalsAt`); `Numbers`: a store's number is its
  own.
- `AbortsAreJust`: `Tokens` says that comparing a token with the generation and
  the mark of its key tells exactly what was invalidated since it was taken
  (`voided`, a history variable). It assumes that the window of marks holds every
  key (`Cardinality(Keys) <= MarkWindow`, 4096 in the code); beyond it a mark is
  forgotten by design.

`ApprovalProofs` rests on the limits being naturals, on one agent at least, and
on an approval living no longer than its tombstone (`approval.py` 50-51: 60 and
3600 seconds), so that a question that is still open has not been purged.

- `OnlyConfirmedCalls` holds for every overlap. `Base`: a batch that is open, or
  being answered, has been asked in its conversation, by whom it is kept for, and
  what a turn still has to do is part of it. So what was read before the await of
  the classifier is still true of the batch after it.
- `DoneOnceAlways`, `DropsAreFinal` and `HeldCallsAddUp` say "with one turn of a
  conversation at a time", as the properties do: `overlap = 1` is a condition in
  them, and section 6 tells what happens without. `Questions`: no
  other question takes the place of one that is being judged; one that is being
  executed is out of the store with all of its asker's; after the first call was
  sent only the turn that sent it executes for that asker; and what was dropped
  is neither open nor being answered. `Changes` says the same of proposed changes.
- `OneQuestionAtATime`: with one turn at a time no conversation has a pending
  approval beside a pending proposal (`NoRival`), which finding 2 shows to be
  false for two.

`VoiceTurnsProofs` is for any number of utterances, profiles, enrollments,
samples and replacements, all interleaved.

- `SpeakerOfOwnTurnAlways`: `Entries` says that the entry is of the latest
  session that registered, `Overtaken` that an unfinished earlier turn was
  interrupted, and `Holding` what a waiting turn keeps. What a turn may hear is
  the same before it waits, while it waits and after (`Hears`).
- `MarkedTurnsSpared`: until the turn of a marked session comes, the entry is
  there or one of the excepted things has happened to it (`Spared`).
- `EnrollmentCountsAlways`: the ids an enrollment counts are samples that were
  written and counted for its profile (`Tallied`); a commit that reviews has
  found an enrollment that counts for its profile, or one that is short of
  samples (`ReviewOf`): the case of an enrollment replaced during a commit.
- `CentroidsMatchAlways`: a load that no invalidation has overtaken (`fresh`) has
  read what the table holds (`Cached`); this is what the comparison of the
  version before the install is for.
- `UnconfirmedLeaveNothing`: `Course` and `Recorded` tie where a session is, how
  it ended and what there is of its recording.

`EntityIndexProofs` is for any number of events, lost connections and failed
fetches, and any scenario of syncs, and rests on these bounds being naturals.

- `Typing`: the types, with the two facts that the rest needs. `LockHeld`: a
  handler of a registry event and a resync run only at the head of the queue of
  `registry_refresh_lock`. `Stamps`: nothing the process holds, on the wire or
  in the queue, is newer than Home Assistant, so a sync that reads the states
  knows at least as much as the index at that moment.
- `SnapshotsNeverOlder`: `Fresh` says that this stays so until the sync installs,
  unless the entry was mutated (`touched`, which makes the install keep it) or
  another sync installed meanwhile (`passed`, the exception the property names;
  the periodic sync does not take the lock). `Good` is what each
  action guarantees: a write to the index that may be newer marks every sync
  under way. `InstallsOnly` closes the argument: no other step leaves the install.

Each invariant was first checked by TLC as an invariant of the instances of
section 4. Types are proved together with the invariants (`TypeCorrect`,
`Typing`).

Only model-checked:

- liveness (`PendingEnds`, `MissedReported`, `EveryTurnEnds`, `EveryCallReturns`,
  `EveryOperationEnds`, `EventuallyMirrors`): fairness and ENABLED are outside
  the prover's reach;
- what the findings show, which are behaviours and not theorems.

What a recursive definition computes cannot be proved with the installed
provers; no module needs one.

---------------------------------------------------------------------------

## 8. What is not modelled, and why

Inside the modelled components:

- *Timers*: a change of the recurrence by `reschedule`, failing statements of the
  calls, the purge of rows finished 30 days ago, the index from logical ids
  to rows, the payload of actions and notices, weekdays and daylight saving (a
  series has a fixed period; the calendar is module 9 of the plan).
- *Cache*: import and export, purges at startup, rows that do not parse, the
  nearest-neighbour lookup of the routing tier, the record of deletions. The key
  marks are checked with a window that holds every key: a mark that has left the
  window of 4096 counts as absent by design.
- *Approvals*: which calls are sensitive, the settings and the allowlist, the
  backstop in the Home Assistant client. Every call of the model is a sensitive
  one that is not allowlisted.
- *Turn*: the lookups before the dispatch, merging and storing of answers,
  tracing, localisation; the probe of turns that are not streamed. The
  mediation's stream is one token. What happens after the client is gone is left
  to the finalizers, as in the code.
- *Entity index*: the events of areas and devices (they start the deferred sync
  that is modelled), the collision of names between entities, aliases of the
  user, the token search, what is embedded, and failing writes to the collection
  (they are logged; the next sync compares and repairs it). A crash between the writes of a
  sync is not modelled: the collection is compared and repaired at the next start.
- *Link*: the contents of events, the ids of messages, the polling for a state
  that follows a missed event, and the long pause of the reconnect loop; a
  teardown by `drop_connection` is not cancelled.
- *Voice*: what is computed from the audio (the outcome of an analysis is any of
  its results), scores and rejections, the link of a recording to its trace, its
  assignment to a profile and its retention, the deletion and reset of single
  samples by the administrator, the cancellation of a session inside a commit,
  and entries of other conversations (they only evict).
- *Bridge*: the chat log, follow-up questions, reauthentication, and time (a
  deadline passes whenever it runs). An answer is one token and a last frame.

Other components are listed in `PROJECT.json` with a reason each: planned (9 and
10 above), pure translation or text processing, I/O without state, or code of the
administrator's forms.
