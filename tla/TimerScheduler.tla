--------------------------- MODULE TimerScheduler ---------------------------
(***************************************************************************)
(* The timer and alarm scheduler of container/app/agents/timer_scheduler.py*)
(* and the scheduled_timers table behind it                                *)
(* (container/app/db/repositories/scheduled_timers.py).                    *)
(*                                                                         *)
(* A timer is a database row, which survives a restart, and an asyncio     *)
(* task, which does not.  The process may stop between any two steps; at   *)
(* the next start the rows that are still pending get a task, or, when     *)
(* they came due in the meantime, are worked off one by one by a single    *)
(* recovery coroutine.  API calls read a row in one step and write it in   *)
(* another.  The write and the update of the in-memory task are one step:  *)
(* the module-wide write lock is held until the continuation that updates  *)
(* the task table, and that continuation does not await.                   *)
(*                                                                         *)
(* The statements a timer's end depends on (loading the rows, a terminal   *)
(* mark, the insert of a next occurrence) may fail, and so may the delivery*)
(* of a ring or of a notice.  Two things the code does are left out: a     *)
(* statement of a call that fails, which raises to the caller and changes  *)
(* nothing, and a reschedule that changes whether an alarm recurs          *)
(* (recurrence, clear_recurrence): a timer keeps the kind it was created   *)
(* with.                                                                   *)
(***************************************************************************)
EXTENDS Integers, FiniteSets

CONSTANTS
  Timers,         \* row ids (uuids); a finite pool
  Clients,        \* concurrent callers of cancel/pause/resume/reschedule
  ScheduledKinds, \* bound: kinds of timer the callers of schedule create
  Horizon,        \* bound: latest due time a call may ask for
  MaxTime,        \* bound: the clock stops here
  MaxArms,        \* bound: calls that (re)start the task of one timer
  MaxCrashes,     \* bound: stops of the process
  MaxOutages,     \* bound: times Home Assistant becomes unreachable
  MaxFaults,      \* bound: database statements that fail
  RingGrace,      \* _OVERDUE_RING_GRACE_SECONDS
  ActionMax,      \* _OVERDUE_DEVICE_ACTION_MAX_SECONDS
  RetryInterval,  \* _HA_RETRY_INTERVAL_SECONDS
  RetryGrace,     \* _HA_RETRY_GRACE_SECONDS
  Period          \* the distance of two occurrences of a recurring alarm

ASSUME BoundsAssumption ==
  /\ Horizon \in Nat /\ MaxTime \in Nat /\ MaxArms \in Nat
  /\ MaxCrashes \in Nat /\ MaxOutages \in Nat /\ MaxFaults \in Nat

ASSUME KindsAssumption == ScheduledKinds \subseteq {"action", "ring", "series"}

ASSUME LimitsAssumption ==
  /\ RingGrace \in Nat /\ ActionMax \in Nat /\ RetryGrace \in Nat
  /\ RetryInterval \in Nat \ {0} /\ Period \in Nat \ {0}

VARIABLES
  now,        \* time.time(), in whole units
  ha,         \* Home Assistant can be reached
  up,         \* the process runs and start() has returned
  row,        \* the scheduled_timers table
  task,       \* _tasks: where the task of each id is
  api,        \* the call each client is in: what it read, not yet written
  recPc,      \* where the recovery coroutine is
  todo,       \* overdue rows (or the loaded snapshot) it still holds
  due,        \* fires_at of those rows, as loaded
  cur,        \* the row it is firing
  recNow,     \* its "now", sampled once
  missed,     \* rows of the missed notice it will send
  abandoned,  \* both attempts to load the rows failed in this life
  lost,       \* rows whose terminal mark failed in this life
  arms,       \* history: how often a call (re)started the timer
  boots,      \* history: how often a start rehydrated it
  rings,      \* history: how often it reached Home Assistant
  nexted,     \* history: alarms whose next occurrence was scheduled
  notified,   \* history: timers a missed notice was delivered for
  unscheduled,\* history: alarms whose next occurrence could not be scheduled
  unsaid,     \* history: timers whose missed notice failed and was given up
  raced,      \* history: timers that got another due time under a rename
  crashes, outages, faults

rowVars  == <<row, arms>>
recVars  == <<recPc, todo, due, cur, recNow, missed>>
failVars == <<abandoned, lost, faults>>
histVars == <<boots, rings, nexted, notified, unscheduled, unsaid, raced>>
envVars  == <<now, ha, up, crashes, outages>>

vars == <<now, ha, up, row, task, api, recPc, todo, due, cur, recNow,
          missed, abandoned, lost, arms, boots, rings, nexted,
          notified, unscheduled, unsaid, raced, crashes, outages, faults>>

-----------------------------------------------------------------------------
NoTimer == "no timer"

\* delayed_action and sleep | plain, notification, snooze and one-shot alarm |
\* an alarm with a recurrence
Kinds == {"action", "ring", "series"}

Live     == {"pending", "paused"}
Terminal == {"fired", "expired", "cancelled"}
States   == {"free"} \cup Live \cup Terminal

TaskPcs == {"none", "sleep", "fire", "next", "mark", "notice"}
RecPcs  == {"off", "retry", "snap", "pick", "fire", "next", "mark",
            "missnext", "notice"}
Ops     == {"none", "cancel", "pause", "resume", "move", "rename"}

Rows  == [state : States, kind : Kinds, fires : Nat, left : Nat]
Tasks == [pc : TaskPcs, due : Nat, wake : Nat, end : {"fired", "expired"}]
Calls == [op : Ops, id : Timers \cup {NoTimer}, val : Nat]

FreeRow == [state |-> "free", kind |-> "ring", fires |-> 0, left |-> 0]
NoTask  == [pc |-> "none", due |-> 0, wake |-> 0, end |-> "fired"]
NoCall  == [op |-> "none", id |-> NoTimer, val |-> 0]

\* A fresh task: _run sleeps until the fires_at of the row it was given.
Sleeping(d) == [pc |-> "sleep", due |-> d, wake |-> d, end |-> "fired"]

PendingRow(k, f) == [state |-> "pending", kind |-> k, fires |-> f, left |-> 0]

Lesser(a, b) == IF a < b THEN a ELSE b
\* (faulty) the remaining time of an overdue timer is not cut off at zero
RemainingUnclamped(f) == f - now

Remaining(f) == IF f > now THEN f - now ELSE 0
FreeTimers == {t \in Timers : row[t].state = "free"}
PendingTimers == {t \in Timers : row[t].state = "pending"}

\* (faulty) the row is marked and the next occurrence forgotten
AfterFireMarksFirst(k) == "mark"

\* After a fire attempt _finish_fired / _finish_missed schedules a recurring
\* alarm's next occurrence and then marks the row.
AfterFire(k) == IF k = "series" THEN "next" ELSE "mark"

\* First occurrence after now of a series that was due at d.
NextFire(d) ==
  d + Period * ((IF now > d THEN (now - d) \div Period ELSE 0) + 1)

Init ==
  /\ now = 0 /\ ha = TRUE /\ up = FALSE
  /\ row = [t \in Timers |-> FreeRow]
  /\ task = [t \in Timers |-> NoTask]
  /\ api = [c \in Clients |-> NoCall]
  /\ recPc = "off" /\ todo = {} /\ due = [t \in Timers |-> 0]
  /\ cur = NoTimer /\ recNow = 0 /\ missed = {}
  /\ abandoned = FALSE /\ lost = {}
  /\ arms = [t \in Timers |-> 0] /\ boots = [t \in Timers |-> 0]
  /\ rings = [t \in Timers |-> 0]
  /\ nexted = {} /\ notified = {}
  /\ unscheduled = {} /\ unsaid = {} /\ raced = {}
  /\ crashes = 0 /\ outages = 0 /\ faults = 0

-----------------------------------------------------------------------------
(* schedule, cancel, pause, resume, reschedule                             *)

\* Bound: at most one recurring alarm is created by a call.
Schedule(t, k, f) ==
  /\ up /\ row[t].state = "free" /\ f \in now .. Horizon
  /\ k = "series" => \A u \in Timers : row[u].kind # "series"
  /\ row' = [row EXCEPT ![t] = PendingRow(k, f)]
  /\ task' = [task EXCEPT ![t] = Sleeping(f)]
  /\ arms' = [arms EXCEPT ![t] = 1]
  /\ UNCHANGED <<envVars, api, recVars, failVars, histVars>>

\* The read a call starts with: it returns at once when the row is not in one
\* of the states it accepts, and otherwise keeps a value computed from it.
Read(c, op, t, accepts, val) ==
  /\ up /\ api[c] = NoCall /\ row[t].state \in accepts
  /\ api' = [api EXCEPT ![c] = [op |-> op, id |-> t, val |-> val]]
  /\ UNCHANGED <<envVars, rowVars, task, recVars, failVars, histVars>>

ReadCancel(c, t) == Read(c, "cancel", t, Live, 0)
ReadPause(c, t)  == Read(c, "pause", t, {"pending"}, Remaining(row[t].fires))
ReadResume(c, t) == /\ arms[t] < MaxArms /\ now + row[t].left <= Horizon
                    /\ Read(c, "resume", t, {"paused"}, now + row[t].left)
ReadMove(c, t, f) == /\ arms[t] < MaxArms /\ f \in now .. Horizon
                     /\ Read(c, "move", t, {"pending"}, f)
\* reschedule without new_fires_at keeps the fires_at it read
ReadRename(c, t) == /\ arms[t] < MaxArms
                    /\ Read(c, "rename", t, {"pending"}, row[t].fires)

Return(c) ==
  /\ api' = [api EXCEPT ![c] = NoCall]
  /\ UNCHANGED <<envVars, recVars, failVars, boots, rings, nexted, notified,
                 unscheduled, unsaid>>

\* A rename of t by another call has read the row and not yet written it.
Renaming(c, t) ==
  \E d \in Clients \ {c} : api[d].op = "rename" /\ api[d].id = t

\* The call gives the timer a due time that a rename under way has not read.
GivesDueTime(c, t) == raced' = IF Renaming(c, t) THEN raced \cup {t} ELSE raced

\* mark_cancelled has its own state test, _cancel_task runs whatever it found.
Cancel(c) ==
  LET t == api[c].id IN
  /\ api[c].op = "cancel"
  /\ row' = IF row[t].state \in Live
            THEN [row EXCEPT ![t].state = "cancelled"] ELSE row
  /\ task' = [task EXCEPT ![t] = NoTask]
  /\ Return(c) /\ UNCHANGED <<arms, raced>>

\* (faulty) the task of the paused timer keeps running
PauseKeepsTask(c) ==
  LET t == api[c].id IN
  /\ api[c].op = "pause" /\ row[t].state = "pending"
  /\ row' = [row EXCEPT ![t].state = "paused", ![t].left = api[c].val]
  /\ Return(c) /\ UNCHANGED <<arms, task, raced>>

\* (faulty) mark_paused relies on the state the call read
PauseUnguarded(c) ==
  LET t == api[c].id IN
  /\ api[c].op = "pause"
  /\ row' = [row EXCEPT ![t].state = "paused", ![t].left = api[c].val]
  /\ task' = [task EXCEPT ![t] = NoTask]
  /\ Return(c) /\ UNCHANGED <<arms, raced>>

Pause(c) ==
  LET t == api[c].id IN
  /\ api[c].op = "pause" /\ row[t].state = "pending"
  /\ row' = [row EXCEPT ![t].state = "paused", ![t].left = api[c].val]
  /\ task' = [task EXCEPT ![t] = NoTask]
  /\ Return(c) /\ UNCHANGED <<arms, raced>>

\* (faulty) the task is spawned from the row as it was while paused
ResumeSpawnsOldRow(c) ==
  LET t == api[c].id IN
  /\ api[c].op = "resume" /\ row[t].state = "paused"
  /\ row' = [row EXCEPT ![t] = PendingRow(@.kind, api[c].val)]
  /\ task' = IF task[t].pc = "none"
             THEN [task EXCEPT ![t] = Sleeping(row[t].fires)] ELSE task
  /\ arms' = [arms EXCEPT ![t] = @ + 1]
  /\ GivesDueTime(c, t) /\ Return(c)

\* _spawn_task does nothing when the id already has a task.
Resume(c) ==
  LET t == api[c].id IN
  /\ api[c].op = "resume" /\ row[t].state = "paused"
  /\ row' = [row EXCEPT ![t] = PendingRow(@.kind, api[c].val)]
  /\ task' = IF task[t].pc = "none"
             THEN [task EXCEPT ![t] = Sleeping(api[c].val)] ELSE task
  /\ arms' = [arms EXCEPT ![t] = @ + 1]
  /\ GivesDueTime(c, t) /\ Return(c)

\* A rename leaves fires_at alone in the database, and the new task is spawned
\* from the row as the call read it.
Reschedule(c) ==
  LET t == api[c].id IN
  /\ api[c].op \in {"move", "rename"} /\ row[t].state = "pending"
  /\ row' = IF api[c].op = "move"
            THEN [row EXCEPT ![t].fires = api[c].val] ELSE row
  /\ task' = [task EXCEPT ![t] = Sleeping(api[c].val)]
  /\ arms' = [arms EXCEPT ![t] = @ + 1]
  /\ IF api[c].op = "move" THEN GivesDueTime(c, t) ELSE UNCHANGED raced
  /\ Return(c)

\* The guarded UPDATE matched no row: the call reports that and changes nothing.
Refused(c) ==
  LET s == row[api[c].id].state IN
  /\ \/ api[c].op \in {"pause", "move", "rename"} /\ s # "pending"
     \/ api[c].op = "resume" /\ s # "paused"
  /\ Return(c) /\ UNCHANGED <<rowVars, task, raced>>

-----------------------------------------------------------------------------
(* The task of one timer: _run, _fire_and_finish                           *)

\* The timer rings, or its device action runs.
Rung(t) ==
  /\ rings' = [rings EXCEPT ![t] = @ + 1]
  /\ UNCHANGED <<boots, nexted, notified, unscheduled, unsaid, raced>>

Wake(t) ==
  /\ task[t].pc = "sleep" /\ now >= task[t].wake
  /\ task' = [task EXCEPT ![t].pc = "fire"]
  /\ UNCHANGED <<envVars, rowVars, api, recVars, failVars, histVars>>

Deliver(t) ==
  /\ task[t].pc = "fire" /\ ha
  /\ task' = [task EXCEPT ![t].pc = AfterFire(row[t].kind)]
  /\ Rung(t)
  /\ UNCHANGED <<envVars, rowVars, api, recVars, failVars>>

\* Any other outcome than ha_unreachable is terminal (an exception, or no
\* dispatcher, is one), and for a device action that one is too.
FireFails(t) ==
  /\ task[t].pc = "fire"
  /\ task' = [task EXCEPT ![t].pc = AfterFire(row[t].kind)]
  /\ UNCHANGED <<envVars, rowVars, api, recVars, failVars, histVars>>

Unreachable(t) ==
  LET giveUpAt == task[t].due + RetryGrace IN
  /\ task[t].pc = "fire" /\ ~ha /\ row[t].kind # "action"
  /\ task' = IF now >= giveUpAt
             THEN [task EXCEPT ![t].pc = AfterFire(row[t].kind),
                               ![t].end = "expired"]
             ELSE [task EXCEPT ![t].pc = "sleep",
                       ![t].wake = Lesser(now + RetryInterval, giveUpAt)]
  /\ UNCHANGED <<envVars, rowVars, api, recVars, failVars, histVars>>

\* _schedule_next_recurrence.  A series whose next occurrence lies beyond the
\* bounds ends, as one without a further occurrence does.
AddOccurrence(t, d, tasks) ==
  /\ nexted' = nexted \cup {t}
  /\ IF FreeTimers = {} \/ NextFire(d) > Horizon
     THEN task' = tasks /\ UNCHANGED rowVars
     ELSE \E u \in FreeTimers :
            /\ row' = [row EXCEPT ![u] = PendingRow("series", NextFire(d))]
            /\ task' = [tasks EXCEPT ![u] = Sleeping(NextFire(d))]
            /\ arms' = [arms EXCEPT ![u] = 1]
  /\ UNCHANGED <<boots, rings, notified, unscheduled, unsaid, raced>>

ScheduleNext(t) ==
  /\ task[t].pc = "next"
  /\ AddOccurrence(t, task[t].due, [task EXCEPT ![t].pc = "mark"])
  /\ UNCHANGED <<envVars, api, recVars, failVars>>

\* The statement failed: the alarm is given up without a next occurrence.
GivesUpNext(t) ==
  /\ faults < MaxFaults /\ faults' = faults + 1
  /\ unscheduled' = unscheduled \cup {t}
  /\ UNCHANGED <<boots, rings, nexted, notified, unsaid, raced>>

\* _schedule_next_occurrence_safely logs it, and the row is marked all the same.
ScheduleNextFails(t) ==
  /\ task[t].pc = "next"
  /\ task' = [task EXCEPT ![t].pc = "mark"]
  /\ GivesUpNext(t)
  /\ UNCHANGED <<envVars, rowVars, api, recVars, abandoned, lost>>

\* A missed row is followed by its notice, any other ends the task.
AfterMark(k) == IF k.end = "expired" THEN [k EXCEPT !.pc = "notice"] ELSE NoTask

\* mark_fired and mark_expired do not test the state of the row.
Mark(t) ==
  /\ task[t].pc = "mark"
  /\ row' = [row EXCEPT ![t].state = task[t].end]
  /\ task' = [task EXCEPT ![t] = AfterMark(@)]
  /\ UNCHANGED <<envVars, arms, api, recVars, failVars, histVars>>

\* A failing UPDATE is logged and the task goes on.
MarkFails(t) ==
  /\ task[t].pc = "mark" /\ faults < MaxFaults
  /\ task' = [task EXCEPT ![t] = AfterMark(@)]
  /\ lost' = lost \cup {t} /\ faults' = faults + 1
  /\ UNCHANGED <<envVars, rowVars, api, recVars, abandoned, histVars>>

\* _send_missed_notice retries until Home Assistant can be reached.
SendNotice(t) ==
  /\ task[t].pc = "notice" /\ ha
  /\ task' = [task EXCEPT ![t] = NoTask]
  /\ notified' = notified \cup {t}
  /\ UNCHANGED <<envVars, rowVars, api, recVars, failVars,
                 boots, rings, nexted, unscheduled, unsaid, raced>>

\* Any other outcome than ha_unreachable, delivered or not, ends it.
NoticeFails(t) ==
  /\ task[t].pc = "notice"
  /\ task' = [task EXCEPT ![t] = NoTask]
  /\ unsaid' = unsaid \cup {t}
  /\ UNCHANGED <<envVars, rowVars, api, recVars, failVars,
                 boots, rings, nexted, notified, unscheduled, raced>>

-----------------------------------------------------------------------------
(* start, its retry, and _process_overdue_rows                             *)

\* _rehydrate_rows: rows loaded with the due times d, of ids without a task.
Rehydrate(S, d) ==
  LET late == {t \in S : d[t] <= now} IN
  /\ task' = [t \in Timers |-> IF t \in S \ late THEN Sleeping(d[t])
                               ELSE task[t]]
  /\ todo' = late /\ due' = [t \in Timers |-> IF t \in late THEN d[t] ELSE 0]
  /\ recNow' = IF late = {} THEN 0 ELSE now
  /\ recPc' = IF late = {} THEN "off" ELSE "pick"
  /\ boots' = [t \in Timers |-> IF t \in S THEN boots[t] + 1 ELSE boots[t]]
  /\ UNCHANGED <<cur, missed, rings, nexted, notified, unscheduled, unsaid,
                 raced>>

Start ==
  /\ ~up /\ up' = TRUE
  /\ Rehydrate(PendingTimers, [t \in Timers |-> row[t].fires])
  /\ UNCHANGED <<now, ha, crashes, outages, rowVars, api, failVars>>

\* Loading the rows failed: start returns, and a task tries once more.
StartFails ==
  /\ ~up /\ up' = TRUE /\ faults < MaxFaults
  /\ recPc' = "retry" /\ faults' = faults + 1
  /\ UNCHANGED <<now, ha, crashes, outages, rowVars, task, api, todo, due, cur,
                 recNow, missed, abandoned, lost, histVars>>

RetryLoad ==
  /\ recPc = "retry" /\ recPc' = "snap"
  /\ todo' = PendingTimers
  /\ due' = [t \in Timers |-> IF t \in PendingTimers THEN row[t].fires ELSE 0]
  /\ UNCHANGED <<envVars, rowVars, task, api, cur, recNow, missed,
                 failVars, histVars>>

RetryFails ==
  /\ recPc = "retry" /\ recPc' = "off" /\ faults < MaxFaults
  /\ abandoned' = TRUE /\ faults' = faults + 1
  /\ UNCHANGED <<envVars, rowVars, task, api, todo, due, cur, recNow,
                 missed, lost, histVars>>

RetryRehydrate ==
  /\ recPc = "snap"
  /\ Rehydrate({t \in todo : task[t].pc = "none"}, due)
  /\ UNCHANGED <<envVars, rowVars, api, failVars>>

\* The loop takes the overdue rows in the order of their due times.
Takes(t) ==
  /\ recPc = "pick" /\ t \in todo /\ \A u \in todo : due[t] <= due[u]
  /\ todo' = todo \ {t}

Lateness(t) == recNow - due[t]

DropLate(t) ==
  /\ Takes(t) /\ row[t].kind = "action" /\ Lateness(t) > ActionMax
  /\ row' = [row EXCEPT ![t].state = "expired"]
  /\ UNCHANGED <<envVars, task, api, recPc, due, cur, recNow, missed,
                 failVars, arms, histVars>>

\* A statement of the loop failed: its handler marks the row fired.
Handler(t) == recPc' = "mark" /\ cur' = t

DropLateFails(t) ==
  /\ Takes(t) /\ row[t].kind = "action" /\ Lateness(t) > ActionMax
  /\ faults < MaxFaults /\ faults' = faults + 1
  /\ Handler(t)
  /\ UNCHANGED <<envVars, rowVars, task, api, due, recNow, missed, abandoned,
                 lost, histVars>>

Miss(t) ==
  /\ Takes(t) /\ row[t].kind # "action" /\ Lateness(t) > RingGrace
  /\ row' = [row EXCEPT ![t].state = "expired"]
  /\ missed' = missed \cup {t}
  /\ IF row[t].kind = "series"
     THEN recPc' = "missnext" /\ cur' = t ELSE UNCHANGED <<recPc, cur>>
  /\ UNCHANGED <<envVars, task, api, due, recNow, failVars, arms,
                 histVars>>

\* The row could not be marked expired: it is reported as missed, and a series
\* ends, as the handler leaves out the next occurrence.
MissFails(t) ==
  /\ Takes(t) /\ row[t].kind # "action" /\ Lateness(t) > RingGrace
  /\ missed' = missed \cup {t}
  /\ Handler(t)
  /\ IF row[t].kind = "series"
     THEN GivesUpNext(t)
     ELSE /\ faults < MaxFaults /\ faults' = faults + 1
          /\ UNCHANGED histVars
  /\ UNCHANGED <<envVars, rowVars, task, api, due, recNow, abandoned, lost>>

MissNext ==
  /\ recPc = "missnext" /\ recPc' = "pick" /\ cur' = NoTimer
  /\ AddOccurrence(cur, due[cur], task)
  /\ UNCHANGED <<envVars, api, todo, due, recNow, missed, failVars>>

Begin(t) ==
  /\ Takes(t)
  /\ Lateness(t) <= IF row[t].kind = "action" THEN ActionMax ELSE RingGrace
  /\ recPc' = "fire" /\ cur' = t
  /\ UNCHANGED <<envVars, rowVars, task, api, due, recNow, missed, failVars,
                 histVars>>

RecGoes(pc) ==
  /\ recPc' = pc
  /\ cur' = IF pc = "pick" THEN NoTimer ELSE cur
  /\ UNCHANGED <<envVars, api, todo, due, recNow, missed>>

RecDeliver ==
  /\ recPc = "fire" /\ ha /\ RecGoes(AfterFire(row[cur].kind))
  /\ Rung(cur)
  /\ UNCHANGED <<rowVars, task, failVars>>

RecFails ==
  /\ recPc = "fire"
  /\ RecGoes(AfterFire(row[cur].kind))
  /\ UNCHANGED <<rowVars, task, failVars, histVars>>

\* (faulty) a ring that cannot be delivered is left behind
RecUnreachableDrops ==
  /\ recPc = "fire" /\ ~ha /\ row[cur].kind # "action" /\ RecGoes("pick")
  /\ UNCHANGED <<task, rowVars, failVars, histVars>>

\* The ring moves to a task of its own, unless its id has one by now.
RecUnreachable ==
  /\ recPc = "fire" /\ ~ha /\ row[cur].kind # "action" /\ RecGoes("pick")
  /\ task' = IF task[cur].pc = "none"
             THEN [task EXCEPT ![cur] = Sleeping(due[cur])] ELSE task
  /\ UNCHANGED <<rowVars, failVars, histVars>>

RecNext ==
  /\ recPc = "next" /\ RecGoes("mark")
  /\ AddOccurrence(cur, due[cur], task)
  /\ UNCHANGED failVars

\* After a ring the row is marked fired all the same, and the handler marks one
\* that was missed (and is expired by now) fired, too.
RecNextFails ==
  /\ recPc \in {"next", "missnext"} /\ RecGoes("mark")
  /\ GivesUpNext(cur)
  /\ UNCHANGED <<rowVars, task, abandoned, lost>>

RecMark ==
  /\ recPc = "mark" /\ RecGoes("pick")
  /\ row' = [row EXCEPT ![cur].state = "fired"]
  /\ UNCHANGED <<arms, task, failVars, histVars>>

RecMarkFails ==
  /\ recPc = "mark" /\ RecGoes("pick") /\ faults < MaxFaults
  /\ lost' = lost \cup {cur} /\ faults' = faults + 1
  /\ UNCHANGED <<rowVars, task, abandoned, histVars>>

\* (faulty) recovery ends without the missed notice
RecDoneSilent ==
  /\ recPc = "pick" /\ todo = {} /\ recPc' = "off"
  /\ due' = [t \in Timers |-> 0] /\ recNow' = 0
  /\ UNCHANGED <<envVars, rowVars, task, api, todo, cur, missed,
                 failVars, histVars>>

RecDone ==
  /\ recPc = "pick" /\ todo = {}
  /\ recPc' = IF missed = {} THEN "off" ELSE "notice"
  /\ due' = [t \in Timers |-> 0] /\ recNow' = 0
  /\ UNCHANGED <<envVars, rowVars, task, api, todo, cur, missed,
                 failVars, histVars>>

RecNotice ==
  /\ recPc = "notice" /\ ha /\ recPc' = "off"
  /\ notified' = notified \cup missed /\ missed' = {}
  /\ UNCHANGED <<envVars, rowVars, task, api, todo, due, cur, recNow,
                 failVars, boots, rings, nexted, unscheduled, unsaid, raced>>

RecNoticeFails ==
  /\ recPc = "notice" /\ recPc' = "off"
  /\ unsaid' = unsaid \cup missed /\ missed' = {}
  /\ UNCHANGED <<envVars, rowVars, task, api, todo, due, cur, recNow,
                 failVars, boots, rings, nexted, notified, unscheduled, raced>>

-----------------------------------------------------------------------------
(* The environment: the process stops, Home Assistant goes away, time.     *)

\* stop(), or the process dies: every coroutine ends, the rows stay.
Stop ==
  /\ up /\ up' = FALSE /\ crashes < MaxCrashes /\ crashes' = crashes + 1
  /\ task' = [t \in Timers |-> NoTask]
  /\ api' = [c \in Clients |-> NoCall]
  /\ recPc' = "off" /\ todo' = {} /\ due' = [t \in Timers |-> 0]
  /\ cur' = NoTimer /\ recNow' = 0 /\ missed' = {}
  /\ abandoned' = FALSE /\ lost' = {}
  /\ UNCHANGED <<now, ha, outages, rowVars, faults, histVars>>

HaDown ==
  /\ ha /\ ha' = FALSE /\ outages < MaxOutages /\ outages' = outages + 1
  /\ UNCHANGED <<now, up, crashes, rowVars, task, api, recVars, failVars,
                 histVars>>

HaUp ==
  /\ ~ha /\ ha' = TRUE
  /\ UNCHANGED <<now, up, crashes, outages, rowVars, task, api, recVars,
                 failVars, histVars>>

\* A sleeping task wakes when it is due; anything else may take time.
Tick ==
  /\ now < MaxTime /\ now' = now + 1
  /\ \A t \in Timers : task[t].pc = "sleep" => now < task[t].wake
  /\ UNCHANGED <<ha, up, crashes, outages, rowVars, task, api, recVars,
                 failVars, histVars>>

-----------------------------------------------------------------------------
Call(c) == Cancel(c) \/ Pause(c) \/ Resume(c) \/ Reschedule(c) \/ Refused(c)

TaskStep(t) ==
  \/ Wake(t) \/ Deliver(t) \/ FireFails(t) \/ Unreachable(t)
  \/ ScheduleNext(t) \/ Mark(t) \/ SendNotice(t)

RecoveryStep ==
  \/ RetryLoad \/ RetryRehydrate \/ MissNext
  \/ RecDeliver \/ RecFails \/ RecUnreachable \/ RecNext \/ RecMark
  \/ RecDone \/ RecNotice
  \/ \E t \in Timers : DropLate(t) \/ Miss(t) \/ Begin(t)

Fault ==
  \/ StartFails \/ RetryFails \/ RecMarkFails \/ RecNextFails \/ RecNoticeFails
  \/ \E t \in Timers :
       \/ MarkFails(t) \/ ScheduleNextFails(t) \/ NoticeFails(t)
       \/ DropLateFails(t) \/ MissFails(t)

Next ==
  \/ \E t \in Timers :
       \/ \E k \in ScheduledKinds, f \in 0 .. Horizon : Schedule(t, k, f)
       \/ \E c \in Clients :
            \/ ReadCancel(c, t) \/ ReadPause(c, t) \/ ReadResume(c, t)
            \/ ReadRename(c, t) \/ \E f \in 0 .. Horizon : ReadMove(c, t, f)
       \/ TaskStep(t)
  \/ \E c \in Clients : Call(c)
  \/ Start \/ RecoveryStep \/ Fault
  \/ Stop \/ HaDown \/ HaUp \/ Tick

Spec == Init /\ [][Next]_vars

\* Fairness: the event loop runs every coroutine that can go on, the
\* supervisor restarts the process, the clock advances, and Home Assistant
\* comes back (its outages are bounded by MaxOutages).
Fairness ==
  /\ \A t \in Timers : WF_vars(TaskStep(t))
  /\ WF_vars(RecoveryStep) /\ WF_vars(Start)
  /\ WF_vars(HaUp) /\ WF_vars(Tick)

FairSpec == Spec /\ Fairness

-----------------------------------------------------------------------------
TypeOK ==
  /\ now \in Nat /\ ha \in BOOLEAN /\ up \in BOOLEAN
  /\ row \in [Timers -> Rows] /\ task \in [Timers -> Tasks]
  /\ api \in [Clients -> Calls]
  /\ \A c \in Clients : api[c].op # "none" => api[c].id \in Timers
  /\ recPc \in RecPcs /\ todo \subseteq Timers /\ due \in [Timers -> Nat]
  /\ cur \in Timers \cup {NoTimer}
  /\ recPc \in {"fire", "next", "mark", "missnext"} => cur \in Timers
  /\ recNow \in Nat /\ missed \subseteq Timers
  /\ abandoned \in BOOLEAN /\ lost \subseteq Timers
  /\ arms \in [Timers -> Nat] /\ boots \in [Timers -> Nat]
  /\ rings \in [Timers -> Nat]
  /\ nexted \subseteq Timers
  /\ notified \subseteq Timers
  /\ unscheduled \subseteq Timers /\ unsaid \subseteq Timers
  /\ raced \subseteq Timers
  /\ crashes \in Nat /\ outages \in Nat /\ faults \in Nat

\* A timer reaches Home Assistant at most once for each call that (re)started
\* it and each restart that rehydrated it: the retries of an unreachable Home
\* Assistant, a hand-over from recovery to a task and a racing call add none.
RingsAccounted == \A t \in Timers : rings[t] <= arms[t] + boots[t]

\* No pending timer is forgotten: while the process runs it has a task, or the
\* recovery coroutine holds it or will load it, unless a database statement
\* that would have taken care of it failed.
PendingHasOwner ==
  up /\ ~abandoned =>
    \A t \in PendingTimers :
      \/ task[t].pc \in {"sleep", "fire", "next", "mark"}
      \/ t \in todo \/ cur = t \/ recPc = "retry" \/ t \in lost

\* A task that may still ring, or is ringing, belongs to a pending row: cancel,
\* pause, reschedule and stop leave no task behind, whatever they race with.
\* (Rows handled by the recovery coroutine are the exception.)
TaskOnlyWhilePending ==
  \A t \in Timers :
    boots[t] = 0 /\ task[t].pc \in {"sleep", "fire", "next", "mark"}
      => row[t].state = "pending"

\* A recurring alarm is marked fired only after its next occurrence was
\* scheduled, so that a stop in between never ends the series: only a failed
\* statement does, at its insert or at the mark of a missed row.
FiredSeriesContinues ==
  \A t \in Timers :
    row[t].kind = "series" /\ row[t].state = "fired"
      => t \in nexted \cup unscheduled

\* The task of a timer that was never rehydrated sleeps for the due time the
\* database holds, whatever calls race on it, unless one of them gave the timer
\* a due time between the read and the write of a rename.  (reschedule's docstring,
\* timer_scheduler.py:506, has no such exception: the task is spawned "from the
\* updated row"; line 551 takes the due time from the row read before.)
TaskMatchesRow ==
  \A t \in Timers :
    boots[t] = 0 /\ task[t].pc \in {"sleep", "fire"}
      => task[t].due = row[t].fires \/ t \in raced

\* A finished timer never becomes pending or paused again.
NoResurrection ==
  [][\A t \in Timers :
       row[t].state \in Terminal => row'[t].state \in Terminal]_vars

\* Every pending timer is eventually fired, expired, paused or cancelled, over
\* outages and restarts, unless a failed statement left it without an owner.
PendingEnds ==
  \A t \in Timers :
    row[t].state = "pending"
      ~> row[t].state # "pending" \/ t \in lost \/ abandoned

\* The notice for a missed timer waits for Home Assistant and is delivered,
\* unless its delivery fails once Home Assistant answers, the process stops
\* first, or a call that read the row before it was marked ends the task that
\* would send it.
MissedReported ==
  \A t \in Timers :
    task[t].pc = "notice" \/ t \in missed
      ~> \/ t \in notified \cup unsaid \/ ~up
         \/ \E c \in Clients : api[c].id = t

-----------------------------------------------------------------------------
\* A statement of the documentation that the code does not keep.

\* "A missed recurring alarm keeps its series": its next occurrence exists, or
\* recovery is about to schedule it.
MissedSeriesContinues ==
  \A t \in Timers :
    row[t].kind = "series" /\ row[t].state = "expired"
      => t \in nexted \/ recPc = "missnext"
=============================================================================
