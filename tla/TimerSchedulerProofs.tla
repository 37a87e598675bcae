------------------------ MODULE TimerSchedulerProofs ------------------------
(* Theorems about TimerScheduler, for every value of its constants; the    *)
(* last section is its refinement of TimerPromise.                         *)
EXTENDS TimerRefinement, TLAPS

USE DEF Kinds, Live, Terminal, States, TaskPcs, RecPcs, Ops

-----------------------------------------------------------------------------
(* Rows and tasks keep their types under the updates the actions make.     *)

LEMMA RecordTypes ==
  /\ NoTask \in Tasks /\ NoCall \in Calls
  /\ \A d \in Nat : Sleeping(d) \in Tasks
  /\ \A k \in Kinds, f \in Nat : PendingRow(k, f) \in Rows
  /\ \A r \in Rows : r.state \in States /\ r.kind \in Kinds
                     /\ r.fires \in Nat /\ r.left \in Nat
  /\ \A k \in Tasks : /\ k.pc \in TaskPcs /\ k.due \in Nat /\ k.wake \in Nat
                      /\ k.end \in {"fired", "expired"}
                      /\ AfterMark(k) \in Tasks
  /\ \A k \in Kinds : AfterFire(k) \in {"next", "mark"}
  BY DEF NoTask, NoCall, Tasks, Calls, Sleeping, PendingRow, Rows, AfterMark,
         AfterFire

LEMMA SetRow ==
  ASSUME row \in [Timers -> Rows], NEW t \in Timers
  PROVE  /\ \A s \in States : [row EXCEPT ![t].state = s] \in [Timers -> Rows]
         /\ \A f \in Nat : [row EXCEPT ![t].fires = f] \in [Timers -> Rows]
         /\ \A f \in Nat : [row EXCEPT ![t].state = "paused", ![t].left = f]
                             \in [Timers -> Rows]
         /\ \A r \in Rows : [row EXCEPT ![t] = r] \in [Timers -> Rows]
  BY DEF Rows

LEMMA SetTask ==
  ASSUME NEW tasks \in [Timers -> Tasks], NEW t \in Timers
  PROVE  /\ \A k \in Tasks : [tasks EXCEPT ![t] = k] \in [Timers -> Tasks]
         /\ \A pc \in TaskPcs :
             [tasks EXCEPT ![t].pc = pc] \in [Timers -> Tasks]
         /\ \A pc \in TaskPcs :
              [tasks EXCEPT ![t].pc = pc, ![t].end = "expired"]
                \in [Timers -> Tasks]
         /\ \A w \in Nat : [tasks EXCEPT ![t].pc = "sleep", ![t].wake = w]
                             \in [Timers -> Tasks]
  BY DEF Tasks

\* The end of a fire, and the wait before another attempt, keep the task a task.
LEMMA FiredTask ==
  ASSUME row \in [Timers -> Rows], task \in [Timers -> Tasks], NEW t \in Timers
  PROVE  /\ [task EXCEPT ![t].pc = AfterFire(row[t].kind)]
              \in [Timers -> Tasks]
         /\ [task EXCEPT ![t].pc = AfterFire(row[t].kind),
                         ![t].end = "expired"] \in [Timers -> Tasks]
<1>1. row[t].kind \in Kinds
  BY DEF Rows
<1>2. AfterFire(row[t].kind) \in TaskPcs
  BY <1>1, RecordTypes DEF TaskPcs
<1> DEFINE pc == AfterFire(row[t].kind)
<1> HIDE DEF pc
<1>3. pc \in TaskPcs
  BY <1>2 DEF pc
<1>4. /\ [task EXCEPT ![t].pc = pc] \in [Timers -> Tasks]
      /\ [task EXCEPT ![t].pc = pc, ![t].end = "expired"] \in [Timers -> Tasks]
  BY <1>3, SetTask
<1> QED BY <1>4 DEF pc

LEMMA WaitingTask ==
  ASSUME task \in [Timers -> Tasks], NEW t \in Timers, NEW w \in Nat
  PROVE  [task EXCEPT ![t].pc = "sleep", ![t].wake = w] \in [Timers -> Tasks]
  BY SetTask

\* The next occurrence of an alarm is a time: its distance is a positive
\* multiple of the period.
LEMMA NextFireType ==
  ASSUME now \in Nat, NEW d \in Nat
  PROVE  NextFire(d) \in Nat
<1> DEFINE n == IF now > d THEN (now - d) \div Period ELSE 0
<1>1. now \in Nat /\ Period \in Nat /\ Period > 0
  BY LimitsAssumption
<1>2. n \in Nat
  BY <1>1
<1>3. Period * (n + 1) \in Nat
  BY <1>1, <1>2
<1> QED BY <1>3 DEF NextFire

\* Scheduling the next occurrence adds at most one row, with its task.
LEMMA AddOccurrenceType ==
  ASSUME TypeOK, NEW t \in Timers, NEW d \in Nat,
         NEW tasks \in [Timers -> Tasks], AddOccurrence(t, d, tasks)
  PROVE  /\ row' \in [Timers -> Rows] /\ task' \in [Timers -> Tasks]
         /\ arms' \in [Timers -> Nat] /\ nexted' \subseteq Timers
         /\ UNCHANGED <<boots, rings, notified, unscheduled, unsaid, raced>>
<1> DEFINE f == NextFire(d)
<1>1. f \in Nat
  BY NextFireType DEF TypeOK
<1>2. PendingRow("series", f) \in Rows /\ Sleeping(f) \in Tasks
  BY <1>1, RecordTypes
<1> HIDE DEF f
<1>3. /\ nexted' = nexted \cup {t}
      /\ UNCHANGED <<boots, rings, notified, unscheduled, unsaid, raced>>
      /\ \/ task' = tasks /\ UNCHANGED <<row, arms>>
         \/ \E u \in Timers :
              /\ row' = [row EXCEPT ![u] = PendingRow("series", f)]
              /\ task' = [tasks EXCEPT ![u] = Sleeping(f)]
              /\ arms' = [arms EXCEPT ![u] = 1]
  BY DEF AddOccurrence, FreeTimers, rowVars, f
<1>4. CASE task' = tasks /\ UNCHANGED <<row, arms>>
  BY <1>3, <1>4 DEF TypeOK
<1>5. ASSUME NEW u \in Timers,
             row' = [row EXCEPT ![u] = PendingRow("series", f)],
             task' = [tasks EXCEPT ![u] = Sleeping(f)],
             arms' = [arms EXCEPT ![u] = 1]
      PROVE  /\ row' \in [Timers -> Rows] /\ task' \in [Timers -> Tasks]
             /\ arms' \in [Timers -> Nat]
  <2>1. row' \in [Timers -> Rows]
    BY <1>2, <1>5, SetRow DEF TypeOK
  <2>2. task' \in [Timers -> Tasks]
    BY <1>2, <1>5, SetTask
  <2> QED BY <1>5, <2>1, <2>2 DEF TypeOK
<1> QED BY <1>3, <1>4, <1>5 DEF TypeOK

-----------------------------------------------------------------------------
(* Type correctness.                                                       *)

LEMMA TypeOKInductive ==
  ASSUME TypeOK, [Next]_vars
  PROVE  TypeOK'
<1> USE DEF TypeOK, rowVars, recVars, failVars, histVars, envVars
<1> USE RecordTypes
<1>1. ASSUME NEW t \in Timers, NEW k \in Kinds, NEW f \in 0 .. Horizon,
             Schedule(t, k, f)
      PROVE  TypeOK'
  <2>1. PendingRow(k, f) \in Rows /\ Sleeping(f) \in Tasks
    BY <1>1, BoundsAssumption
  <2>2. row' \in [Timers -> Rows]
    BY <1>1, <2>1, SetRow DEF Schedule
  <2>3. task' \in [Timers -> Tasks]
    BY <1>1, <2>1, SetTask DEF Schedule
  <2> QED BY <1>1, <2>2, <2>3 DEF Schedule
<1>2. ASSUME NEW c \in Clients, NEW t \in Timers, NEW op \in Ops,
             NEW accepts, NEW val \in Nat, Read(c, op, t, accepts, val)
      PROVE  TypeOK'
  BY <1>2 DEF Read, Calls
<1>3. ASSUME NEW c \in Clients, Cancel(c) PROVE TypeOK'
  <2> DEFINE t == api[c].id
  <2>1. t \in Timers /\ api[c].val \in Nat
    BY <1>3 DEF Cancel, Calls
  <2>2. row' \in [Timers -> Rows]
    BY <1>3, <2>1, SetRow DEF Cancel
  <2>3. task' \in [Timers -> Tasks]
    BY <1>3, <2>1, SetTask DEF Cancel
  <2>4. /\ api' \in [Clients -> Calls]
        /\ \A d \in Clients : api'[d].op # "none" => api'[d].id \in Timers
    BY <1>3 DEF Cancel, Return, NoCall
  <2> QED BY <1>3, <2>1, <2>2, <2>3, <2>4 DEF Cancel, Return
<1>4. ASSUME NEW c \in Clients, Pause(c) PROVE TypeOK'
  <2> DEFINE t == api[c].id
  <2>1. t \in Timers /\ api[c].val \in Nat
    BY <1>4 DEF Pause, Calls
  <2>2. row' \in [Timers -> Rows]
    BY <1>4, <2>1, SetRow DEF Pause
  <2>3. task' \in [Timers -> Tasks]
    BY <1>4, <2>1, SetTask DEF Pause
  <2>4. /\ api' \in [Clients -> Calls]
        /\ \A d \in Clients : api'[d].op # "none" => api'[d].id \in Timers
    BY <1>4 DEF Pause, Return, NoCall
  <2> QED BY <1>4, <2>1, <2>2, <2>3, <2>4 DEF Pause, Return
<1>5. ASSUME NEW c \in Clients, Resume(c) PROVE TypeOK'
  <2> DEFINE t == api[c].id
  <2>1. t \in Timers /\ api[c].val \in Nat
    BY <1>5 DEF Resume, Calls
  <2>2. row' \in [Timers -> Rows]
    BY <1>5, <2>1, SetRow DEF Resume
  <2>3. task' \in [Timers -> Tasks]
    BY <1>5, <2>1, SetTask DEF Resume
  <2>4. /\ api' \in [Clients -> Calls]
        /\ \A d \in Clients : api'[d].op # "none" => api'[d].id \in Timers
    BY <1>5 DEF Resume, Return, NoCall
  <2>5. arms' \in [Timers -> Nat] /\ raced' \subseteq Timers
    BY <1>5, <2>1 DEF Resume, GivesDueTime
  <2> QED BY <1>5, <2>1, <2>2, <2>3, <2>4, <2>5 DEF Resume, Return
<1>6. ASSUME NEW c \in Clients, Reschedule(c) PROVE TypeOK'
  <2> DEFINE t == api[c].id
  <2>1. t \in Timers /\ api[c].val \in Nat
    BY <1>6 DEF Reschedule, Calls
  <2>2. row' \in [Timers -> Rows]
    BY <1>6, <2>1, SetRow DEF Reschedule
  <2>3. task' \in [Timers -> Tasks]
    BY <1>6, <2>1, SetTask DEF Reschedule
  <2>4. /\ api' \in [Clients -> Calls]
        /\ \A d \in Clients : api'[d].op # "none" => api'[d].id \in Timers
    BY <1>6 DEF Reschedule, Return, NoCall
  <2>5. arms' \in [Timers -> Nat] /\ raced' \subseteq Timers
    BY <1>6, <2>1 DEF Reschedule, GivesDueTime
  <2> QED BY <1>6, <2>1, <2>2, <2>3, <2>4, <2>5 DEF Reschedule, Return
<1>7. ASSUME NEW c \in Clients, Refused(c) PROVE TypeOK'
  BY <1>7 DEF Refused, Return, NoCall
<1>8. ASSUME NEW t \in Timers, Wake(t) PROVE TypeOK'
  BY <1>8, SetTask DEF Wake
<1>9. ASSUME NEW t \in Timers, Deliver(t) PROVE TypeOK'
  <2>1. task' \in [Timers -> Tasks]
    BY <1>9, FiredTask DEF Deliver
  <2>2. rings' \in [Timers -> Nat]
    BY <1>9 DEF Deliver, Rung
  <2> QED BY <1>9, <2>1, <2>2 DEF Deliver, Rung
<1>10. ASSUME NEW t \in Timers, FireFails(t) PROVE TypeOK'
  <2>1. task' \in [Timers -> Tasks]
    BY <1>10, FiredTask DEF FireFails
  <2> QED BY <1>10, <2>1 DEF FireFails
<1>11. ASSUME NEW t \in Timers, Unreachable(t) PROVE TypeOK'
  <2>1. Lesser(now + RetryInterval, task[t].due + RetryGrace) \in Nat
    BY LimitsAssumption DEF Lesser
  <2>2. task' \in [Timers -> Tasks]
    <3> DEFINE w == Lesser(now + RetryInterval, task[t].due + RetryGrace)
    <3>1. w \in Nat
      BY <2>1
    <3> HIDE DEF w
    <3>2. [task EXCEPT ![t].pc = "sleep", ![t].wake = w] \in [Timers -> Tasks]
      BY <3>1, WaitingTask
    <3> QED BY <1>11, <3>2, FiredTask DEF Unreachable, w
  <2> QED BY <1>11, <2>2 DEF Unreachable
<1>12. ASSUME NEW t \in Timers, ScheduleNext(t) PROVE TypeOK'
  <2>1. /\ [task EXCEPT ![t].pc = "mark"] \in [Timers -> Tasks]
        /\ task[t].due \in Nat
    BY SetTask
  <2> QED BY <1>12, <2>1, AddOccurrenceType DEF ScheduleNext
<1>13. ASSUME NEW t \in Timers, Mark(t) PROVE TypeOK'
  BY <1>13, SetRow, SetTask DEF Mark
<1>14. ASSUME NEW t \in Timers, SendNotice(t) PROVE TypeOK'
  BY <1>14, SetTask DEF SendNotice
<1>15. ASSUME NEW t \in Timers, MarkFails(t) PROVE TypeOK'
  BY <1>15, SetTask DEF MarkFails
<1>16. ASSUME NEW t \in Timers, DropLate(t) PROVE TypeOK'
  BY <1>16, SetRow DEF DropLate, Takes
<1>17. ASSUME NEW t \in Timers, Miss(t) PROVE TypeOK'
  BY <1>17, SetRow DEF Miss, Takes
<1>18. ASSUME NEW t \in Timers, Begin(t) PROVE TypeOK'
  BY <1>18 DEF Begin, Takes
<1>19. ASSUME Start PROVE TypeOK'
  BY <1>19 DEF Start, Rehydrate, PendingTimers
<1>20. ASSUME StartFails PROVE TypeOK'
  BY <1>20 DEF StartFails
<1>21. ASSUME RetryLoad PROVE TypeOK'
  BY <1>21 DEF RetryLoad, PendingTimers
<1>22. ASSUME RetryFails PROVE TypeOK'
  BY <1>22 DEF RetryFails
<1>23. ASSUME RetryRehydrate PROVE TypeOK'
  BY <1>23 DEF RetryRehydrate, Rehydrate
<1>24. ASSUME MissNext PROVE TypeOK'
  BY <1>24, AddOccurrenceType DEF MissNext
<1>25. ASSUME RecDeliver PROVE TypeOK'
  <2>1. rings' \in [Timers -> Nat]
    BY <1>25 DEF RecDeliver, Rung
  <2> QED BY <1>25, <2>1 DEF RecDeliver, RecGoes, Rung
<1>26. ASSUME RecFails PROVE TypeOK'
  BY <1>26 DEF RecFails, RecGoes
<1>27. ASSUME RecUnreachable PROVE TypeOK'
  BY <1>27, SetTask DEF RecUnreachable, RecGoes
<1>28. ASSUME RecNext PROVE TypeOK'
  BY <1>28, AddOccurrenceType DEF RecNext, RecGoes
<1>29. ASSUME RecMark PROVE TypeOK'
  BY <1>29, SetRow DEF RecMark, RecGoes
<1>30. ASSUME RecMarkFails PROVE TypeOK'
  BY <1>30 DEF RecMarkFails, RecGoes
<1>31. ASSUME RecDone PROVE TypeOK'
  BY <1>31 DEF RecDone
<1>32. ASSUME RecNotice PROVE TypeOK'
  BY <1>32 DEF RecNotice
<1>33. ASSUME Stop PROVE TypeOK'
  <2>1. up' \in BOOLEAN /\ abandoned' \in BOOLEAN
    BY <1>33, Zenon DEF Stop
  <2>2. crashes' \in Nat
    BY <1>33 DEF Stop
  <2> QED BY <1>33, <2>1, <2>2, ZenonT(30) DEF Stop, NoCall
<1>34. ASSUME HaDown PROVE TypeOK'
  <2>1. ha' \in BOOLEAN
    BY <1>34, Zenon DEF HaDown
  <2>2. outages' \in Nat
    BY <1>34 DEF HaDown
  <2> QED BY <1>34, <2>1, <2>2 DEF HaDown
<1>35. ASSUME HaUp PROVE TypeOK'
  BY <1>35 DEF HaUp
<1>36. ASSUME Tick PROVE TypeOK'
  BY <1>36 DEF Tick
<1>37. CASE UNCHANGED vars
  BY <1>37 DEF vars
<1>38. ASSUME NEW t \in Timers, ScheduleNextFails(t) PROVE TypeOK'
  <2>1. task' \in [Timers -> Tasks]
    BY <1>38, SetTask DEF ScheduleNextFails
  <2> QED BY <1>38, <2>1 DEF ScheduleNextFails, GivesUpNext
<1>39. ASSUME NEW t \in Timers, NoticeFails(t) PROVE TypeOK'
  BY <1>39, SetTask DEF NoticeFails
<1>40. ASSUME NEW t \in Timers, DropLateFails(t) PROVE TypeOK'
  BY <1>40 DEF DropLateFails, Takes, Handler
<1>41. ASSUME NEW t \in Timers, MissFails(t) PROVE TypeOK'
  BY <1>41 DEF MissFails, Takes, Handler, GivesUpNext
<1>42. ASSUME RecNextFails PROVE TypeOK'
  BY <1>42 DEF RecNextFails, RecGoes, GivesUpNext
<1>43. ASSUME RecNoticeFails PROVE TypeOK'
  BY <1>43 DEF RecNoticeFails
<1> QED
  <2>1. ASSUME NEW c \in Clients, NEW t \in Timers,
               \/ ReadCancel(c, t) \/ ReadPause(c, t) \/ ReadResume(c, t)
               \/ ReadRename(c, t) \/ \E f \in 0 .. Horizon : ReadMove(c, t, f)
        PROVE  TypeOK'
    BY <2>1, <1>2, BoundsAssumption
       DEF ReadCancel, ReadPause, ReadResume, ReadRename, ReadMove, Remaining
  <2> QED
    BY <2>1, <1>1, <1>3, <1>4, <1>5, <1>6, <1>7, <1>8, <1>9, <1>10, <1>11,
       <1>12, <1>13, <1>14, <1>15, <1>16, <1>17, <1>18, <1>19, <1>20,
       <1>21, <1>22, <1>23, <1>24, <1>25, <1>26, <1>27, <1>28, <1>29,
       <1>30, <1>31, <1>32, <1>33, <1>34, <1>35, <1>36, <1>37, <1>38,
       <1>39, <1>40, <1>41, <1>42, <1>43, KindsAssumption DEF Next, TaskStep, Call, RecoveryStep, Fault

\* The variables keep their types in every reachable state.
THEOREM TypeCorrect == Spec => []TypeOK
<1>1. Init => TypeOK
  <2> SUFFICES ASSUME Init PROVE TypeOK
    OBVIOUS
  <2>1. FreeRow \in Rows
    BY DEF FreeRow, Rows
  <2>2. row \in [Timers -> Rows] /\ task \in [Timers -> Tasks]
    BY <2>1, RecordTypes DEF Init
  <2>3. /\ api \in [Clients -> Calls]
        /\ \A c \in Clients : api[c].op = "none"
    BY RecordTypes DEF Init, NoCall
  <2>4. ha \in BOOLEAN /\ up \in BOOLEAN /\ abandoned \in BOOLEAN
    BY Zenon DEF Init
  <2> QED BY <2>2, <2>3, <2>4 DEF Init, TypeOK
<1>2. TypeOK /\ [Next]_vars => TypeOK'
  BY TypeOKInductive
<1> QED BY <1>1, <1>2, PTL DEF Spec

-----------------------------------------------------------------------------
\* Scheduling the next occurrence leaves a timer alone or makes it pending, with
\* a task, out of a free row.
LEMMA AddOccurrencePointwise ==
  ASSUME TypeOK, NEW t \in Timers, NEW d \in Nat,
         NEW tasks \in [Timers -> Tasks], AddOccurrence(t, d, tasks),
         NEW u \in Timers
  PROVE  /\ nexted' = nexted \cup {t}
         /\ UNCHANGED <<boots, rings, unscheduled, raced>>
         /\ \/ row'[u] = row[u] /\ task'[u] = tasks[u] /\ arms'[u] = arms[u]
            \/ /\ row[u].state = "free" /\ row'[u].state = "pending"
               /\ task'[u].pc = "sleep" /\ arms'[u] = 1
               /\ row'[u].kind = "series" /\ task'[u].due = row'[u].fires
  BY DEF AddOccurrence, FreeTimers, rowVars, TypeOK, PendingRow, Sleeping

(***************************************************************************)
(* A timer reaches Home Assistant at most once per edit and restart.       *)
(* Whoever may still ring a timer holds a credit for it: its task before   *)
(* the outcome of an attempt, and the recovery coroutine for a row it has  *)
(* yet to take or is firing.  Credits are handed out with arms and boots   *)
(* only, and a ring spends one.                                            *)
(***************************************************************************)
Credit(holds) == IF holds THEN 1 ELSE 0

Credits(t) ==
  Credit(task[t].pc \in {"sleep", "fire"})
  + Credit(recPc # "snap" /\ t \in todo)
  + Credit(recPc = "fire" /\ cur = t)

Accounted(t) ==
  /\ row[t].state = "free" => arms[t] = 0
  /\ rings[t] + Credits(t) <= arms[t] + boots[t]

\* The recovery coroutine holds rows only while the process runs, and none
\* before it has loaded any.
RecoveryRuns ==
  /\ ~up => recPc = "off" /\ todo = {}
  /\ recPc = "retry" => todo = {}

RingsInv == RecoveryRuns /\ \A t \in Timers : Accounted(t)

LEMMA RecoveryRunsInductive ==
  ASSUME TypeOK, RecoveryRuns, [Next]_vars
  PROVE  RecoveryRuns'
<1> USE DEF rowVars, recVars, failVars, histVars, envVars, RecoveryRuns,
            AfterFire
<1>1. ASSUME NEW v \in Timers, NEW k \in Kinds, NEW f \in 0 .. Horizon,
             Schedule(v, k, f)
      PROVE  RecoveryRuns'
  BY <1>1, RecordTypes, BoundsAssumption DEF Schedule
<1>2. ASSUME NEW c \in Clients, NEW v \in Timers, NEW op, NEW accepts, NEW val,
             Read(c, op, v, accepts, val)
      PROVE  RecoveryRuns'
  BY <1>2 DEF Read
<1>3. ASSUME NEW c \in Clients, Cancel(c) PROVE RecoveryRuns'
  BY <1>3, RecordTypes DEF Cancel, Return
<1>4. ASSUME NEW c \in Clients, Pause(c) PROVE RecoveryRuns'
  BY <1>4, RecordTypes DEF Pause, Return
<1>5. ASSUME NEW c \in Clients, Resume(c) PROVE RecoveryRuns'
  BY <1>5, RecordTypes DEF Resume, Return
<1>6. ASSUME NEW c \in Clients, Reschedule(c) PROVE RecoveryRuns'
  BY <1>6, RecordTypes DEF Reschedule, Return
<1>7. ASSUME NEW c \in Clients, Refused(c) PROVE RecoveryRuns'
  BY <1>7, RecordTypes DEF Refused, Return
<1>8. ASSUME NEW v \in Timers, Wake(v) PROVE RecoveryRuns'
  BY <1>8, RecordTypes DEF Wake
<1>9. ASSUME NEW v \in Timers, Deliver(v) PROVE RecoveryRuns'
  BY <1>9, RecordTypes DEF Deliver, Rung
<1>10. ASSUME NEW v \in Timers, FireFails(v) PROVE RecoveryRuns'
  BY <1>10, RecordTypes DEF FireFails
<1>11. ASSUME NEW v \in Timers, Unreachable(v) PROVE RecoveryRuns'
  BY <1>11, RecordTypes DEF Unreachable
<1>12. ASSUME NEW v \in Timers, ScheduleNext(v) PROVE RecoveryRuns'
  BY <1>12, RecordTypes, AddOccurrencePointwise DEF ScheduleNext
<1>13. ASSUME NEW v \in Timers, Mark(v) PROVE RecoveryRuns'
  BY <1>13, RecordTypes DEF Mark, AfterMark
<1>14. ASSUME NEW v \in Timers, SendNotice(v) PROVE RecoveryRuns'
  BY <1>14, RecordTypes DEF SendNotice
<1>15. ASSUME NEW v \in Timers, MarkFails(v) PROVE RecoveryRuns'
  BY <1>15, RecordTypes DEF MarkFails, AfterMark
<1>16. ASSUME NEW v \in Timers, DropLate(v) PROVE RecoveryRuns'
  BY <1>16, RecordTypes DEF DropLate, Takes
<1>17. ASSUME NEW v \in Timers, Miss(v) PROVE RecoveryRuns'
  BY <1>17, RecordTypes DEF Miss, Takes
<1>18. ASSUME NEW v \in Timers, Begin(v) PROVE RecoveryRuns'
  BY <1>18, RecordTypes DEF Begin, Takes
<1>19. ASSUME Start PROVE RecoveryRuns'
  BY <1>19, RecordTypes DEF Start, Rehydrate, PendingTimers
<1>20. ASSUME StartFails PROVE RecoveryRuns'
  BY <1>20, RecordTypes DEF StartFails
<1>21. ASSUME RetryLoad PROVE RecoveryRuns'
  BY <1>21, RecordTypes DEF RetryLoad, PendingTimers
<1>22. ASSUME RetryFails PROVE RecoveryRuns'
  BY <1>22, RecordTypes DEF RetryFails
<1>23. ASSUME RetryRehydrate PROVE RecoveryRuns'
  BY <1>23, RecordTypes DEF RetryRehydrate, Rehydrate
<1>24. ASSUME MissNext PROVE RecoveryRuns'
  BY <1>24, RecordTypes, AddOccurrencePointwise DEF MissNext
<1>25. ASSUME RecDeliver PROVE RecoveryRuns'
  BY <1>25, RecordTypes DEF RecDeliver, RecGoes, Rung
<1>26. ASSUME RecFails PROVE RecoveryRuns'
  BY <1>26, RecordTypes DEF RecFails, RecGoes
<1>27. ASSUME RecUnreachable PROVE RecoveryRuns'
  BY <1>27, RecordTypes DEF RecUnreachable, RecGoes
<1>28. ASSUME RecNext PROVE RecoveryRuns'
  BY <1>28, RecordTypes, AddOccurrencePointwise DEF RecNext, RecGoes
<1>29. ASSUME RecMark PROVE RecoveryRuns'
  BY <1>29, RecordTypes DEF RecMark, RecGoes
<1>30. ASSUME RecMarkFails PROVE RecoveryRuns'
  BY <1>30, RecordTypes DEF RecMarkFails, RecGoes
<1>31. ASSUME RecDone PROVE RecoveryRuns'
  BY <1>31, RecordTypes DEF RecDone
<1>32. ASSUME RecNotice PROVE RecoveryRuns'
  BY <1>32, RecordTypes DEF RecNotice
<1>33. ASSUME Stop PROVE RecoveryRuns'
  BY <1>33, RecordTypes DEF Stop
<1>34. ASSUME HaDown PROVE RecoveryRuns'
  BY <1>34, RecordTypes DEF HaDown
<1>35. ASSUME HaUp PROVE RecoveryRuns'
  BY <1>35, RecordTypes DEF HaUp
<1>36. ASSUME Tick PROVE RecoveryRuns'
  BY <1>36, RecordTypes DEF Tick
<1>37. CASE UNCHANGED vars
  BY <1>37 DEF vars
<1>38. ASSUME NEW v \in Timers, ScheduleNextFails(v)
       PROVE  RecoveryRuns'
  BY <1>38, RecordTypes DEF ScheduleNextFails, GivesUpNext
<1>39. ASSUME NEW v \in Timers, NoticeFails(v)
       PROVE  RecoveryRuns'
  BY <1>39, RecordTypes DEF NoticeFails
<1>40. ASSUME NEW v \in Timers, DropLateFails(v)
       PROVE  RecoveryRuns'
  BY <1>40, RecordTypes DEF DropLateFails, Takes, Handler
<1>41. ASSUME NEW v \in Timers, MissFails(v)
       PROVE  RecoveryRuns'
  BY <1>41, RecordTypes DEF MissFails, Takes, Handler, GivesUpNext
<1>42. ASSUME RecNextFails PROVE RecoveryRuns'
  <2>1. cur \in Timers
    BY <1>42 DEF RecNextFails, TypeOK
  <2> QED BY <1>42, <2>1, RecordTypes DEF RecNextFails, RecGoes, GivesUpNext
<1>43. ASSUME RecNoticeFails PROVE RecoveryRuns'
  BY <1>43, RecordTypes DEF RecNoticeFails
<1> QED
  BY <1>1, <1>2, <1>3, <1>4, <1>5, <1>6, <1>7, <1>8, <1>9, <1>10, <1>11,
     <1>12, <1>13, <1>14, <1>15, <1>16, <1>17, <1>18, <1>19, <1>20, <1>21,
     <1>22, <1>23, <1>24, <1>25, <1>26, <1>27, <1>28, <1>29, <1>30, <1>31,
     <1>32, <1>33, <1>34, <1>35, <1>36, <1>37, <1>38, <1>39, <1>40, <1>41,
     <1>42, <1>43, KindsAssumption
     DEF Next, TaskStep, Call, RecoveryStep, Fault, ReadCancel, ReadPause,
         ReadResume, ReadRename, ReadMove

LEMMA RingsInvInductive ==
  ASSUME TypeOK, RingsInv, [Next]_vars, NEW t \in Timers
  PROVE  Accounted(t)'
<1> USE DEF rowVars, recVars, failVars, histVars, envVars, Accounted, Credits,
           Credit, NoTask, Sleeping, PendingRow, AfterFire,
           RecoveryRuns
<1>0. /\ Accounted(t) /\ RecoveryRuns
      /\ row[t] \in Rows /\ task[t] \in Tasks /\ due[t] \in Nat
      /\ arms[t] \in Nat /\ boots[t] \in Nat /\ rings[t] \in Nat
      /\ row \in [Timers -> Rows] /\ task \in [Timers -> Tasks]
      /\ arms \in [Timers -> Nat] /\ rings \in [Timers -> Nat]
      /\ boots \in [Timers -> Nat] /\ due \in [Timers -> Nat]
  BY DEF RingsInv, TypeOK
<1> USE <1>0
<1>1. ASSUME NEW v \in Timers, NEW k \in Kinds, NEW f \in 0 .. Horizon,
             Schedule(v, k, f)
      PROVE  Accounted(t)'
  BY <1>1, RecordTypes, BoundsAssumption DEF Schedule
<1>2. ASSUME NEW c \in Clients, NEW v \in Timers, NEW op, NEW accepts, NEW val,
             Read(c, op, v, accepts, val)
      PROVE  Accounted(t)'
  BY <1>2 DEF Read
<1>3. ASSUME NEW c \in Clients, Cancel(c) PROVE Accounted(t)'
  BY <1>3, RecordTypes DEF Cancel, Return
<1>4. ASSUME NEW c \in Clients, Pause(c) PROVE Accounted(t)'
  BY <1>4, RecordTypes DEF Pause, Return
<1>5. ASSUME NEW c \in Clients, Resume(c) PROVE Accounted(t)'
  BY <1>5, RecordTypes DEF Resume, Return
<1>6. ASSUME NEW c \in Clients, Reschedule(c) PROVE Accounted(t)'
  BY <1>6, RecordTypes DEF Reschedule, Return
<1>7. ASSUME NEW c \in Clients, Refused(c) PROVE Accounted(t)'
  BY <1>7, RecordTypes DEF Refused, Return
<1>8. ASSUME NEW v \in Timers, Wake(v) PROVE Accounted(t)'
  BY <1>8, RecordTypes DEF Wake
<1>9. ASSUME NEW v \in Timers, Deliver(v) PROVE Accounted(t)'
  BY <1>9, RecordTypes DEF Deliver, Rung
<1>10. ASSUME NEW v \in Timers, FireFails(v) PROVE Accounted(t)'
  BY <1>10, RecordTypes DEF FireFails
<1>11. ASSUME NEW v \in Timers, Unreachable(v) PROVE Accounted(t)'
  BY <1>11, RecordTypes DEF Unreachable
<1>12. ASSUME NEW v \in Timers, ScheduleNext(v) PROVE Accounted(t)'
  <2>1. /\ [task EXCEPT ![v].pc = "mark"] \in [Timers -> Tasks]
        /\ task[v].due \in Nat
    BY <1>12, SetTask, RecordTypes DEF ScheduleNext, TypeOK
  <2>2. AddOccurrence(v, task[v].due, [task EXCEPT ![v].pc = "mark"])
    BY <1>12 DEF ScheduleNext
  <2>3. /\ UNCHANGED <<boots, rings, recPc, todo, cur>>
        /\ \/ /\ row'[t] = row[t] /\ arms'[t] = arms[t]
              /\ t = v \/ task'[t] = task[t]
              /\ t = v => task'[t].pc = "mark"
           \/ /\ row[t].state = "free" /\ row'[t].state = "pending"
              /\ task'[t].pc = "sleep" /\ arms'[t] = 1
    <3> DEFINE tasks == [task EXCEPT ![v].pc = "mark"]
    <3>1. /\ UNCHANGED <<boots, rings>>
          /\ \/ row'[t] = row[t] /\ task'[t] = tasks[t] /\ arms'[t] = arms[t]
             \/ /\ row[t].state = "free" /\ row'[t].state = "pending"
                /\ task'[t].pc = "sleep" /\ arms'[t] = 1
      BY <2>1, <2>2, AddOccurrencePointwise
    <3>2. /\ t = v \/ tasks[t] = task[t]
          /\ t = v => tasks[t].pc = "mark"
      BY <2>1
    <3> QED BY <1>12, <3>1, <3>2 DEF ScheduleNext
  <2> QED BY <2>3
<1>13. ASSUME NEW v \in Timers, Mark(v) PROVE Accounted(t)'
  <2>1. task[v].end # "free"
    BY RecordTypes
  <2>2. row'[t].state = "free" => row[t].state = "free"
    BY <1>13, <2>1 DEF Mark
  <2>3. Credits(t)' <= Credits(t)
    BY <1>13 DEF Mark, AfterMark
  <2> QED BY <1>13, <2>2, <2>3 DEF Mark
<1>14. ASSUME NEW v \in Timers, SendNotice(v) PROVE Accounted(t)'
  BY <1>14, RecordTypes DEF SendNotice
<1>15. ASSUME NEW v \in Timers, MarkFails(v) PROVE Accounted(t)'
  BY <1>15, RecordTypes DEF MarkFails, AfterMark
<1>16. ASSUME NEW v \in Timers, DropLate(v) PROVE Accounted(t)'
  BY <1>16, RecordTypes DEF DropLate, Takes
<1>17. ASSUME NEW v \in Timers, Miss(v) PROVE Accounted(t)'
  BY <1>17, RecordTypes DEF Miss, Takes
<1>18. ASSUME NEW v \in Timers, Begin(v) PROVE Accounted(t)'
  BY <1>18, RecordTypes DEF Begin, Takes
<1>19. ASSUME Start PROVE Accounted(t)'
  BY <1>19, RecordTypes DEF Start, Rehydrate, PendingTimers
<1>20. ASSUME StartFails PROVE Accounted(t)'
  BY <1>20, RecordTypes DEF StartFails
<1>21. ASSUME RetryLoad PROVE Accounted(t)'
  BY <1>21, RecordTypes DEF RetryLoad, PendingTimers
<1>22. ASSUME RetryFails PROVE Accounted(t)'
  BY <1>22, RecordTypes DEF RetryFails
<1>23. ASSUME RetryRehydrate PROVE Accounted(t)'
  BY <1>23, RecordTypes DEF RetryRehydrate, Rehydrate
<1>24. ASSUME MissNext PROVE Accounted(t)'
  <2>1. task \in [Timers -> Tasks] /\ cur \in Timers
    BY <1>24, SetTask, RecordTypes DEF MissNext, TypeOK
  <2>2. AddOccurrence(cur, due[cur], task)
    BY <1>24 DEF MissNext
  <2>3. /\ UNCHANGED <<boots, rings>>
        /\ \/ row'[t] = row[t] /\ task'[t] = (task)[t] /\ arms'[t] = arms[t]
           \/ /\ row[t].state = "free" /\ row'[t].state = "pending"
              /\ task'[t].pc = "sleep" /\ arms'[t] = 1
    BY <2>1, <2>2, AddOccurrencePointwise
  <2> QED BY <1>24, <2>1, <2>3 DEF MissNext
<1>25. ASSUME RecDeliver PROVE Accounted(t)'
  BY <1>25, RecordTypes DEF RecDeliver, RecGoes, Rung
<1>26. ASSUME RecFails PROVE Accounted(t)'
  BY <1>26, RecordTypes DEF RecFails, RecGoes
<1>27. ASSUME RecUnreachable PROVE Accounted(t)'
  <2>1. cur \in Timers
    BY <1>27 DEF RecUnreachable, TypeOK
  <2>2. CASE cur = t
    BY <1>27, <2>1, <2>2 DEF RecUnreachable, RecGoes
  <2>3. CASE cur # t
    BY <1>27, <2>1, <2>3 DEF RecUnreachable, RecGoes
  <2> QED BY <2>2, <2>3
<1>28. ASSUME RecNext PROVE Accounted(t)'
  <2>1. task \in [Timers -> Tasks] /\ cur \in Timers
    BY <1>28, SetTask, RecordTypes DEF RecNext, TypeOK
  <2>2. AddOccurrence(cur, due[cur], task)
    BY <1>28 DEF RecNext
  <2>3. /\ UNCHANGED <<boots, rings>>
        /\ \/ row'[t] = row[t] /\ task'[t] = (task)[t] /\ arms'[t] = arms[t]
           \/ /\ row[t].state = "free" /\ row'[t].state = "pending"
              /\ task'[t].pc = "sleep" /\ arms'[t] = 1
    BY <2>1, <2>2, AddOccurrencePointwise
  <2> QED BY <1>28, <2>1, <2>3 DEF RecNext, RecGoes
<1>29. ASSUME RecMark PROVE Accounted(t)'
  <2>1. cur \in Timers
    BY <1>29 DEF RecMark, TypeOK
  <2>2. row'[t].state = "free" => row[t].state = "free"
    BY <1>29, <2>1 DEF RecMark
  <2> QED BY <1>29, <2>2 DEF RecMark, RecGoes
<1>30. ASSUME RecMarkFails PROVE Accounted(t)'
  <2>1. cur \in Timers
    BY <1>30 DEF RecMarkFails, TypeOK
  <2> QED BY <1>30, <2>1 DEF RecMarkFails, RecGoes
<1>31. ASSUME RecDone PROVE Accounted(t)'
  BY <1>31, RecordTypes DEF RecDone
<1>32. ASSUME RecNotice PROVE Accounted(t)'
  BY <1>32, RecordTypes DEF RecNotice
<1>33. ASSUME Stop PROVE Accounted(t)'
  BY <1>33, RecordTypes DEF Stop
<1>34. ASSUME HaDown PROVE Accounted(t)'
  BY <1>34, RecordTypes DEF HaDown
<1>35. ASSUME HaUp PROVE Accounted(t)'
  BY <1>35, RecordTypes DEF HaUp
<1>36. ASSUME Tick PROVE Accounted(t)'
  BY <1>36, RecordTypes DEF Tick
<1>37. CASE UNCHANGED vars
  BY <1>37 DEF vars
<1>38. ASSUME NEW v \in Timers, ScheduleNextFails(v)
       PROVE  Accounted(t)'
  BY <1>38, RecordTypes DEF ScheduleNextFails, GivesUpNext
<1>39. ASSUME NEW v \in Timers, NoticeFails(v)
       PROVE  Accounted(t)'
  BY <1>39, RecordTypes DEF NoticeFails
<1>40. ASSUME NEW v \in Timers, DropLateFails(v)
       PROVE  Accounted(t)'
  BY <1>40, RecordTypes DEF DropLateFails, Takes, Handler
<1>41. ASSUME NEW v \in Timers, MissFails(v)
       PROVE  Accounted(t)'
  BY <1>41, RecordTypes DEF MissFails, Takes, Handler, GivesUpNext
<1>42. ASSUME RecNextFails PROVE Accounted(t)'
  <2>1. cur \in Timers
    BY <1>42 DEF RecNextFails, TypeOK
  <2> QED BY <1>42, <2>1, RecordTypes DEF RecNextFails, RecGoes, GivesUpNext
<1>43. ASSUME RecNoticeFails PROVE Accounted(t)'
  BY <1>43, RecordTypes DEF RecNoticeFails
<1> QED
  BY <1>1, <1>2, <1>3, <1>4, <1>5, <1>6, <1>7, <1>8, <1>9, <1>10, <1>11,
     <1>12, <1>13, <1>14, <1>15, <1>16, <1>17, <1>18, <1>19, <1>20, <1>21,
     <1>22, <1>23, <1>24, <1>25, <1>26, <1>27, <1>28, <1>29, <1>30, <1>31,
     <1>32, <1>33, <1>34, <1>35, <1>36, <1>37, <1>38, <1>39, <1>40, <1>41,
     <1>42, <1>43, KindsAssumption
     DEF Next, TaskStep, Call, RecoveryStep, Fault, ReadCancel, ReadPause,
         ReadResume, ReadRename, ReadMove

\* In every reachable state a timer has reached Home Assistant at most once per
\* call that (re)started it and restart that rehydrated it.
THEOREM RingsAlwaysAccounted == Spec => []RingsAccounted
<1>1. Init => RingsInv
  BY DEF Init, RingsInv, RecoveryRuns, Accounted, Credits, Credit, NoTask
<1>2. TypeOK /\ RingsInv /\ [Next]_vars => RingsInv'
  BY RingsInvInductive, RecoveryRunsInductive DEF RingsInv
<1>3. TypeOK /\ RingsInv => RingsAccounted
  <2> SUFFICES ASSUME TypeOK, RingsInv, NEW t \in Timers
               PROVE  rings[t] <= arms[t] + boots[t]
    BY DEF RingsAccounted
  <2>1. Credits(t) \in Nat
    BY DEF Credits, Credit
  <2> QED BY <2>1 DEF RingsInv, Accounted, TypeOK
<1> QED BY <1>1, <1>2, <1>3, TypeCorrect, PTL DEF Spec

-----------------------------------------------------------------------------
(* A finished timer stays finished: the writes that could revive it test   *)
(* the state in the statement itself.                                      *)

LEMMA StepKeepsFinished ==
  ASSUME TypeOK, [Next]_vars, NEW t \in Timers, row[t].state \in Terminal
  PROVE  row'[t].state \in Terminal
<1> USE DEF rowVars, recVars, failVars, histVars, envVars, PendingRow
<1>0. /\ row \in [Timers -> Rows] /\ task \in [Timers -> Tasks]
      /\ boots \in [Timers -> Nat] /\ due \in [Timers -> Nat]
  BY DEF TypeOK
<1> USE <1>0
<1>1. ASSUME NEW v \in Timers, NEW k \in Kinds, NEW f \in 0 .. Horizon,
             Schedule(v, k, f)
      PROVE  row'[t].state \in Terminal
  BY <1>1, RecordTypes, BoundsAssumption DEF Schedule
<1>2. ASSUME NEW c \in Clients, NEW v \in Timers, NEW op, NEW accepts, NEW val,
             Read(c, op, v, accepts, val)
      PROVE  row'[t].state \in Terminal
  BY <1>2 DEF Read
<1>3. ASSUME NEW c \in Clients, Cancel(c) PROVE row'[t].state \in Terminal
  BY <1>3, RecordTypes DEF Cancel, Return
<1>4. ASSUME NEW c \in Clients, Pause(c) PROVE row'[t].state \in Terminal
  BY <1>4, RecordTypes DEF Pause, Return
<1>5. ASSUME NEW c \in Clients, Resume(c) PROVE row'[t].state \in Terminal
  BY <1>5, RecordTypes DEF Resume, Return
<1>6. ASSUME NEW c \in Clients, Reschedule(c) PROVE row'[t].state \in Terminal
  BY <1>6, RecordTypes DEF Reschedule, Return
<1>7. ASSUME NEW c \in Clients, Refused(c) PROVE row'[t].state \in Terminal
  BY <1>7, RecordTypes DEF Refused, Return
<1>8. ASSUME NEW v \in Timers, Wake(v) PROVE row'[t].state \in Terminal
  BY <1>8, RecordTypes DEF Wake
<1>9. ASSUME NEW v \in Timers, Deliver(v) PROVE row'[t].state \in Terminal
  BY <1>9, RecordTypes DEF Deliver, Rung
<1>10. ASSUME NEW v \in Timers, FireFails(v) PROVE row'[t].state \in Terminal
  BY <1>10, RecordTypes DEF FireFails
<1>11. ASSUME NEW v \in Timers, Unreachable(v) PROVE row'[t].state \in Terminal
  BY <1>11, RecordTypes DEF Unreachable
<1>12. ASSUME NEW v \in Timers, ScheduleNext(v)
       PROVE  row'[t].state \in Terminal
  <2> DEFINE tasks == [task EXCEPT ![v].pc = "mark"]
  <2>1. tasks \in [Timers -> Tasks] /\ task[v].due \in Nat
    BY <1>12, SetTask, RecordTypes DEF ScheduleNext, TypeOK
  <2>2. /\ nexted' = nexted \cup {v} /\ UNCHANGED <<boots, rings>>
        /\ \/ row'[t] = row[t] /\ task'[t] = tasks[t] /\ arms'[t] = arms[t]
           \/ /\ row[t].state = "free" /\ row'[t].state = "pending"
              /\ task'[t].pc = "sleep" /\ arms'[t] = 1
    BY <1>12, <2>1, AddOccurrencePointwise DEF ScheduleNext
  <2>3. /\ t = v \/ tasks[t] = task[t]
        /\ t = v => tasks[t].pc = "mark"
    BY <2>1
  <2> HIDE DEF tasks
  <2> QED BY <1>12, <2>2, <2>3 DEF ScheduleNext
<1>13. ASSUME NEW v \in Timers, Mark(v) PROVE row'[t].state \in Terminal
  <2>1. task[v].end \in Terminal
    BY RecordTypes
  <2> QED BY <1>13, <2>1 DEF Mark
<1>14. ASSUME NEW v \in Timers, SendNotice(v) PROVE row'[t].state \in Terminal
  BY <1>14, RecordTypes DEF SendNotice
<1>15. ASSUME NEW v \in Timers, MarkFails(v) PROVE row'[t].state \in Terminal
  BY <1>15, RecordTypes DEF MarkFails, AfterMark
<1>16. ASSUME NEW v \in Timers, DropLate(v) PROVE row'[t].state \in Terminal
  BY <1>16, RecordTypes DEF DropLate, Takes
<1>17. ASSUME NEW v \in Timers, Miss(v) PROVE row'[t].state \in Terminal
  BY <1>17, RecordTypes DEF Miss, Takes
<1>18. ASSUME NEW v \in Timers, Begin(v) PROVE row'[t].state \in Terminal
  BY <1>18, RecordTypes DEF Begin, Takes
<1>19. ASSUME Start PROVE row'[t].state \in Terminal
  BY <1>19, RecordTypes DEF Start, Rehydrate, PendingTimers
<1>20. ASSUME StartFails PROVE row'[t].state \in Terminal
  BY <1>20, RecordTypes DEF StartFails
<1>21. ASSUME RetryLoad PROVE row'[t].state \in Terminal
  BY <1>21, RecordTypes DEF RetryLoad, PendingTimers
<1>22. ASSUME RetryFails PROVE row'[t].state \in Terminal
  BY <1>22, RecordTypes DEF RetryFails
<1>23. ASSUME RetryRehydrate PROVE row'[t].state \in Terminal
  BY <1>23, RecordTypes DEF RetryRehydrate, Rehydrate
<1>24. ASSUME MissNext PROVE row'[t].state \in Terminal
  <2> DEFINE tasks == task
  <2>1. tasks \in [Timers -> Tasks] /\ cur \in Timers
    BY <1>24, SetTask, RecordTypes DEF MissNext, TypeOK
  <2>2. /\ nexted' = nexted \cup {cur} /\ UNCHANGED <<boots, rings>>
        /\ \/ row'[t] = row[t] /\ task'[t] = tasks[t] /\ arms'[t] = arms[t]
           \/ /\ row[t].state = "free" /\ row'[t].state = "pending"
              /\ task'[t].pc = "sleep" /\ arms'[t] = 1
    BY <1>24, <2>1, AddOccurrencePointwise DEF MissNext
  <2> QED BY <1>24, <2>1, <2>2 DEF MissNext
<1>25. ASSUME RecDeliver PROVE row'[t].state \in Terminal
  <2>1. cur \in Timers
    BY <1>25 DEF RecDeliver, TypeOK
  <2> QED BY <1>25, <2>1 DEF RecDeliver, RecGoes, Rung
<1>26. ASSUME RecFails PROVE row'[t].state \in Terminal
  <2>1. cur \in Timers
    BY <1>26 DEF RecFails, TypeOK
  <2> QED BY <1>26, <2>1 DEF RecFails, RecGoes
<1>27. ASSUME RecUnreachable PROVE row'[t].state \in Terminal
  <2>1. cur \in Timers
    BY <1>27 DEF RecUnreachable, TypeOK
  <2> QED BY <1>27, <2>1 DEF RecUnreachable, RecGoes
<1>28. ASSUME RecNext PROVE row'[t].state \in Terminal
  <2> DEFINE tasks == task
  <2>1. tasks \in [Timers -> Tasks] /\ cur \in Timers
    BY <1>28, SetTask, RecordTypes DEF RecNext, TypeOK
  <2>2. /\ nexted' = nexted \cup {cur} /\ UNCHANGED <<boots, rings>>
        /\ \/ row'[t] = row[t] /\ task'[t] = tasks[t] /\ arms'[t] = arms[t]
           \/ /\ row[t].state = "free" /\ row'[t].state = "pending"
              /\ task'[t].pc = "sleep" /\ arms'[t] = 1
    BY <1>28, <2>1, AddOccurrencePointwise DEF RecNext
  <2> QED BY <1>28, <2>1, <2>2 DEF RecNext, RecGoes
<1>29. ASSUME RecMark PROVE row'[t].state \in Terminal
  <2>1. cur \in Timers
    BY <1>29 DEF RecMark, TypeOK
  <2> QED BY <1>29, <2>1 DEF RecMark, RecGoes
<1>30. ASSUME RecMarkFails PROVE row'[t].state \in Terminal
  <2>1. cur \in Timers
    BY <1>30 DEF RecMarkFails, TypeOK
  <2> QED BY <1>30, <2>1 DEF RecMarkFails, RecGoes
<1>31. ASSUME RecDone PROVE row'[t].state \in Terminal
  BY <1>31, RecordTypes DEF RecDone
<1>32. ASSUME RecNotice PROVE row'[t].state \in Terminal
  BY <1>32, RecordTypes DEF RecNotice
<1>33. ASSUME Stop PROVE row'[t].state \in Terminal
  BY <1>33, RecordTypes DEF Stop
<1>34. ASSUME HaDown PROVE row'[t].state \in Terminal
  BY <1>34, RecordTypes DEF HaDown
<1>35. ASSUME HaUp PROVE row'[t].state \in Terminal
  BY <1>35, RecordTypes DEF HaUp
<1>36. ASSUME Tick PROVE row'[t].state \in Terminal
  BY <1>36, RecordTypes DEF Tick
<1>37. CASE UNCHANGED vars
  BY <1>37 DEF vars
<1>38. ASSUME NEW v \in Timers, ScheduleNextFails(v)
       PROVE  row'[t].state \in Terminal
  BY <1>38, RecordTypes DEF ScheduleNextFails, GivesUpNext
<1>39. ASSUME NEW v \in Timers, NoticeFails(v)
       PROVE  row'[t].state \in Terminal
  BY <1>39, RecordTypes DEF NoticeFails
<1>40. ASSUME NEW v \in Timers, DropLateFails(v)
       PROVE  row'[t].state \in Terminal
  BY <1>40, RecordTypes DEF DropLateFails, Takes, Handler
<1>41. ASSUME NEW v \in Timers, MissFails(v)
       PROVE  row'[t].state \in Terminal
  BY <1>41, RecordTypes DEF MissFails, Takes, Handler, GivesUpNext
<1>42. ASSUME RecNextFails PROVE row'[t].state \in Terminal
  <2>1. cur \in Timers
    BY <1>42 DEF RecNextFails, TypeOK
  <2> QED BY <1>42, <2>1, RecordTypes DEF RecNextFails, RecGoes, GivesUpNext
<1>43. ASSUME RecNoticeFails PROVE row'[t].state \in Terminal
  BY <1>43, RecordTypes DEF RecNoticeFails
<1> QED
  BY <1>1, <1>2, <1>3, <1>4, <1>5, <1>6, <1>7, <1>8, <1>9, <1>10, <1>11,
     <1>12, <1>13, <1>14, <1>15, <1>16, <1>17, <1>18, <1>19, <1>20, <1>21,
     <1>22, <1>23, <1>24, <1>25, <1>26, <1>27, <1>28, <1>29, <1>30, <1>31,
     <1>32, <1>33, <1>34, <1>35, <1>36, <1>37, <1>38, <1>39, <1>40, <1>41,
     <1>42, <1>43, KindsAssumption
     DEF Next, TaskStep, Call, RecoveryStep, Fault, ReadCancel, ReadPause,
         ReadResume, ReadRename, ReadMove

\* No step makes a fired, expired or cancelled timer pending or paused.
THEOREM FinishedStaysFinished == Spec => NoResurrection
<1>1. TypeOK /\ [Next]_vars =>
        [\A t \in Timers :
           row[t].state \in Terminal => row'[t].state \in Terminal]_vars
  BY StepKeepsFinished
<1> QED BY <1>1, TypeCorrect, PTL DEF Spec, NoResurrection

(***************************************************************************)
(* The task of a timer that recovery never touched belongs to a pending    *)
(* row.  Recovery writes rows without looking at their state, so the       *)
(* invariant also says that whatever recovery holds was rehydrated.        *)
(***************************************************************************)
Tracked(t) ==
  /\ recPc # "snap" /\ t \in todo => boots[t] > 0
  /\ recPc \in {"fire", "next", "mark", "missnext"} /\ cur = t => boots[t] > 0
  /\ boots[t] = 0 /\ task[t].pc \in {"sleep", "fire", "next", "mark"}
       => row[t].state = "pending"

LEMMA TrackedInductive ==
  ASSUME TypeOK, RecoveryRuns, \A u \in Timers : Tracked(u), [Next]_vars,
         NEW t \in Timers
  PROVE  Tracked(t)'
<1> USE DEF rowVars, recVars, failVars, histVars, envVars, Tracked, NoTask,
           Sleeping, PendingRow, AfterFire, AfterMark, RecoveryRuns
<1>0. /\ row \in [Timers -> Rows] /\ task \in [Timers -> Tasks]
      /\ boots \in [Timers -> Nat] /\ due \in [Timers -> Nat]
      /\ Tracked(t) /\ RecoveryRuns
  BY DEF TypeOK
<1> USE <1>0
<1>1. ASSUME NEW v \in Timers, NEW k \in Kinds, NEW f \in 0 .. Horizon,
             Schedule(v, k, f)
      PROVE  Tracked(t)'
  BY <1>1, RecordTypes, BoundsAssumption DEF Schedule
<1>2. ASSUME NEW c \in Clients, NEW v \in Timers, NEW op, NEW accepts, NEW val,
             Read(c, op, v, accepts, val)
      PROVE  Tracked(t)'
  BY <1>2 DEF Read
<1>3. ASSUME NEW c \in Clients, Cancel(c) PROVE Tracked(t)'
  BY <1>3, RecordTypes DEF Cancel, Return
<1>4. ASSUME NEW c \in Clients, Pause(c) PROVE Tracked(t)'
  BY <1>4, RecordTypes DEF Pause, Return
<1>5. ASSUME NEW c \in Clients, Resume(c) PROVE Tracked(t)'
  BY <1>5, RecordTypes DEF Resume, Return
<1>6. ASSUME NEW c \in Clients, Reschedule(c) PROVE Tracked(t)'
  BY <1>6, RecordTypes DEF Reschedule, Return
<1>7. ASSUME NEW c \in Clients, Refused(c) PROVE Tracked(t)'
  BY <1>7, RecordTypes DEF Refused, Return
<1>8. ASSUME NEW v \in Timers, Wake(v) PROVE Tracked(t)'
  BY <1>8, RecordTypes DEF Wake
<1>9. ASSUME NEW v \in Timers, Deliver(v) PROVE Tracked(t)'
  BY <1>9, RecordTypes DEF Deliver, Rung
<1>10. ASSUME NEW v \in Timers, FireFails(v) PROVE Tracked(t)'
  BY <1>10, RecordTypes DEF FireFails
<1>11. ASSUME NEW v \in Timers, Unreachable(v) PROVE Tracked(t)'
  BY <1>11, RecordTypes DEF Unreachable
<1>12. ASSUME NEW v \in Timers, ScheduleNext(v) PROVE Tracked(t)'
  <2> DEFINE tasks == [task EXCEPT ![v].pc = "mark"]
  <2>1. tasks \in [Timers -> Tasks] /\ task[v].due \in Nat
    BY <1>12, SetTask, RecordTypes DEF ScheduleNext, TypeOK
  <2>2. /\ nexted' = nexted \cup {v} /\ UNCHANGED <<boots, rings>>
        /\ \/ row'[t] = row[t] /\ task'[t] = tasks[t] /\ arms'[t] = arms[t]
           \/ /\ row[t].state = "free" /\ row'[t].state = "pending"
              /\ task'[t].pc = "sleep" /\ arms'[t] = 1
    BY <1>12, <2>1, AddOccurrencePointwise DEF ScheduleNext
  <2>3. /\ t = v \/ tasks[t] = task[t]
        /\ t = v => tasks[t].pc = "mark"
    BY <2>1
  <2> HIDE DEF tasks
  <2> QED BY <1>12, <2>2, <2>3 DEF ScheduleNext
<1>13. ASSUME NEW v \in Timers, Mark(v) PROVE Tracked(t)'
  BY <1>13, RecordTypes DEF Mark, AfterMark
<1>14. ASSUME NEW v \in Timers, SendNotice(v) PROVE Tracked(t)'
  BY <1>14, RecordTypes DEF SendNotice
<1>15. ASSUME NEW v \in Timers, MarkFails(v) PROVE Tracked(t)'
  BY <1>15, RecordTypes DEF MarkFails, AfterMark
<1>16. ASSUME NEW v \in Timers, DropLate(v) PROVE Tracked(t)'
  BY <1>16, RecordTypes DEF DropLate, Takes
<1>17. ASSUME NEW v \in Timers, Miss(v) PROVE Tracked(t)'
  BY <1>17, RecordTypes DEF Miss, Takes
<1>18. ASSUME NEW v \in Timers, Begin(v) PROVE Tracked(t)'
  BY <1>18, RecordTypes DEF Begin, Takes
<1>19. ASSUME Start PROVE Tracked(t)'
  BY <1>19, RecordTypes DEF Start, Rehydrate, PendingTimers
<1>20. ASSUME StartFails PROVE Tracked(t)'
  BY <1>20, RecordTypes DEF StartFails
<1>21. ASSUME RetryLoad PROVE Tracked(t)'
  BY <1>21, RecordTypes DEF RetryLoad, PendingTimers
<1>22. ASSUME RetryFails PROVE Tracked(t)'
  BY <1>22, RecordTypes DEF RetryFails
<1>23. ASSUME RetryRehydrate PROVE Tracked(t)'
  BY <1>23, RecordTypes DEF RetryRehydrate, Rehydrate
<1>24. ASSUME MissNext PROVE Tracked(t)'
  <2> DEFINE tasks == task
  <2>1. tasks \in [Timers -> Tasks] /\ cur \in Timers
    BY <1>24, SetTask, RecordTypes DEF MissNext, TypeOK
  <2>2. /\ nexted' = nexted \cup {cur} /\ UNCHANGED <<boots, rings>>
        /\ \/ row'[t] = row[t] /\ task'[t] = tasks[t] /\ arms'[t] = arms[t]
           \/ /\ row[t].state = "free" /\ row'[t].state = "pending"
              /\ task'[t].pc = "sleep" /\ arms'[t] = 1
    BY <1>24, <2>1, AddOccurrencePointwise DEF MissNext
  <2> QED BY <1>24, <2>1, <2>2 DEF MissNext
<1>25. ASSUME RecDeliver PROVE Tracked(t)'
  <2>1. cur \in Timers
    BY <1>25 DEF RecDeliver, TypeOK
  <2> QED BY <1>25, <2>1 DEF RecDeliver, RecGoes, Rung
<1>26. ASSUME RecFails PROVE Tracked(t)'
  <2>1. cur \in Timers
    BY <1>26 DEF RecFails, TypeOK
  <2> QED BY <1>26, <2>1 DEF RecFails, RecGoes
<1>27. ASSUME RecUnreachable PROVE Tracked(t)'
  <2>1. cur \in Timers
    BY <1>27 DEF RecUnreachable, TypeOK
  <2> QED BY <1>27, <2>1 DEF RecUnreachable, RecGoes
<1>28. ASSUME RecNext PROVE Tracked(t)'
  <2> DEFINE tasks == task
  <2>1. tasks \in [Timers -> Tasks] /\ cur \in Timers
    BY <1>28, SetTask, RecordTypes DEF RecNext, TypeOK
  <2>2. /\ nexted' = nexted \cup {cur} /\ UNCHANGED <<boots, rings>>
        /\ \/ row'[t] = row[t] /\ task'[t] = tasks[t] /\ arms'[t] = arms[t]
           \/ /\ row[t].state = "free" /\ row'[t].state = "pending"
              /\ task'[t].pc = "sleep" /\ arms'[t] = 1
    BY <1>28, <2>1, AddOccurrencePointwise DEF RecNext
  <2> QED BY <1>28, <2>1, <2>2 DEF RecNext, RecGoes
<1>29. ASSUME RecMark PROVE Tracked(t)'
  <2>1. cur \in Timers
    BY <1>29 DEF RecMark, TypeOK
  <2> QED BY <1>29, <2>1 DEF RecMark, RecGoes
<1>30. ASSUME RecMarkFails PROVE Tracked(t)'
  <2>1. cur \in Timers
    BY <1>30 DEF RecMarkFails, TypeOK
  <2> QED BY <1>30, <2>1 DEF RecMarkFails, RecGoes
<1>31. ASSUME RecDone PROVE Tracked(t)'
  BY <1>31, RecordTypes DEF RecDone
<1>32. ASSUME RecNotice PROVE Tracked(t)'
  BY <1>32, RecordTypes DEF RecNotice
<1>33. ASSUME Stop PROVE Tracked(t)'
  BY <1>33, RecordTypes DEF Stop
<1>34. ASSUME HaDown PROVE Tracked(t)'
  BY <1>34, RecordTypes DEF HaDown
<1>35. ASSUME HaUp PROVE Tracked(t)'
  BY <1>35, RecordTypes DEF HaUp
<1>36. ASSUME Tick PROVE Tracked(t)'
  BY <1>36, RecordTypes DEF Tick
<1>37. CASE UNCHANGED vars
  BY <1>37 DEF vars
<1>38. ASSUME NEW v \in Timers, ScheduleNextFails(v)
       PROVE  Tracked(t)'
  BY <1>38, RecordTypes DEF ScheduleNextFails, GivesUpNext
<1>39. ASSUME NEW v \in Timers, NoticeFails(v)
       PROVE  Tracked(t)'
  BY <1>39, RecordTypes DEF NoticeFails
<1>40. ASSUME NEW v \in Timers, DropLateFails(v)
       PROVE  Tracked(t)'
  BY <1>40, RecordTypes DEF DropLateFails, Takes, Handler
<1>41. ASSUME NEW v \in Timers, MissFails(v)
       PROVE  Tracked(t)'
  BY <1>41, RecordTypes DEF MissFails, Takes, Handler, GivesUpNext
<1>42. ASSUME RecNextFails PROVE Tracked(t)'
  <2>1. cur \in Timers
    BY <1>42 DEF RecNextFails, TypeOK
  <2> QED BY <1>42, <2>1, RecordTypes DEF RecNextFails, RecGoes, GivesUpNext
<1>43. ASSUME RecNoticeFails PROVE Tracked(t)'
  BY <1>43, RecordTypes DEF RecNoticeFails
<1> QED
  BY <1>1, <1>2, <1>3, <1>4, <1>5, <1>6, <1>7, <1>8, <1>9, <1>10, <1>11,
     <1>12, <1>13, <1>14, <1>15, <1>16, <1>17, <1>18, <1>19, <1>20, <1>21,
     <1>22, <1>23, <1>24, <1>25, <1>26, <1>27, <1>28, <1>29, <1>30, <1>31,
     <1>32, <1>33, <1>34, <1>35, <1>36, <1>37, <1>38, <1>39, <1>40, <1>41,
     <1>42, <1>43, KindsAssumption
     DEF Next, TaskStep, Call, RecoveryStep, Fault, ReadCancel, ReadPause,
         ReadResume, ReadRename, ReadMove

\* Over all interleavings of calls, no task that may still ring is left behind
\* on a row that is not pending, as long as recovery has not touched it.
THEOREM TasksFollowRows == Spec => []TaskOnlyWhilePending
<1> DEFINE Inv == RecoveryRuns /\ \A t \in Timers : Tracked(t)
<1>1. Init => Inv
  BY DEF Init, RecoveryRuns, Tracked, NoTask
<1>2. TypeOK /\ Inv /\ [Next]_vars => Inv'
  BY TrackedInductive, RecoveryRunsInductive
<1>3. Inv => TaskOnlyWhilePending
  BY DEF Tracked, TaskOnlyWhilePending
<1> QED BY <1>1, <1>2, <1>3, TypeCorrect, PTL DEF Spec
USE DEF Kinds, Live, Terminal, States, TaskPcs, RecPcs, Ops

(***************************************************************************)
(* What a step does to one timer: to its row, to its task.                 *)
(***************************************************************************)
SameRow(t) == row'[t] = row[t]
SameTask(t) == task'[t] = task[t]

\* The row of t is put in state s and stays as it is otherwise.
RowTo(t, s) ==
  /\ row'[t].state = s /\ row'[t].kind = row[t].kind
  /\ row'[t].fires = row[t].fires

\* The task of t goes to pc and works for the same due time.
TaskTo(t, pc) == task'[t].pc = pc /\ task'[t].due = task[t].due

\* The task of t sleeps, until the time of the row it was given.
SleepsUntil(t, d) == task'[t].pc = "sleep" /\ task'[t].due = d

LEMMA SleepingIs == \A d : Sleeping(d).pc = "sleep" /\ Sleeping(d).due = d
  BY DEF Sleeping

LEMMA PendingRowIs ==
  \A k, f : /\ PendingRow(k, f).state = "pending" /\ PendingRow(k, f).kind = k
            /\ PendingRow(k, f).fires = f
  BY DEF PendingRow

LEMMA RowsAt ==
  ASSUME row \in [Timers -> Rows], NEW v \in Timers, NEW t \in Timers
  PROVE  /\ \A s : row' = [row EXCEPT ![v].state = s] =>
              IF t = v THEN RowTo(t, s) ELSE SameRow(t)
         /\ \A s, x : row' = [row EXCEPT ![v].state = s, ![v].left = x] =>
              IF t = v THEN RowTo(t, s) ELSE SameRow(t)
         /\ \A f : row' = [row EXCEPT ![v].fires = f] =>
              IF t = v THEN /\ row'[t].state = row[t].state
                            /\ row'[t].kind = row[t].kind
                            /\ row'[t].fires = f
              ELSE SameRow(t)
         /\ \A r : row' = [row EXCEPT ![v] = r] =>
              IF t = v THEN row'[t] = r ELSE SameRow(t)
  BY DEF RowTo, SameRow, Rows

LEMMA TasksAt ==
  ASSUME task \in [Timers -> Tasks], NEW v \in Timers, NEW t \in Timers
  PROVE  /\ \A k : task' = [task EXCEPT ![v] = k] =>
              IF t = v THEN task'[t] = k ELSE SameTask(t)
         /\ \A pc : task' = [task EXCEPT ![v].pc = pc] =>
              IF t = v THEN TaskTo(t, pc) ELSE SameTask(t)
         /\ \A pc, e : task' = [task EXCEPT ![v].pc = pc, ![v].end = e] =>
              IF t = v THEN TaskTo(t, pc) ELSE SameTask(t)
         /\ \A pc, w : task' = [task EXCEPT ![v].pc = pc, ![v].wake = w] =>
              IF t = v THEN TaskTo(t, pc) ELSE SameTask(t)
  BY DEF TaskTo, SameTask, Tasks

LEMMA ScheduleAt ==
  ASSUME TypeOK, NEW v \in Timers, NEW k \in Kinds, NEW f \in 0 .. Horizon,
         Schedule(v, k, f), NEW t \in Timers
  PROVE  IF t = v
         THEN /\ row[t].state = "free" /\ row'[t].state = "pending"
              /\ row'[t].fires = f /\ SleepsUntil(t, f) /\ row'[t].kind = k
         ELSE SameRow(t) /\ SameTask(t)
  <1>1. /\ row' = [row EXCEPT ![v] = PendingRow(k, f)] /\ row[v].state = "free"
        /\ task' = [task EXCEPT ![v] = Sleeping(f)]
    BY DEF Schedule
  <1>2. /\ IF t = v THEN row'[t] = PendingRow(k, f) ELSE SameRow(t)
        /\ IF t = v THEN task'[t] = Sleeping(f) ELSE SameTask(t)
    BY <1>1, RowsAt, TasksAt DEF TypeOK
  <1> QED BY <1>1, <1>2, SleepingIs, PendingRowIs DEF SleepsUntil

LEMMA CallAt ==
  ASSUME TypeOK, NEW c \in Clients,
         Cancel(c) \/ Pause(c) \/ Resume(c) \/ Reschedule(c) \/ Refused(c),
         NEW t \in Timers
  PROVE  /\ api[c].op # "none" /\ api[c].id \in Timers
         /\ api' = [api EXCEPT ![c] = NoCall]
         /\ UNCHANGED <<envVars, recVars, failVars, boots, rings, nexted,
                        unscheduled>>
         /\ t # api[c].id => SameRow(t) /\ SameTask(t)
         /\ t = api[c].id =>
              \/ SameRow(t) /\ SameTask(t)
              \/ /\ task'[t].pc = "none"
                 /\ \/ row[t].state \in Live /\ RowTo(t, "cancelled")
                    \/ row[t].state \notin Live /\ SameRow(t)
                    \/ row[t].state = "pending" /\ RowTo(t, "paused")
              \/ /\ row[t].state = "paused" /\ row'[t].state = "pending"
                 /\ row'[t].kind = row[t].kind /\ row'[t].fires = api[c].val
                 /\ IF task[t].pc = "none" THEN SleepsUntil(t, api[c].val)
                    ELSE SameTask(t)
              \/ /\ row[t].state = "pending" /\ row'[t].state = "pending"
                 /\ row'[t].kind = row[t].kind /\ SleepsUntil(t, api[c].val)
                 /\ \/ api[c].op = "rename" /\ row'[t].fires = row[t].fires
                    \/ row'[t].fires = api[c].val
  <1> DEFINE v == api[c].id
  <1>0. /\ api[c].op # "none" /\ v \in Timers
        /\ api' = [api EXCEPT ![c] = NoCall]
        /\ UNCHANGED <<envVars, recVars, failVars, boots, rings, nexted,
                       unscheduled>>
        /\ row \in [Timers -> Rows] /\ task \in [Timers -> Tasks]
    BY DEF Cancel, Pause, Resume, Reschedule, Refused, Return, TypeOK
  <1>n. NoTask.pc = "none"
    BY DEF NoTask
  <1>1. CASE Cancel(c)
    <2>1. /\ row' = IF row[v].state \in Live
                    THEN [row EXCEPT ![v].state = "cancelled"] ELSE row
          /\ task' = [task EXCEPT ![v] = NoTask]
      BY <1>1 DEF Cancel
    <2>2. IF t = v THEN task'[t] = NoTask ELSE SameTask(t)
      BY <1>0, <2>1, TasksAt
    <2>3. CASE row[v].state \in Live
      <3>1. IF t = v THEN RowTo(t, "cancelled") ELSE SameRow(t)
        BY <1>0, <2>1, <2>3, RowsAt
      <3> QED BY <1>0, <1>n, <2>2, <2>3, <3>1
    <2>4. CASE row[v].state \notin Live
      BY <1>0, <1>n, <2>1, <2>2, <2>4 DEF SameRow
    <2> QED BY <2>3, <2>4
  <1>2. CASE Pause(c)
    <2>1. /\ row' = [row EXCEPT ![v].state = "paused", ![v].left = api[c].val]
          /\ task' = [task EXCEPT ![v] = NoTask] /\ row[v].state = "pending"
      BY <1>2 DEF Pause
    <2>2. /\ IF t = v THEN task'[t] = NoTask ELSE SameTask(t)
          /\ IF t = v THEN RowTo(t, "paused") ELSE SameRow(t)
      BY <1>0, <2>1, TasksAt, RowsAt
    <2> QED BY <1>0, <1>n, <2>1, <2>2
  <1>3. CASE Resume(c)
    <2>1. /\ row' = [row EXCEPT ![v] = PendingRow(row[v].kind, api[c].val)]
          /\ task' = IF task[v].pc = "none"
                     THEN [task EXCEPT ![v] = Sleeping(api[c].val)] ELSE task
          /\ row[v].state = "paused"
      BY <1>3 DEF Resume
    <2>2. IF t = v THEN row'[t] = PendingRow(row[v].kind, api[c].val)
          ELSE SameRow(t)
      BY <1>0, <2>1, RowsAt
    <2>3. CASE task[v].pc = "none"
      <3>1. IF t = v THEN task'[t] = Sleeping(api[c].val) ELSE SameTask(t)
        BY <1>0, <2>1, <2>3, TasksAt
      <3> QED BY <1>0, <2>1, <2>2, <2>3, <3>1, SleepingIs, PendingRowIs
              DEF SleepsUntil
    <2>4. CASE task[v].pc # "none"
      BY <1>0, <2>1, <2>2, <2>4, PendingRowIs DEF SameTask
    <2> QED BY <2>3, <2>4
  <1>4. CASE Reschedule(c)
    <2>1. /\ row' = IF api[c].op = "move"
                    THEN [row EXCEPT ![v].fires = api[c].val] ELSE row
          /\ task' = [task EXCEPT ![v] = Sleeping(api[c].val)]
          /\ row[v].state = "pending" /\ api[c].op \in {"move", "rename"}
      BY <1>4 DEF Reschedule
    <2>2. IF t = v THEN task'[t] = Sleeping(api[c].val) ELSE SameTask(t)
      BY <1>0, <2>1, TasksAt
    <2>3. CASE api[c].op = "move"
      <3>1. IF t = v THEN /\ row'[t].state = row[t].state
                          /\ row'[t].kind = row[t].kind
                          /\ row'[t].fires = api[c].val
            ELSE SameRow(t)
        BY <1>0, <2>1, <2>3, RowsAt
      <3> QED BY <1>0, <2>1, <2>2, <3>1, SleepingIs DEF SleepsUntil
    <2>4. CASE api[c].op = "rename"
      BY <1>0, <2>1, <2>2, <2>4, SleepingIs DEF SleepsUntil, SameRow
    <2> QED BY <2>1, <2>3, <2>4
  <1>5. CASE Refused(c)
    BY <1>0, <1>5 DEF Refused, SameRow, SameTask, rowVars
  <1> QED BY <1>1, <1>2, <1>3, <1>4, <1>5

\* A call that gives a timer another due time notes the renames it overtakes.
LEMMA RacedAt ==
  ASSUME TypeOK, NEW c \in Clients,
         Cancel(c) \/ Pause(c) \/ Resume(c) \/ Reschedule(c) \/ Refused(c)
  PROVE  /\ raced \subseteq raced'
         /\ \/ row'[api[c].id].fires = row[api[c].id].fires
            \/ Renaming(c, api[c].id) => api[c].id \in raced'
  <1> DEFINE v == api[c].id
  <1>0. v \in Timers /\ row \in [Timers -> Rows] /\ row[v] \in Rows
    BY DEF Cancel, Pause, Resume, Reschedule, Refused, TypeOK
  <1>1. CASE UNCHANGED raced /\ row'[v].fires = row[v].fires
    BY <1>1
  <1>2. CASE GivesDueTime(c, v)
    BY <1>2 DEF GivesDueTime
  <1>3. CASE Cancel(c)
    <2>1. \/ row' = [row EXCEPT ![v].state = "cancelled"] \/ row' = row
      BY <1>3 DEF Cancel
    <2>2. UNCHANGED raced
      BY <1>3 DEF Cancel
    <2> QED BY <1>0, <1>1, <2>1, <2>2, RowsAt DEF RowTo
  <1>4. CASE Pause(c)
    <2>1. row' = [row EXCEPT ![v].state = "paused", ![v].left = api[c].val]
      BY <1>4 DEF Pause
    <2>2. UNCHANGED raced
      BY <1>4 DEF Pause
    <2> QED BY <1>0, <1>1, <2>1, <2>2, RowsAt DEF RowTo
  <1>5. CASE Resume(c)
    BY <1>2, <1>5 DEF Resume
  <1>6. CASE Reschedule(c)
    BY <1>1, <1>2, <1>6 DEF Reschedule
  <1>7. CASE Refused(c)
    BY <1>1, <1>7 DEF Refused, rowVars
  <1> QED BY <1>3, <1>4, <1>5, <1>6, <1>7
USE DEF Kinds, Live, Terminal, States, TaskPcs, RecPcs, Ops

\* Steps of the task of v that leave the rows alone.
LEMMA FiringAt ==
  ASSUME TypeOK, NEW v \in Timers,
         Wake(v) \/ Deliver(v) \/ FireFails(v) \/ Unreachable(v),
         NEW t \in Timers
  PROVE  /\ UNCHANGED <<rowVars, api, recVars, failVars, boots, nexted,
                        unscheduled, raced>>
         /\ UNCHANGED up /\ SameRow(t)
         /\ t # v => SameTask(t)
         /\ t = v => /\ task[t].pc \in {"sleep", "fire"}
                     /\ \/ TaskTo(t, "fire") \/ TaskTo(t, "sleep")
                        \/ TaskTo(t, AfterFire(row[t].kind))
  <1>1. task \in [Timers -> Tasks]
    BY DEF TypeOK
  <1>2. /\ UNCHANGED <<rowVars, api, recVars, failVars, boots, nexted,
                       unscheduled, raced>>
        /\ UNCHANGED up /\ task[v].pc \in {"sleep", "fire"}
    BY DEF Wake, Deliver, FireFails, Unreachable, Rung, histVars, envVars
  <1>3. SameRow(t)
    BY <1>2 DEF SameRow, rowVars
  <1>4. IF t = v THEN TaskTo(t, "fire") \/ TaskTo(t, "sleep")
                      \/ TaskTo(t, AfterFire(row[v].kind))
        ELSE SameTask(t)
    <2>1. CASE Wake(v)
      BY <1>1, <2>1, TasksAt DEF Wake
    <2>2. CASE Deliver(v)
      BY <1>1, <2>2, TasksAt DEF Deliver
    <2>3. CASE FireFails(v)
      BY <1>1, <2>3, TasksAt DEF FireFails
    <2>4. CASE Unreachable(v)
      BY <1>1, <2>4, TasksAt DEF Unreachable
    <2> QED BY <2>1, <2>2, <2>3, <2>4
  <1> QED BY <1>2, <1>3, <1>4

\* Scheduling the next occurrence of v, by its task or by recovery.
LEMMA NextAt ==
  ASSUME TypeOK, NEW v \in Timers, NEW d \in Nat,
         NEW tasks \in [Timers -> Tasks], AddOccurrence(v, d, tasks),
         NEW t \in Timers
  PROVE  /\ nexted' = nexted \cup {v}
         /\ UNCHANGED <<boots, unscheduled, raced>>
         /\ \/ SameRow(t) /\ task'[t] = tasks[t]
            \/ /\ row[t].state = "free" /\ row'[t].state = "pending"
               /\ row'[t].kind = "series" /\ SleepsUntil(t, row'[t].fires)
  BY AddOccurrencePointwise DEF SameRow, SleepsUntil

LEMMA ScheduleNextAt ==
  ASSUME TypeOK, NEW v \in Timers, ScheduleNext(v), NEW t \in Timers
  PROVE  /\ nexted' = nexted \cup {v} /\ task[v].pc = "next"
         /\ UNCHANGED <<envVars, api, recVars, failVars, boots, unscheduled,
                        raced>>
         /\ \/ SameRow(t) /\ (IF t = v THEN TaskTo(t, "mark") ELSE SameTask(t))
            \/ /\ row[t].state = "free" /\ row'[t].state = "pending"
               /\ row'[t].kind = "series" /\ SleepsUntil(t, row'[t].fires)
  <1> DEFINE tasks == [task EXCEPT ![v].pc = "mark"]
  <1>0. task \in [Timers -> Tasks] /\ "mark" \in TaskPcs
    BY DEF TypeOK
  <1>1. /\ tasks \in [Timers -> Tasks] /\ task[v].due \in Nat
    BY <1>0, SetTask, RecordTypes
  <1>2. IF t = v THEN tasks[t].pc = "mark" /\ tasks[t].due = task[t].due
        ELSE tasks[t] = task[t]
    BY DEF TypeOK, Tasks
  <1>3. /\ AddOccurrence(v, task[v].due, tasks) /\ task[v].pc = "next"
        /\ UNCHANGED <<envVars, api, recVars, failVars>>
    BY DEF ScheduleNext
  <1> HIDE DEF tasks
  <1>4. /\ nexted' = nexted \cup {v}
        /\ UNCHANGED <<boots, unscheduled, raced>>
        /\ \/ SameRow(t) /\ task'[t] = tasks[t]
           \/ /\ row[t].state = "free" /\ row'[t].state = "pending"
              /\ row'[t].kind = "series" /\ SleepsUntil(t, row'[t].fires)
    BY <1>1, <1>3, NextAt
  <1> QED BY <1>2, <1>3, <1>4 DEF TaskTo, SameTask

LEMMA ScheduleNextFailsAt ==
  ASSUME TypeOK, NEW v \in Timers, ScheduleNextFails(v), NEW t \in Timers
  PROVE  /\ unscheduled' = unscheduled \cup {v} /\ task[v].pc = "next"
         /\ UNCHANGED <<envVars, api, recVars, abandoned, lost, boots, nexted,
                        raced>>
         /\ SameRow(t)
         /\ IF t = v THEN TaskTo(t, "mark") ELSE SameTask(t)
  <1>1. /\ unscheduled' = unscheduled \cup {v} /\ task[v].pc = "next"
        /\ UNCHANGED <<envVars, rowVars, api, recVars, abandoned, lost, boots,
                       nexted, raced>>
        /\ task' = [task EXCEPT ![v].pc = "mark"]
    BY DEF ScheduleNextFails, GivesUpNext
  <1>2. IF t = v THEN TaskTo(t, "mark") ELSE SameTask(t)
    BY <1>1, TasksAt DEF TypeOK
  <1> QED BY <1>1, <1>2 DEF SameRow, rowVars

LEMMA MarkingAt ==
  ASSUME TypeOK, NEW v \in Timers, Mark(v) \/ MarkFails(v), NEW t \in Timers
  PROVE  /\ task[v].pc = "mark"
         /\ UNCHANGED <<envVars, arms, api, recVars, abandoned, histVars>>
         /\ t # v => SameRow(t) /\ SameTask(t)
         /\ t = v => /\ task'[t].pc = "none" \/ task'[t].pc = "notice"
                     /\ \/ /\ UNCHANGED lost
                           /\ RowTo(t, "fired") \/ RowTo(t, "expired")
                        \/ lost' = lost \cup {t} /\ SameRow(t)
         /\ lost \subseteq lost'
  <1> DEFINE k == AfterMark(task[v])
  <1>1. /\ task \in [Timers -> Tasks] /\ row \in [Timers -> Rows]
        /\ task[v] \in Tasks /\ task[v].end \in {"fired", "expired"}
        /\ k.pc = "none" \/ k.pc = "notice"
    <2>1. /\ task \in [Timers -> Tasks] /\ row \in [Timers -> Rows]
          /\ task[v] \in Tasks
      BY DEF TypeOK
    <2>2. [task[v] EXCEPT !.pc = "notice"].pc = "notice" /\ NoTask.pc = "none"
          /\ task[v].end \in {"fired", "expired"}
      BY <2>1 DEF Tasks, NoTask
    <2> QED BY <2>1, <2>2 DEF AfterMark
  <1>2. /\ task' = [task EXCEPT ![v] = k] /\ task[v].pc = "mark"
        /\ UNCHANGED <<envVars, arms, api, recVars, abandoned, histVars>>
        /\ \/ UNCHANGED lost /\ row' = [row EXCEPT ![v].state = task[v].end]
           \/ lost' = lost \cup {v} /\ UNCHANGED row
    BY DEF Mark, MarkFails, failVars, rowVars
  <1>3. IF t = v THEN task'[t] = k ELSE SameTask(t)
    BY <1>1, <1>2, TasksAt
  <1> HIDE DEF k
  <1>4. CASE UNCHANGED lost /\ row' = [row EXCEPT ![v].state = task[v].end]
    <2>1. IF t = v THEN RowTo(t, task[v].end) ELSE SameRow(t)
      BY <1>1, <1>4, RowsAt
    <2> QED BY <1>1, <1>2, <1>3, <1>4, <2>1
  <1>5. CASE lost' = lost \cup {v} /\ UNCHANGED row
    BY <1>1, <1>2, <1>3, <1>5 DEF SameRow
  <1> QED BY <1>2, <1>4, <1>5

LEMMA SendNoticeAt ==
  ASSUME TypeOK, NEW v \in Timers, SendNotice(v) \/ NoticeFails(v),
         NEW t \in Timers
  PROVE  /\ UNCHANGED <<envVars, rowVars, api, recVars, failVars,
                        boots, nexted, unscheduled, raced>>
         /\ SameRow(t) /\ task[v].pc = "notice"
         /\ IF t = v THEN task'[t].pc = "none" ELSE SameTask(t)
  <1>1. /\ UNCHANGED <<envVars, rowVars, api, recVars, failVars,
                       boots, nexted, unscheduled, raced>>
        /\ task' = [task EXCEPT ![v] = NoTask] /\ task[v].pc = "notice"
    BY DEF SendNotice, NoticeFails
  <1>2. IF t = v THEN task'[t] = NoTask ELSE SameTask(t)
    BY <1>1, TasksAt DEF TypeOK
  <1> QED BY <1>1, <1>2 DEF NoTask, SameRow, rowVars

\* Rows that are loaded: those that are late stay with recovery, the others get
\* a task.
LEMMA RehydrateAt ==
  ASSUME TypeOK, NEW S \in SUBSET Timers, NEW d \in [Timers -> Nat],
         Rehydrate(S, d), NEW t \in Timers
  PROVE  /\ UNCHANGED <<cur, nexted, unscheduled, raced>>
         /\ recPc' \in {"off", "pick"}
         /\ IF t \in S
            THEN /\ boots'[t] = boots[t] + 1
                 /\ \/ t \in todo' /\ SameTask(t)
                    \/ t \notin todo' /\ SleepsUntil(t, d[t])
            ELSE boots'[t] = boots[t] /\ t \notin todo' /\ SameTask(t)
  <1> DEFINE late == {u \in S : d[u] <= now}
  <1>1. /\ task' = [u \in Timers |-> IF u \in S \ late THEN Sleeping(d[u])
                                     ELSE task[u]]
        /\ todo' = late
        /\ boots' = [u \in Timers |->
                       IF u \in S THEN boots[u] + 1 ELSE boots[u]]
        /\ UNCHANGED <<cur, nexted, unscheduled, raced>>
        /\ recPc' \in {"off", "pick"}
    BY DEF Rehydrate
  <1>2. IF t \in S \ late THEN task'[t] = Sleeping(d[t]) ELSE task'[t] = task[t]
    BY <1>1
  <1>3. boots'[t] = IF t \in S THEN boots[t] + 1 ELSE boots[t]
    BY <1>1
  <1>4. late \subseteq S
    OBVIOUS
  <1> HIDE DEF late
  <1> QED BY <1>1, <1>2, <1>3, <1>4, SleepingIs DEF SleepsUntil, SameTask

\* The recovery coroutine expires a row it takes.
LEMMA ExpiringAt ==
  ASSUME TypeOK, NEW v \in Timers, DropLate(v) \/ Miss(v), NEW t \in Timers
  PROVE  /\ UNCHANGED <<envVars, task, api, failVars, arms, histVars>>
         /\ IF t = v THEN RowTo(t, "expired") ELSE SameRow(t)
         /\ v \in todo /\ todo' = todo \ {v}
         /\ recPc = "pick"
         /\ \/ UNCHANGED <<recPc, cur>>
            \/ recPc' = "missnext" /\ cur' = v
  <1>1. /\ row' = [row EXCEPT ![v].state = "expired"]
        /\ UNCHANGED <<envVars, task, api, failVars, arms, histVars>>
        /\ v \in todo /\ todo' = todo \ {v} /\ recPc = "pick"
        /\ UNCHANGED <<recPc, cur>> \/ (recPc' = "missnext" /\ cur' = v)
    BY DEF DropLate, Miss, Takes
  <1>2. IF t = v THEN RowTo(t, "expired") ELSE SameRow(t)
    BY <1>1, RowsAt DEF TypeOK
  <1> QED BY <1>1, <1>2

\* A statement about the row that recovery took failed: it goes on to mark it.
LEMMA HandledAt ==
  ASSUME TypeOK, NEW v \in Timers, DropLateFails(v) \/ MissFails(v)
  PROVE  /\ UNCHANGED <<envVars, rowVars, task, api, abandoned, lost, boots,
                        nexted, raced>>
         /\ v \in todo /\ todo' = todo \ {v}
         /\ recPc = "pick" /\ recPc' = "mark" /\ cur' = v
         /\ unscheduled \subseteq unscheduled'
         /\ row[v].kind = "series" => v \in unscheduled'
  BY DEF DropLateFails, MissFails, Takes, Handler, GivesUpNext, histVars

LEMMA RecNextFailsAt ==
  ASSUME TypeOK, RecNextFails
  PROVE  /\ UNCHANGED <<envVars, rowVars, task, api, todo, abandoned, lost,
                        boots, nexted, raced>>
         /\ recPc \in {"next", "missnext"} /\ recPc' = "mark" /\ cur' = cur
         /\ unscheduled' = unscheduled \cup {cur}
  BY DEF RecNextFails, RecGoes, GivesUpNext

LEMMA RecoveryNextAt ==
  ASSUME TypeOK, MissNext \/ RecNext, NEW t \in Timers
  PROVE  /\ nexted' = nexted \cup {cur} /\ cur \in Timers
         /\ UNCHANGED <<envVars, api, todo, failVars, boots, unscheduled,
                        raced>>
         /\ \/ recPc = "missnext" /\ recPc' = "pick" /\ cur' = NoTimer
            \/ recPc = "next" /\ recPc' = "mark" /\ cur' = cur
         /\ \/ SameRow(t) /\ SameTask(t)
            \/ /\ row[t].state = "free" /\ row'[t].state = "pending"
               /\ row'[t].kind = "series" /\ SleepsUntil(t, row'[t].fires)
  <1>1. /\ recPc \in {"missnext", "next"} /\ AddOccurrence(cur, due[cur], task)
        /\ UNCHANGED <<envVars, api, todo, failVars>>
        /\ \/ recPc = "missnext" /\ recPc' = "pick" /\ cur' = NoTimer
           \/ recPc = "next" /\ recPc' = "mark" /\ cur' = cur
    BY DEF MissNext, RecNext, RecGoes
  <1>2. cur \in Timers /\ due[cur] \in Nat /\ task \in [Timers -> Tasks]
    BY <1>1 DEF TypeOK
  <1>3. /\ nexted' = nexted \cup {cur}
        /\ UNCHANGED <<boots, unscheduled, raced>>
        /\ \/ SameRow(t) /\ task'[t] = task[t]
           \/ /\ row[t].state = "free" /\ row'[t].state = "pending"
              /\ row'[t].kind = "series" /\ SleepsUntil(t, row'[t].fires)
    BY <1>1, <1>2, NextAt
  <1> QED BY <1>1, <1>2, <1>3 DEF SameTask

LEMMA RecUnreachableAt ==
  ASSUME TypeOK, RecUnreachable, NEW t \in Timers
  PROVE  /\ UNCHANGED <<envVars, api, todo, rowVars, failVars, histVars>>
         /\ SameRow(t) /\ recPc = "fire" /\ recPc' = "pick" /\ cur' = NoTimer
         /\ cur \in Timers
         /\ IF t = cur /\ task[t].pc = "none" THEN SleepsUntil(t, due[t])
            ELSE SameTask(t)
  <1>1. /\ UNCHANGED <<envVars, api, todo, rowVars, failVars, histVars>>
        /\ recPc = "fire" /\ recPc' = "pick" /\ cur' = NoTimer
        /\ task' = IF task[cur].pc = "none"
                   THEN [task EXCEPT ![cur] = Sleeping(due[cur])] ELSE task
    BY DEF RecUnreachable, RecGoes
  <1>2. cur \in Timers /\ task \in [Timers -> Tasks]
    BY <1>1 DEF TypeOK
  <1>3. CASE task[cur].pc = "none"
    <2>1. IF t = cur THEN task'[t] = Sleeping(due[cur]) ELSE SameTask(t)
      BY <1>1, <1>2, <1>3, TasksAt
    <2> QED BY <1>1, <1>2, <1>3, <2>1, SleepingIs
            DEF SleepsUntil, SameRow, rowVars
  <1>4. CASE task[cur].pc # "none"
    BY <1>1, <1>2, <1>4 DEF SameTask, SameRow, rowVars
  <1> QED BY <1>3, <1>4

LEMMA RecMarkingAt ==
  ASSUME TypeOK, RecMark \/ RecMarkFails, NEW t \in Timers
  PROVE  /\ UNCHANGED <<envVars, api, todo, task, abandoned, histVars>>
         /\ recPc = "mark" /\ recPc' = "pick"
         /\ cur' = NoTimer /\ cur \in Timers
         /\ t # cur => SameRow(t)
         /\ t = cur => \/ RowTo(t, "fired")
                       \/ SameRow(t) /\ t \in lost'
         /\ lost \subseteq lost'
  <1>1. /\ UNCHANGED <<envVars, api, todo, task, abandoned, histVars>>
        /\ recPc = "mark" /\ recPc' = "pick" /\ cur' = NoTimer
        /\ \/ row' = [row EXCEPT ![cur].state = "fired"] /\ UNCHANGED lost
           \/ UNCHANGED row /\ lost' = lost \cup {cur}
    BY DEF RecMark, RecMarkFails, RecGoes, failVars, rowVars
  <1>2. cur \in Timers /\ row \in [Timers -> Rows]
    BY <1>1 DEF TypeOK
  <1>3. CASE row' = [row EXCEPT ![cur].state = "fired"] /\ UNCHANGED lost
    <2>1. IF t = cur THEN RowTo(t, "fired") ELSE SameRow(t)
      BY <1>2, <1>3, RowsAt
    <2> QED BY <1>1, <1>2, <1>3, <2>1
  <1>4. CASE UNCHANGED row /\ lost' = lost \cup {cur}
    BY <1>1, <1>2, <1>4 DEF SameRow
  <1> QED BY <1>1, <1>3, <1>4
USE DEF Kinds, Live, Terminal, States, TaskPcs, RecPcs, Ops

(***************************************************************************)
(* Who looks after a timer.  The kind of a row never changes while a task  *)
(* or recovery holds it, so that one that is being marked was seen to be a *)
(* series or not when it fired; and whoever lets go of a pending timer has *)
(* marked it, lost the mark, or handed it over.                            *)
(***************************************************************************)
Held(t) ==
  \/ task[t].pc # "none" \/ t \in todo
  \/ recPc \in {"fire", "next", "mark", "missnext"} /\ cur = t

Continues(t) ==
  /\ Held(t) => row[t].state # "free"
  /\ row[t].kind = "series" =>
       /\ row[t].state = "fired" => t \in nexted \cup unscheduled
       /\ task[t].pc = "mark" => t \in nexted \cup unscheduled
       /\ recPc = "mark" /\ cur = t => t \in nexted \cup unscheduled

Owned(t) ==
  /\ up /\ ~abandoned /\ row[t].state = "pending" =>
       \/ task[t].pc \in {"sleep", "fire", "next", "mark"}
       \/ t \in todo \/ recPc = "retry" \/ t \in lost
       \/ recPc \in {"fire", "next", "mark"} /\ cur = t
  /\ task[t].pc = "notice" => row[t].state \in Terminal \/ t \in lost
  /\ recPc = "missnext" /\ cur = t => row[t].state \in Terminal

LookedAfter(t) == Continues(t) /\ Owned(t)

LEMMA LookedAfterInductive ==
  ASSUME TypeOK, \A u \in Timers : LookedAfter(u), [Next]_vars,
         NEW t \in Timers
  PROVE  LookedAfter(t)'
<1> USE DEF Held, SameRow, SameTask, RowTo, TaskTo, SleepsUntil
<1>0. Continues(t) /\ Owned(t)
  BY DEF LookedAfter
<1>t. row[t].kind \in Kinds /\ row[t].state \in States
      /\ task[t].pc \in TaskPcs
  BY RecordTypes DEF TypeOK
<1>s. ASSUME row' = row, task' = task, recPc' = recPc, todo' = todo,
             cur' = cur, abandoned' = abandoned, up' = up,
             nexted' = nexted, unscheduled' = unscheduled, lost' = lost
      PROVE  Continues(t)' /\ Owned(t)'
  BY <1>0, <1>s DEF Continues, Owned
<1>1. ASSUME NEW v \in Timers, NEW k \in Kinds, NEW f \in 0 .. Horizon,
             Schedule(v, k, f)
      PROVE  Continues(t)' /\ Owned(t)'
  <2>1. UNCHANGED <<envVars, recVars, failVars, histVars>>
    BY <1>1 DEF Schedule
  <2> QED BY <1>0, <1>1, <2>1, ScheduleAt
          DEF envVars, recVars, failVars, histVars, Continues, Owned
<1>2. ASSUME NEW c \in Clients, NEW v \in Timers, NEW op, NEW accepts, NEW val,
             Read(c, op, v, accepts, val)
      PROVE  Continues(t)' /\ Owned(t)'
  BY <1>2, <1>s DEF Read, envVars, recVars, failVars, histVars, rowVars
<1>3. ASSUME NEW c \in Clients, Call(c) PROVE Continues(t)' /\ Owned(t)'
  <2>1. /\ UNCHANGED <<envVars, recVars, failVars, nexted, unscheduled>>
        /\ \/ SameRow(t) /\ SameTask(t)
           \/ /\ task'[t].pc = "none"
              /\ \/ RowTo(t, "cancelled")
                 \/ row[t].state \notin Live /\ SameRow(t)
                 \/ row[t].state = "pending" /\ RowTo(t, "paused")
           \/ /\ row[t].state \in Live /\ row'[t].state = "pending"
              /\ row'[t].kind = row[t].kind
              /\ task'[t].pc = "sleep" \/ (task[t].pc # "none" /\ SameTask(t))
    BY <1>3, CallAt DEF Call
  <2> QED BY <1>0, <1>t, <2>1
          DEF envVars, recVars, failVars, Continues, Owned
<1>4. ASSUME NEW v \in Timers,
             Wake(v) \/ Deliver(v) \/ FireFails(v) \/ Unreachable(v)
      PROVE  Continues(t)' /\ Owned(t)'
  BY <1>0, <1>4, <1>t, FiringAt
  DEF recVars, failVars, Continues, Owned, AfterFire
<1>5. ASSUME NEW v \in Timers, ScheduleNext(v)
      PROVE  Continues(t)' /\ Owned(t)'
  BY <1>0, <1>5, ScheduleNextAt
  DEF envVars, recVars, failVars, Continues, Owned
<1>6. ASSUME NEW v \in Timers, Mark(v) \/ MarkFails(v)
      PROVE  Continues(t)' /\ Owned(t)'
  BY <1>0, <1>6, MarkingAt
  DEF envVars, recVars, histVars, Continues, Owned
<1>7. ASSUME NEW v \in Timers, SendNotice(v) \/ NoticeFails(v)
      PROVE  Continues(t)' /\ Owned(t)'
  BY <1>0, <1>7, SendNoticeAt
  DEF envVars, recVars, failVars, Continues, Owned
<1>8. ASSUME NEW v \in Timers, DropLate(v) \/ Miss(v)
      PROVE  Continues(t)' /\ Owned(t)'
  BY <1>0, <1>8, ExpiringAt
  DEF envVars, failVars, histVars, Continues, Owned
<1>9. ASSUME NEW v \in Timers, Begin(v) PROVE Continues(t)' /\ Owned(t)'
  <2>1. /\ UNCHANGED <<envVars, rowVars, task, failVars, histVars>>
        /\ recPc = "pick" /\ v \in todo /\ todo' = todo \ {v}
        /\ recPc' = "fire" /\ cur' = v
    BY <1>9 DEF Begin, Takes
  <2>2. Continues(v)
    BY DEF LookedAfter
  <2> QED BY <1>0, <2>1, <2>2
          DEF envVars, rowVars, failVars, histVars, Continues, Owned
<1>10. ASSUME Start PROVE Continues(t)' /\ Owned(t)'
  <2> DEFINE d == [u \in Timers |-> row[u].fires]
  <2>1. /\ UNCHANGED <<rowVars, failVars>> /\ up' = TRUE
        /\ Rehydrate(PendingTimers, d)
    BY <1>10 DEF Start
  <2>2. PendingTimers \in SUBSET Timers /\ d \in [Timers -> Nat]
    BY RecordTypes DEF PendingTimers, TypeOK
  <2> HIDE DEF d
  <2>3. t \in PendingTimers <=> row[t].state = "pending"
    BY DEF PendingTimers
  <2> QED BY <1>0, <2>1, <2>2, <2>3, RehydrateAt
          DEF rowVars, failVars, Continues, Owned
<1>11. ASSUME RetryRehydrate PROVE Continues(t)' /\ Owned(t)'
  <2> DEFINE S == {u \in todo : task[u].pc = "none"}
  <2>1. /\ UNCHANGED <<rowVars, failVars, envVars>> /\ Rehydrate(S, due)
        /\ recPc = "snap"
    BY <1>11 DEF RetryRehydrate
  <2>2. S \in SUBSET Timers /\ due \in [Timers -> Nat]
    BY DEF TypeOK
  <2>3. t \in S <=> t \in todo /\ task[t].pc = "none"
    OBVIOUS
  <2> HIDE DEF S
  <2> QED BY <1>0, <1>t, <2>1, <2>2, <2>3, RehydrateAt
          DEF rowVars, failVars, envVars, Continues, Owned
<1>12. ASSUME StartFails \/ RetryLoad \/ RetryFails
       PROVE  Continues(t)' /\ Owned(t)'
  BY <1>0, <1>12 DEF StartFails, RetryLoad, RetryFails, PendingTimers,
    rowVars, envVars, failVars, histVars, Continues, Owned
<1>13. ASSUME MissNext \/ RecNext PROVE Continues(t)' /\ Owned(t)'
  BY <1>0, <1>13, RecoveryNextAt
  DEF envVars, failVars, Continues, Owned
<1>14. ASSUME RecDeliver \/ RecFails PROVE Continues(t)' /\ Owned(t)'
  <2>1. /\ UNCHANGED <<rowVars, task, failVars, envVars, nexted, unscheduled,
                       todo, cur>>
        /\ recPc = "fire" /\ recPc' = AfterFire(row[cur].kind)
        /\ cur \in Timers
    BY <1>14, RecordTypes DEF RecDeliver, RecFails, RecGoes, Rung, histVars,
       TypeOK, AfterFire
  <2> QED BY <1>0, <2>1
          DEF rowVars, failVars, envVars, AfterFire, Continues, Owned
<1>15. ASSUME RecUnreachable PROVE Continues(t)' /\ Owned(t)'
  BY <1>0, <1>t, <1>15, RecUnreachableAt
  DEF envVars, failVars, histVars, Continues, Owned
<1>16. ASSUME RecMark \/ RecMarkFails PROVE Continues(t)' /\ Owned(t)'
  BY <1>0, <1>16, RecMarkingAt
  DEF envVars, histVars, Continues, Owned
<1>17. ASSUME RecDone \/ RecNotice \/ RecNoticeFails
       PROVE  Continues(t)' /\ Owned(t)'
  BY <1>0, <1>17 DEF RecDone, RecNotice, RecNoticeFails, rowVars, envVars, failVars, histVars,
    Continues, Owned
<1>18. ASSUME Stop PROVE Continues(t)' /\ Owned(t)'
  <2>1. /\ up' = FALSE /\ task'[t] = NoTask /\ recPc' = "off" /\ todo' = {}
        /\ UNCHANGED <<rowVars, histVars>>
    BY <1>18 DEF Stop
  <2> QED BY <1>0, <2>1 DEF rowVars, histVars, NoTask, Continues, Owned
<1>19. CASE HaDown \/ HaUp \/ Tick \/ UNCHANGED vars
  <2>1. /\ row' = row /\ task' = task /\ recPc' = recPc /\ todo' = todo
        /\ cur' = cur /\ abandoned' = abandoned /\ up' = up
        /\ nexted' = nexted /\ unscheduled' = unscheduled /\ lost' = lost
    BY <1>19 DEF HaDown, HaUp, Tick, vars, rowVars, recVars, failVars, histVars
  <2> QED BY <2>1, <1>s DEF LookedAfter
<1>20. ASSUME NEW v \in Timers, ScheduleNextFails(v)
       PROVE  Continues(t)' /\ Owned(t)'
  BY <1>0, <1>20, ScheduleNextFailsAt
  DEF envVars, recVars, Continues, Owned
<1>21. ASSUME NEW v \in Timers, DropLateFails(v) \/ MissFails(v)
       PROVE  Continues(t)' /\ Owned(t)'
  BY <1>0, <1>21, HandledAt DEF envVars, rowVars, Continues, Owned
<1>22. ASSUME RecNextFails PROVE Continues(t)' /\ Owned(t)'
  BY <1>0, <1>22, RecNextFailsAt DEF envVars, rowVars, Continues, Owned
<1> QED
  BY <1>1, <1>2, <1>3, <1>4, <1>5, <1>6, <1>7, <1>8, <1>9, <1>10, <1>11,
     <1>12, <1>13, <1>14, <1>15, <1>16, <1>17, <1>18, <1>19, <1>20, <1>21,
     <1>22, KindsAssumption
     DEF Next, TaskStep, RecoveryStep, Fault, ReadCancel, ReadPause,
         ReadResume, ReadRename, ReadMove, LookedAfter
USE DEF Kinds, Live, Terminal, States, TaskPcs, RecPcs, Ops

LEMMA LookedAfterAlways == Spec => [](\A t \in Timers : LookedAfter(t))
<1>1. Init => \A t \in Timers : LookedAfter(t)
  <2> SUFFICES ASSUME Init, NEW t \in Timers PROVE LookedAfter(t)
    OBVIOUS
  <2>1. /\ row[t].state = "free" /\ task[t].pc = "none" /\ recPc = "off"
        /\ todo = {}
    BY DEF Init, FreeRow, NoTask
  <2> QED BY <2>1 DEF LookedAfter, Continues, Owned, Held
<1>2. TypeOK /\ (\A t \in Timers : LookedAfter(t)) /\ [Next]_vars
        => (\A t \in Timers : LookedAfter(t))'
  BY LookedAfterInductive
<1> QED BY <1>1, <1>2, TypeCorrect, PTL DEF Spec

\* Calls, faults, stops and recovery never lose a pending timer: while the
\* process runs a task or the recovery coroutine has it, or a database
\* statement about it failed (timer_scheduler.py start, _process_overdue_rows).
THEOREM PendingAlwaysOwned == Spec => []PendingHasOwner
<1>1. (\A t \in Timers : LookedAfter(t)) => PendingHasOwner
  BY DEF LookedAfter, Owned, PendingHasOwner, PendingTimers
<1> QED BY <1>1, LookedAfterAlways, PTL

\* A series that is marked fired has had its next occurrence scheduled, whoever
\* fired it and however often the process stopped, or a statement that failed
\* kept it from being scheduled (timer_scheduler.py _finish_fired,
\* _schedule_next_occurrence_safely, _process_overdue_rows).
THEOREM FiredSeriesGoOn == Spec => []FiredSeriesContinues
<1>1. (\A t \in Timers : LookedAfter(t)) => FiredSeriesContinues
  BY DEF LookedAfter, Continues, FiredSeriesContinues
<1> QED BY <1>1, LookedAfterAlways, PTL

(***************************************************************************)
(* The task of a timer follows its row.  A rename writes the due time that *)
(* it read into the task: that is the due time of the row still, or the    *)
(* call that changed it found the rename under way.  And a free row, which *)
(* recovery or a task may turn into the next occurrence of a series, is not*)
(* one that a call has read.                                               *)
(***************************************************************************)
Follows(t) ==
  /\ boots[t] = 0 /\ task[t].pc \in {"sleep", "fire"}
       => task[t].due = row[t].fires \/ t \in raced
  /\ \A c \in Clients :
       api[c].op # "none" /\ api[c].id = t =>
         /\ row[t].state # "free"
         /\ api[c].op = "rename" => api[c].val = row[t].fires \/ t \in raced

LEMMA FollowsInductive ==
  ASSUME TypeOK, RecoveryRuns, [Next]_vars,
         \A u \in Timers : Tracked(u) /\ LookedAfter(u) /\ Follows(u),
         NEW t \in Timers
  PROVE  Follows(t)'
<1> USE DEF SameRow, SameTask, RowTo, TaskTo, SleepsUntil
<1>0. Follows(t) /\ Tracked(t) /\ Continues(t)
  BY DEF LookedAfter
<1>t. row[t].kind \in Kinds /\ row[t].state \in States
      /\ task[t].pc \in TaskPcs /\ boots \in [Timers -> Nat]
  BY RecordTypes DEF TypeOK
<1>s. ASSUME row'[t] = row[t], task'[t] = task[t], boots'[t] = boots[t],
             api' = api, raced' = raced
      PROVE  Follows(t)'
  BY <1>0, <1>s DEF Follows
<1>1. ASSUME NEW v \in Timers, NEW k \in Kinds, NEW f \in 0 .. Horizon,
             Schedule(v, k, f)
      PROVE  Follows(t)'
  <2>1. UNCHANGED <<api, histVars>>
    BY <1>1 DEF Schedule
  <2> QED BY <1>0, <1>1, <2>1, ScheduleAt DEF histVars, Follows
<1>2. ASSUME NEW c \in Clients, NEW v \in Timers, NEW op, NEW accepts, NEW val,
             Read(c, op, v, accepts, val), "free" \notin accepts,
             op = "rename" => val = row[v].fires
      PROVE  Follows(t)'
  <2>1. /\ UNCHANGED <<rowVars, task, histVars>> /\ row[v].state # "free"
        /\ api' = [api EXCEPT ![c] = [op |-> op, id |-> v, val |-> val]]
    BY <1>2 DEF Read
  <2>2. \A e \in Clients :
          api'[e] = IF e = c THEN [op |-> op, id |-> v, val |-> val] ELSE api[e]
    BY <2>1 DEF TypeOK
  <2> QED BY <1>0, <1>2, <2>1, <2>2 DEF rowVars, histVars, Follows
<1>3. ASSUME NEW c \in Clients, Call(c) PROVE Follows(t)'
  <2>1. /\ api[c].op # "none" /\ api[c].id \in Timers
        /\ api' = [api EXCEPT ![c] = NoCall] /\ boots' = boots
        /\ raced \subseteq raced'
    BY <1>3, CallAt, RacedAt DEF Call
  <2>2. \A e \in Clients :
          IF e = c THEN api'[e].op = "none" ELSE api'[e] = api[e]
    BY <2>1 DEF NoCall, TypeOK
  <2>3. CASE t # api[c].id
    <3>1. row'[t] = row[t] /\ task'[t] = task[t]
      BY <1>3, <2>3, CallAt DEF Call
    <3> QED BY <1>0, <2>1, <2>2, <3>1 DEF Follows
  <2>4. CASE t = api[c].id
    <3>1. \/ SameRow(t) /\ SameTask(t)
          \/ task'[t].pc = "none" /\ row'[t].state # "free"
          \/ task'[t].pc = "none" /\ SameRow(t)
          \/ /\ row[t].state = "paused" /\ row'[t].fires = api[c].val
             /\ row'[t].state = "pending"
             /\ IF task[t].pc = "none" THEN SleepsUntil(t, api[c].val)
                ELSE SameTask(t)
          \/ /\ SleepsUntil(t, api[c].val) /\ row'[t].state = "pending"
             /\ \/ api[c].op = "rename" /\ row'[t].fires = row[t].fires
                \/ row'[t].fires = api[c].val
      BY <1>3, <2>4, CallAt DEF Call
    <3>2. boots'[t] = 0 /\ task'[t].pc \in {"sleep", "fire"}
            => task'[t].due = row'[t].fires \/ t \in raced'
      BY <1>0, <1>t, <2>1, <2>4, <3>1 DEF Follows, Tracked
    <3>3. ASSUME NEW e \in Clients, api'[e].op # "none", api'[e].id = t
          PROVE  /\ row'[t].state # "free"
                 /\ api'[e].op = "rename"
                      => api'[e].val = row'[t].fires \/ t \in raced'
      <4>1. e # c /\ api'[e] = api[e]
        BY <2>2, <3>3
      <4>2. /\ row[t].state # "free"
            /\ api[e].op = "rename" => api[e].val = row[t].fires \/ t \in raced
        BY <1>0, <3>3, <4>1 DEF Follows
      <4>3. row'[t].state # "free"
        BY <3>1, <4>2
      <4>4. api[e].op = "rename"
              => row'[t].fires = row[t].fires \/ t \in raced'
        BY <1>3, <2>4, <3>3, <4>1, RacedAt DEF Call, Renaming
      <4> QED BY <2>1, <4>1, <4>2, <4>3, <4>4
    <3> QED BY <3>2, <3>3 DEF Follows
  <2> QED BY <2>3, <2>4
<1>4. ASSUME NEW v \in Timers,
             Wake(v) \/ Deliver(v) \/ FireFails(v) \/ Unreachable(v)
      PROVE  Follows(t)'
  BY <1>0, <1>4, <1>t, FiringAt DEF Follows
<1>5. ASSUME NEW v \in Timers, ScheduleNext(v) PROVE Follows(t)'
  BY <1>0, <1>5, ScheduleNextAt DEF Follows
<1>6. ASSUME NEW v \in Timers, Mark(v) \/ MarkFails(v) PROVE Follows(t)'
  BY <1>0, <1>6, MarkingAt DEF histVars, Follows
<1>7. ASSUME NEW v \in Timers, SendNotice(v) \/ NoticeFails(v)
      PROVE  Follows(t)'
  BY <1>0, <1>7, SendNoticeAt DEF Follows
<1>8. ASSUME NEW v \in Timers, DropLate(v) \/ Miss(v) PROVE Follows(t)'
  BY <1>0, <1>8, ExpiringAt DEF histVars, Follows
<1>9. ASSUME Start \/ RetryRehydrate PROVE Follows(t)'
  <2> DEFINE S == IF up THEN {u \in todo : task[u].pc = "none"}
                  ELSE PendingTimers
             d == IF up THEN due ELSE [u \in Timers |-> row[u].fires]
  <2>1. UNCHANGED <<rowVars, api>>
    BY <1>9 DEF Start, RetryRehydrate
  <2>2. Rehydrate(S, d)
    BY <1>9 DEF Start, RetryRehydrate, RecoveryRuns
  <2>3. S \in SUBSET Timers /\ d \in [Timers -> Nat]
    BY RecordTypes DEF PendingTimers, TypeOK
  <2> HIDE DEF S, d
  <2>4. /\ raced' = raced
        /\ IF t \in S THEN boots'[t] = boots[t] + 1
           ELSE boots'[t] = boots[t] /\ SameTask(t)
    BY <2>2, <2>3, RehydrateAt
  <2> QED BY <1>0, <1>t, <2>1, <2>4 DEF rowVars, Follows
<1>10. ASSUME MissNext \/ RecNext PROVE Follows(t)'
  BY <1>0, <1>10, RecoveryNextAt DEF Follows
<1>11. ASSUME RecUnreachable PROVE Follows(t)'
  BY <1>0, <1>t, <1>11, RecUnreachableAt DEF histVars, Follows, Tracked
<1>12. ASSUME RecMark \/ RecMarkFails PROVE Follows(t)'
  BY <1>0, <1>12, RecMarkingAt DEF histVars, Follows
<1>13. ASSUME Stop PROVE Follows(t)'
  <2>1. task'[t].pc = "none" /\ \A c \in Clients : api'[c].op = "none"
    BY <1>13 DEF Stop, NoTask, NoCall
  <2> QED BY <2>1 DEF Follows
<1>14. ASSUME \/ \E v \in Timers : Begin(v)
              \/ StartFails \/ RetryLoad \/ RetryFails \/ RecDeliver
              \/ RecFails \/ RecDone \/ RecNotice \/ RecNoticeFails
              \/ HaDown \/ HaUp \/ Tick \/ UNCHANGED vars
       PROVE  Follows(t)'
  <2>1. /\ row' = row /\ task' = task /\ boots' = boots /\ api' = api
        /\ raced' = raced
    BY <1>14 DEF RecNoticeFails, Begin, StartFails, RetryLoad, RetryFails, RecDeliver, RecFails,
      RecDone, RecNotice, HaDown, HaUp, Tick, vars, rowVars, recVars, histVars,
      RecGoes, Rung
  <2> QED BY <1>s, <2>1
<1>15. ASSUME NEW c \in Clients, NEW v \in Timers,
              \/ ReadCancel(c, v) \/ ReadPause(c, v) \/ ReadResume(c, v)
              \/ ReadRename(c, v) \/ \E f \in 0 .. Horizon : ReadMove(c, v, f)
       PROVE  Follows(t)'
  BY <1>15, <1>2 DEF ReadCancel, ReadPause, ReadResume, ReadRename, ReadMove
<1>16. ASSUME NEW v \in Timers, ScheduleNextFails(v) PROVE Follows(t)'
  BY <1>0, <1>16, ScheduleNextFailsAt DEF Follows
<1>17. ASSUME \/ \E v \in Timers : DropLateFails(v) \/ MissFails(v)
              \/ RecNextFails
       PROVE  Follows(t)'
  BY <1>s, <1>17, HandledAt, RecNextFailsAt DEF rowVars
<1> QED
  BY <1>1, <1>3, <1>4, <1>5, <1>6, <1>7, <1>8, <1>9, <1>10, <1>11, <1>12,
     <1>13, <1>14, <1>15, <1>16, <1>17, KindsAssumption
     DEF Next, TaskStep, RecoveryStep, Fault

\* Under any number of callers the task of a timer that no start rehydrated
\* sleeps for the due time of the table, unless a call gave the timer that time
\* between the read and the write of a rename (timer_scheduler.py reschedule).
THEOREM TasksMatchRows == Spec => []TaskMatchesRow
<1>1. Init => RecoveryRuns /\ \A t \in Timers : Tracked(t) /\ Follows(t)
  BY DEF Init, RecoveryRuns, Tracked, NoTask, NoCall, Follows
<1>2. /\ TypeOK /\ RecoveryRuns /\ [Next]_vars
      /\ \A t \in Timers : Tracked(t) /\ Follows(t)
      /\ \A t \in Timers : LookedAfter(t)
      => (RecoveryRuns /\ \A t \in Timers : Tracked(t) /\ Follows(t))'
  BY FollowsInductive, TrackedInductive, RecoveryRunsInductive
<1>3. (\A t \in Timers : Tracked(t) /\ Follows(t)) => TaskMatchesRow
  BY DEF Follows, TaskMatchesRow
<1> QED BY <1>1, <1>2, <1>3, LookedAfterAlways, TypeCorrect, PTL DEF Spec

-----------------------------------------------------------------------------
(***************************************************************************)
(* TimerScheduler implements TimerPromise: each action of the scheduler is *)
(* an action of the promise or a step that the promise does not see.       *)
(***************************************************************************)

(* Whatever a task or the recovery coroutine holds was scheduled once, so  *)
(* that marking or loading it is a step of an accepted timer.              *)

InUse(t) ==
  /\ task[t].pc # "none" => row[t].state # "free"
  /\ t \in todo => row[t].state # "free"
  /\ recPc \in {"fire", "next", "mark", "missnext"} /\ cur = t
       => row[t].state # "free"

LEMMA InUseInductive ==
  ASSUME TypeOK, RecoveryRuns, \A u \in Timers : InUse(u), [Next]_vars,
         NEW t \in Timers
  PROVE  InUse(t)'
<1> USE DEF rowVars, recVars, failVars, histVars, envVars, InUse, NoTask,
           Sleeping, PendingRow, AfterFire, AfterMark, RecoveryRuns
<1>0. /\ row \in [Timers -> Rows] /\ task \in [Timers -> Tasks]
      /\ boots \in [Timers -> Nat] /\ due \in [Timers -> Nat]
      /\ InUse(t) /\ RecoveryRuns
  BY DEF TypeOK
<1> USE <1>0
<1>1. ASSUME NEW v \in Timers, NEW k \in Kinds, NEW f \in 0 .. Horizon,
             Schedule(v, k, f)
      PROVE  InUse(t)'
  BY <1>1, RecordTypes, BoundsAssumption DEF Schedule
<1>2. ASSUME NEW c \in Clients, NEW v \in Timers, NEW op, NEW accepts, NEW val,
             Read(c, op, v, accepts, val)
      PROVE  InUse(t)'
  BY <1>2 DEF Read
<1>3. ASSUME NEW c \in Clients, Cancel(c) PROVE InUse(t)'
  BY <1>3, RecordTypes DEF Cancel, Return
<1>4. ASSUME NEW c \in Clients, Pause(c) PROVE InUse(t)'
  BY <1>4, RecordTypes DEF Pause, Return
<1>5. ASSUME NEW c \in Clients, Resume(c) PROVE InUse(t)'
  BY <1>5, RecordTypes DEF Resume, Return
<1>6. ASSUME NEW c \in Clients, Reschedule(c) PROVE InUse(t)'
  BY <1>6, RecordTypes DEF Reschedule, Return
<1>7. ASSUME NEW c \in Clients, Refused(c) PROVE InUse(t)'
  BY <1>7, RecordTypes DEF Refused, Return
<1>8. ASSUME NEW v \in Timers, Wake(v) PROVE InUse(t)'
  BY <1>8, RecordTypes DEF Wake
<1>9. ASSUME NEW v \in Timers, Deliver(v) PROVE InUse(t)'
  BY <1>9, RecordTypes DEF Deliver, Rung
<1>10. ASSUME NEW v \in Timers, FireFails(v) PROVE InUse(t)'
  BY <1>10, RecordTypes DEF FireFails
<1>11. ASSUME NEW v \in Timers, Unreachable(v) PROVE InUse(t)'
  BY <1>11, RecordTypes DEF Unreachable
<1>12. ASSUME NEW v \in Timers, ScheduleNext(v) PROVE InUse(t)'
  <2> DEFINE tasks == [task EXCEPT ![v].pc = "mark"]
  <2>1. tasks \in [Timers -> Tasks] /\ task[v].due \in Nat
    BY SetTask, RecordTypes
  <2>2. /\ nexted' = nexted \cup {v} /\ UNCHANGED <<boots, rings>>
        /\ \/ row'[t] = row[t] /\ task'[t] = tasks[t] /\ arms'[t] = arms[t]
           \/ /\ row[t].state = "free" /\ row'[t].state = "pending"
              /\ task'[t].pc = "sleep" /\ arms'[t] = 1
    BY <1>12, <2>1, AddOccurrencePointwise DEF ScheduleNext
  <2>3. /\ t = v \/ tasks[t] = task[t]
        /\ t = v => tasks[t].pc = "mark"
    BY <2>1
  <2> HIDE DEF tasks
  <2> QED BY <1>12, <2>2, <2>3 DEF ScheduleNext
<1>13. ASSUME NEW v \in Timers, Mark(v) PROVE InUse(t)'
  <2>1. task[v].end # "free"
    BY RecordTypes
  <2> QED BY <1>13, <2>1 DEF Mark
<1>14. ASSUME NEW v \in Timers, SendNotice(v) PROVE InUse(t)'
  BY <1>14, RecordTypes DEF SendNotice
<1>15. ASSUME NEW v \in Timers, MarkFails(v) PROVE InUse(t)'
  BY <1>15, RecordTypes DEF MarkFails, AfterMark
<1>16. ASSUME NEW v \in Timers, DropLate(v) PROVE InUse(t)'
  BY <1>16, RecordTypes DEF DropLate, Takes
<1>17. ASSUME NEW v \in Timers, Miss(v) PROVE InUse(t)'
  BY <1>17, RecordTypes DEF Miss, Takes
<1>18. ASSUME NEW v \in Timers, Begin(v) PROVE InUse(t)'
  BY <1>18, RecordTypes DEF Begin, Takes
<1>19. ASSUME Start PROVE InUse(t)'
  BY <1>19, RecordTypes DEF Start, Rehydrate, PendingTimers
<1>20. ASSUME StartFails PROVE InUse(t)'
  BY <1>20, RecordTypes DEF StartFails
<1>21. ASSUME RetryLoad PROVE InUse(t)'
  BY <1>21, RecordTypes DEF RetryLoad, PendingTimers
<1>22. ASSUME RetryFails PROVE InUse(t)'
  BY <1>22, RecordTypes DEF RetryFails
<1>23. ASSUME RetryRehydrate PROVE InUse(t)'
  BY <1>23, RecordTypes DEF RetryRehydrate, Rehydrate
<1>24. ASSUME MissNext PROVE InUse(t)'
  <2> DEFINE tasks == task
  <2>1. tasks \in [Timers -> Tasks] /\ cur \in Timers
    BY <1>24, SetTask, RecordTypes DEF MissNext, TypeOK
  <2>2. /\ nexted' = nexted \cup {cur} /\ UNCHANGED <<boots, rings>>
        /\ \/ row'[t] = row[t] /\ task'[t] = tasks[t] /\ arms'[t] = arms[t]
           \/ /\ row[t].state = "free" /\ row'[t].state = "pending"
              /\ task'[t].pc = "sleep" /\ arms'[t] = 1
    BY <1>24, <2>1, AddOccurrencePointwise DEF MissNext
  <2> QED BY <1>24, <2>1, <2>2 DEF MissNext
<1>25. ASSUME RecDeliver PROVE InUse(t)'
  <2>1. cur \in Timers
    BY <1>25 DEF RecDeliver, TypeOK
  <2> QED BY <1>25, <2>1 DEF RecDeliver, RecGoes, Rung
<1>26. ASSUME RecFails PROVE InUse(t)'
  <2>1. cur \in Timers
    BY <1>26 DEF RecFails, TypeOK
  <2> QED BY <1>26, <2>1 DEF RecFails, RecGoes
<1>27. ASSUME RecUnreachable PROVE InUse(t)'
  <2>1. cur \in Timers
    BY <1>27 DEF RecUnreachable, TypeOK
  <2> QED BY <1>27, <2>1 DEF RecUnreachable, RecGoes
<1>28. ASSUME RecNext PROVE InUse(t)'
  <2> DEFINE tasks == task
  <2>1. tasks \in [Timers -> Tasks] /\ cur \in Timers
    BY <1>28, SetTask, RecordTypes DEF RecNext, TypeOK
  <2>2. /\ nexted' = nexted \cup {cur} /\ UNCHANGED <<boots, rings>>
        /\ \/ row'[t] = row[t] /\ task'[t] = tasks[t] /\ arms'[t] = arms[t]
           \/ /\ row[t].state = "free" /\ row'[t].state = "pending"
              /\ task'[t].pc = "sleep" /\ arms'[t] = 1
    BY <1>28, <2>1, AddOccurrencePointwise DEF RecNext
  <2> QED BY <1>28, <2>1, <2>2 DEF RecNext, RecGoes
<1>29. ASSUME RecMark PROVE InUse(t)'
  <2>1. cur \in Timers
    BY <1>29 DEF RecMark, TypeOK
  <2> QED BY <1>29, <2>1 DEF RecMark, RecGoes
<1>30. ASSUME RecMarkFails PROVE InUse(t)'
  <2>1. cur \in Timers
    BY <1>30 DEF RecMarkFails, TypeOK
  <2> QED BY <1>30, <2>1 DEF RecMarkFails, RecGoes
<1>31. ASSUME RecDone PROVE InUse(t)'
  BY <1>31, RecordTypes DEF RecDone
<1>32. ASSUME RecNotice PROVE InUse(t)'
  BY <1>32, RecordTypes DEF RecNotice
<1>33. ASSUME Stop PROVE InUse(t)'
  BY <1>33, RecordTypes DEF Stop
<1>34. ASSUME HaDown PROVE InUse(t)'
  BY <1>34, RecordTypes DEF HaDown
<1>35. ASSUME HaUp PROVE InUse(t)'
  BY <1>35, RecordTypes DEF HaUp
<1>36. ASSUME Tick PROVE InUse(t)'
  BY <1>36, RecordTypes DEF Tick
<1>37. CASE UNCHANGED vars
  BY <1>37 DEF vars
<1>38. ASSUME NEW v \in Timers, ScheduleNextFails(v)
       PROVE  InUse(t)'
  BY <1>38, RecordTypes DEF ScheduleNextFails, GivesUpNext
<1>39. ASSUME NEW v \in Timers, NoticeFails(v)
       PROVE  InUse(t)'
  BY <1>39, RecordTypes DEF NoticeFails
<1>40. ASSUME NEW v \in Timers, DropLateFails(v)
       PROVE  InUse(t)'
  BY <1>40, RecordTypes DEF DropLateFails, Takes, Handler
<1>41. ASSUME NEW v \in Timers, MissFails(v)
       PROVE  InUse(t)'
  BY <1>41, RecordTypes DEF MissFails, Takes, Handler, GivesUpNext
<1>42. ASSUME RecNextFails PROVE InUse(t)'
  <2>1. cur \in Timers
    BY <1>42 DEF RecNextFails, TypeOK
  <2> QED BY <1>42, <2>1, RecordTypes DEF RecNextFails, RecGoes, GivesUpNext
<1>43. ASSUME RecNoticeFails PROVE InUse(t)'
  BY <1>43, RecordTypes DEF RecNoticeFails
<1> QED
  BY <1>1, <1>2, <1>3, <1>4, <1>5, <1>6, <1>7, <1>8, <1>9, <1>10, <1>11,
     <1>12, <1>13, <1>14, <1>15, <1>16, <1>17, <1>18, <1>19, <1>20, <1>21,
     <1>22, <1>23, <1>24, <1>25, <1>26, <1>27, <1>28, <1>29, <1>30, <1>31,
     <1>32, <1>33, <1>34, <1>35, <1>36, <1>37, <1>38, <1>39, <1>40, <1>41,
     <1>42, <1>43, KindsAssumption
     DEF Next, TaskStep, Call, RecoveryStep, Fault, ReadCancel, ReadPause,
         ReadResume, ReadRename, ReadMove

-----------------------------------------------------------------------------
(* The kinds of step, as the promise sees them.                            *)

LEMMA PhaseCases ==
  ASSUME NEW r \in Rows
  PROVE  /\ r.state = "free" <=> PhaseOf(r) = "free"
         /\ r.state = "pending" <=> PhaseOf(r) = "running"
         /\ r.state = "paused" <=> PhaseOf(r) = "paused"
         /\ r.state \in Terminal <=> PhaseOf(r) = "done"
  BY DEF PhaseOf, Rows

\* A step that leaves the states of the rows and the counts alone is not seen.
LEMMA Unseen ==
  ASSUME TypeOK, TypeOK', \A t \in Timers : row'[t].state = row[t].state,
         UNCHANGED <<arms, boots, rings>>
  PROVE  UNCHANGED Promise!promise
<1>1. \A t \in Timers : PhaseOf(row[t])' = PhaseOf(row[t])
  BY DEF PhaseOf
<1>2. Phase' = Phase /\ Owed' = Owed /\ Restarted' = Restarted
  BY <1>1 DEF Phase, Owed, Restarted
<1> QED BY <1>2 DEF Promise!promise

\* A step that writes the state of one row and starts nothing pauses or
\* finishes the timer, or is not seen.
LEMMA OneRow ==
  ASSUME TypeOK, TypeOK', NEW v \in Timers,
         \A t \in Timers \ {v} : row'[t].state = row[t].state,
         UNCHANGED <<arms, boots, rings>>,
         \/ row[v].state = "pending" /\ row'[v].state = "paused"
         \/ row[v].state # "free" /\ row'[v].state \in Terminal
  PROVE  [Promise!Next]_(Promise!promise)
<1> DEFINE p == PhaseOf(row'[v])
<1>1. Owed' = Owed /\ Restarted' = Restarted
  BY DEF Owed, Restarted
<1>2. row \in [Timers -> Rows] /\ row' \in [Timers -> Rows]
  BY DEF TypeOK
<1>3. \A t \in Timers \ {v} : PhaseOf(row'[t]) = PhaseOf(row[t])
  BY DEF PhaseOf
<1>4. Phase' = [Phase EXCEPT ![v] = p]
  BY <1>3 DEF Phase
<1>5. Phase[v] = PhaseOf(row[v])
  BY DEF Phase
<1>6. CASE row[v].state = "pending" /\ row'[v].state = "paused"
  <2>1. Phase[v] = "running" /\ p = "paused"
    BY <1>2, <1>5, <1>6, PhaseCases
  <2> QED BY <1>1, <1>4, <2>1 DEF Promise!Next, Promise!Pause
<1>7. CASE row[v].state # "free" /\ row'[v].state \in Terminal
  <2>1. Phase[v] \in {"running", "paused", "done"} /\ p = "done"
    BY <1>2, <1>5, <1>7, PhaseCases DEF Rows
  <2>2. CASE Phase[v] = "done"
    <3>1. Phase' = Phase
      BY <1>3, <1>5, <2>1, <2>2 DEF Phase
    <3> QED BY <1>1, <3>1 DEF Promise!promise
  <2>3. CASE Phase[v] # "done"
    BY <1>1, <1>4, <2>1, <2>3 DEF Promise!Next, Promise!Finish
  <2> QED BY <2>2, <2>3
<1> QED BY <1>6, <1>7

\* A step that makes a row pending and counts it as armed accepts the timer or
\* starts it anew.
LEMMA Armed ==
  ASSUME TypeOK, TypeOK', NEW v \in Timers,
         \A t \in Timers \ {v} : /\ row'[t].state = row[t].state
                                 /\ arms'[t] = arms[t],
         UNCHANGED <<boots, rings>>,
         row[v].state \in {"free", "pending", "paused"},
         row'[v].state = "pending", arms'[v] = arms[v] + 1
  PROVE  Promise!Next
<1>1. row \in [Timers -> Rows] /\ row' \in [Timers -> Rows]
  BY DEF TypeOK
<1>2. Restarted' = Restarted
  BY DEF Restarted
<1>3. \A t \in Timers \ {v} : PhaseOf(row'[t]) = PhaseOf(row[t])
  BY DEF PhaseOf
<1>4. PhaseOf(row'[v]) = "running"
  BY <1>1, PhaseCases
<1>5. Phase' = [Phase EXCEPT ![v] = "running"]
  BY <1>3, <1>4 DEF Phase
<1>6. Owed' = [Owed EXCEPT ![v] = @ + 1]
  <2>1. /\ arms \in [Timers -> Nat] /\ boots \in [Timers -> Nat]
        /\ rings \in [Timers -> Nat] /\ arms' \in [Timers -> Nat]
    BY DEF TypeOK
  <2>2. \A t \in Timers \ {v} : Owed'[t] = Owed[t]
    BY DEF Owed
  <2>3. Owed'[v] = Owed[v] + 1
    BY <2>1 DEF Owed
  <2> QED BY <2>2, <2>3 DEF Owed
<1>7. Phase[v] \in {"free", "running", "paused"}
  BY <1>1, PhaseCases DEF Phase, Terminal
<1> QED BY <1>2, <1>5, <1>6, <1>7
        DEF Promise!Next, Promise!Accept, Promise!StartAnew

\* A ring that is still owed, of a timer that runs or was restarted.
LEMMA Rings ==
  ASSUME TypeOK, TypeOK', NEW v \in Timers, UNCHANGED <<row, arms, boots>>,
         rings' = [rings EXCEPT ![v] = @ + 1],
         rings[v] < arms[v] + boots[v],
         row[v].state = "pending" \/ boots[v] > 0
  PROVE  Promise!Next
<1>1. Phase' = Phase /\ Restarted' = Restarted
  BY DEF Phase, Restarted
<1>2. Owed' = [Owed EXCEPT ![v] = @ - 1] /\ Owed[v] > 0
  <2>1. /\ arms \in [Timers -> Nat] /\ boots \in [Timers -> Nat]
        /\ rings \in [Timers -> Nat]
    BY DEF TypeOK
  <2>2. \A t \in Timers : Owed'[t] = IF t = v THEN Owed[t] - 1 ELSE Owed[t]
    BY <2>1 DEF Owed
  <2>3. Owed[v] > 0
    BY <2>1 DEF Owed
  <2> QED BY <2>2, <2>3 DEF Owed
<1>3. Phase[v] = "running" \/ v \in Restarted
  BY PhaseCases DEF Phase, Restarted, TypeOK
<1> QED BY <1>1, <1>2, <1>3 DEF Promise!Next, Promise!Ring

\* The rows S were loaded, none of them free.
LEMMA Loaded ==
  ASSUME TypeOK, TypeOK', NEW S \in SUBSET Timers,
         UNCHANGED <<row, arms, rings>>,
         boots' = [t \in Timers |-> IF t \in S THEN boots[t] + 1 ELSE boots[t]],
         \A t \in S : row[t].state # "free"
  PROVE  Promise!Next
<1>1. Phase' = Phase
  BY DEF Phase
<1>2. Owed' = [t \in Timers |-> IF t \in S THEN Owed[t] + 1 ELSE Owed[t]]
  BY DEF Owed, TypeOK
<1>3. Restarted' = Restarted \cup S
  BY DEF Restarted, TypeOK
<1>4. \A t \in S : Phase[t] # "free"
  BY PhaseCases DEF Phase, TypeOK
<1> QED BY <1>1, <1>2, <1>3, <1>4 DEF Promise!Next, Promise!Restart

-----------------------------------------------------------------------------
LEMMA StepKeepsPromise ==
  ASSUME TypeOK, TypeOK', RingsInv,
         \A t \in Timers : Tracked(t) /\ InUse(t), [Next]_vars
  PROVE  [Promise!Next]_(Promise!promise)
<1> DEFINE Kept == [Promise!Next]_(Promise!promise)
<1> USE DEF rowVars, recVars, failVars, histVars, envVars, InUse
<1>0. /\ row \in [Timers -> Rows] /\ task \in [Timers -> Tasks]
      /\ due \in [Timers -> Nat] /\ arms \in [Timers -> Nat]
      /\ boots \in [Timers -> Nat] /\ rings \in [Timers -> Nat]
  BY DEF TypeOK
<1>1. ASSUME NEW v \in Timers, NEW k \in Kinds, NEW f \in 0 .. Horizon,
             Schedule(v, k, f)
      PROVE  Kept
  <2>1. /\ row[v].state = "free" /\ row'[v].state = "pending"
        /\ \A t \in Timers \ {v} : row'[t].state = row[t].state
    BY <1>0, <1>1 DEF Schedule, PendingRow
  <2>2. /\ arms'[v] = 1 /\ arms[v] = 0
        /\ \A t \in Timers \ {v} : arms'[t] = arms[t]
    BY <1>0, <1>1, <2>1 DEF Schedule, RingsInv, Accounted
  <2>3. UNCHANGED <<boots, rings>>
    BY <1>1 DEF Schedule
  <2> QED BY <2>1, <2>2, <2>3, Armed
<1>2. ASSUME NEW c \in Clients, NEW v \in Timers, NEW op, NEW accepts, NEW val,
             Read(c, op, v, accepts, val)
      PROVE  Kept
  BY <1>2, Unseen DEF Read
<1>3. ASSUME NEW c \in Clients, Cancel(c) PROVE Kept
  <2> DEFINE v == api[c].id
  <2>1. v \in Timers
    BY <1>3 DEF Cancel, TypeOK
  <2>2. UNCHANGED <<arms, boots, rings>>
    BY <1>3 DEF Cancel, Return
  <2>3. CASE row[v].state \in Live
    BY <1>0, <1>3, <2>1, <2>2, <2>3, OneRow DEF Cancel
  <2>4. CASE row[v].state \notin Live
    BY <1>3, <2>2, <2>4, Unseen DEF Cancel
  <2> QED BY <2>3, <2>4
<1>4. ASSUME NEW c \in Clients, Pause(c) PROVE Kept
  <2>1. api[c].id \in Timers
    BY <1>4 DEF Pause, TypeOK
  <2>2. UNCHANGED <<arms, boots, rings>>
    BY <1>4 DEF Pause, Return
  <2> QED BY <1>0, <1>4, <2>1, <2>2, OneRow DEF Pause
<1>5. ASSUME NEW c \in Clients, Resume(c) PROVE Kept
  <2> DEFINE v == api[c].id
  <2>1. v \in Timers
    BY <1>5 DEF Resume, TypeOK
  <2>2. /\ row[v].state = "paused" /\ row'[v].state = "pending"
        /\ \A t \in Timers \ {v} : row'[t].state = row[t].state
    BY <1>0, <1>5, <2>1 DEF Resume, PendingRow
  <2>3. /\ arms'[v] = arms[v] + 1
        /\ \A t \in Timers \ {v} : arms'[t] = arms[t]
    BY <1>0, <1>5, <2>1 DEF Resume
  <2>4. UNCHANGED <<boots, rings>>
    BY <1>5 DEF Resume, Return
  <2> QED BY <2>1, <2>2, <2>3, <2>4, Armed
<1>6. ASSUME NEW c \in Clients, Reschedule(c) PROVE Kept
  <2> DEFINE v == api[c].id
  <2>1. v \in Timers
    BY <1>6 DEF Reschedule, TypeOK
  <2>2. /\ row[v].state = "pending" /\ row'[v].state = "pending"
        /\ \A t \in Timers \ {v} : row'[t].state = row[t].state
    BY <1>0, <1>6, <2>1 DEF Reschedule, Rows
  <2>3. /\ arms'[v] = arms[v] + 1
        /\ \A t \in Timers \ {v} : arms'[t] = arms[t]
    BY <1>0, <1>6, <2>1 DEF Reschedule
  <2>4. UNCHANGED <<boots, rings>>
    BY <1>6 DEF Reschedule, Return
  <2> QED BY <2>1, <2>2, <2>3, <2>4, Armed
<1>7. ASSUME NEW c \in Clients, Refused(c) PROVE Kept
  BY <1>7, Unseen DEF Refused, Return
<1>8. ASSUME NEW v \in Timers, Wake(v) PROVE Kept
  BY <1>8, Unseen DEF Wake
<1>9. ASSUME NEW v \in Timers, Deliver(v) PROVE Kept
  <2>1. task[v].pc = "fire"
    BY <1>9 DEF Deliver
  <2>2. rings[v] < arms[v] + boots[v]
    BY <1>0, <2>1 DEF RingsInv, Accounted, Credits, Credit
  <2>3. row[v].state = "pending" \/ boots[v] > 0
    BY <1>0, <2>1 DEF Tracked
  <2> QED BY <1>9, <2>2, <2>3, Rings DEF Deliver, Rung
<1>10. ASSUME NEW v \in Timers, FireFails(v) PROVE Kept
  BY <1>10, Unseen DEF FireFails
<1>11. ASSUME NEW v \in Timers, Unreachable(v) PROVE Kept
  BY <1>11, Unseen DEF Unreachable
<1>12. ASSUME NEW t \in Timers, NEW d \in Nat, NEW tasks \in [Timers -> Tasks],
              AddOccurrence(t, d, tasks)
       PROVE  Kept
  <2>1. UNCHANGED <<boots, rings>>
    BY <1>12 DEF AddOccurrence
  <2>2. CASE UNCHANGED <<row, arms>>
    BY <2>1, <2>2, Unseen
  <2>3. ASSUME NEW u \in FreeTimers, NEW f,
               row' = [row EXCEPT ![u] = PendingRow("series", f)],
               arms' = [arms EXCEPT ![u] = 1]
        PROVE  Kept
    <3>1. /\ u \in Timers /\ row[u].state = "free"
          /\ row'[u].state = "pending"
          /\ \A v \in Timers \ {u} : row'[v].state = row[v].state
      BY <1>0, <2>3 DEF FreeTimers, PendingRow
    <3>2. /\ arms'[u] = 1 /\ arms[u] = 0
          /\ \A v \in Timers \ {u} : arms'[v] = arms[v]
      BY <1>0, <2>3, <3>1 DEF RingsInv, Accounted
    <3> QED BY <2>1, <3>1, <3>2, Armed
  <2> QED BY <1>12, <2>2, <2>3 DEF AddOccurrence
<1>13. ASSUME NEW v \in Timers, ScheduleNext(v) PROVE Kept
  <2>1. /\ [task EXCEPT ![v].pc = "mark"] \in [Timers -> Tasks]
        /\ task[v].due \in Nat
    BY <1>0, SetTask, RecordTypes
  <2> QED BY <1>12, <1>13, <2>1 DEF ScheduleNext
<1>14. ASSUME NEW v \in Timers, Mark(v) PROVE Kept
  <2>1. task[v].end \in Terminal /\ row[v].state # "free"
    BY <1>0, <1>14, RecordTypes DEF Mark
  <2>2. /\ row'[v].state \in Terminal
        /\ \A t \in Timers \ {v} : row'[t].state = row[t].state
    BY <1>0, <1>14, <2>1 DEF Mark
  <2>3. UNCHANGED <<arms, boots, rings>>
    BY <1>14 DEF Mark
  <2> QED BY <2>1, <2>2, <2>3, OneRow
<1>15. ASSUME NEW v \in Timers, SendNotice(v) PROVE Kept
  BY <1>15, Unseen DEF SendNotice
<1>16. ASSUME NEW v \in Timers, MarkFails(v) PROVE Kept
  BY <1>16, Unseen DEF MarkFails
<1>17. ASSUME NEW v \in Timers, DropLate(v) \/ Miss(v) PROVE Kept
  <2>1. v \in todo /\ row' = [row EXCEPT ![v].state = "expired"]
    BY <1>17 DEF DropLate, Miss, Takes
  <2>2. /\ row[v].state # "free" /\ row'[v].state \in Terminal
        /\ \A t \in Timers \ {v} : row'[t].state = row[t].state
    BY <1>0, <2>1
  <2>3. UNCHANGED <<arms, boots, rings>>
    BY <1>17 DEF DropLate, Miss
  <2> QED BY <2>2, <2>3, OneRow
<1>18. ASSUME NEW v \in Timers, Begin(v) PROVE Kept
  BY <1>18, Unseen DEF Begin
<1>19. ASSUME NEW S \in SUBSET Timers, NEW d, Rehydrate(S, d),
              \A t \in S : row[t].state # "free", UNCHANGED <<row, arms>>
       PROVE  Kept
  <2>1. /\ boots' = [t \in Timers |-> IF t \in S THEN boots[t] + 1 ELSE boots[t]]
        /\ UNCHANGED rings
    BY <1>19 DEF Rehydrate
  <2> QED BY <1>19, <2>1, Loaded
<1>20. ASSUME Start PROVE Kept
  <2>1. \A t \in PendingTimers : row[t].state # "free"
    BY DEF PendingTimers
  <2>2. PendingTimers \in SUBSET Timers
    BY DEF PendingTimers
  <2> QED BY <1>19, <1>20, <2>1, <2>2 DEF Start
<1>21. ASSUME StartFails PROVE Kept
  BY <1>21, Unseen DEF StartFails
<1>22. ASSUME RetryLoad PROVE Kept
  BY <1>22, Unseen DEF RetryLoad
<1>23. ASSUME RetryFails PROVE Kept
  BY <1>23, Unseen DEF RetryFails
<1>24. ASSUME RetryRehydrate PROVE Kept
  <2> DEFINE S == {t \in todo : task[t].pc = "none"}
  <2>1. S \in SUBSET Timers /\ \A t \in S : row[t].state # "free"
    BY DEF TypeOK
  <2>2. Rehydrate(S, due) /\ UNCHANGED <<row, arms>>
    BY <1>24 DEF RetryRehydrate
  <2> HIDE DEF S
  <2> QED BY <1>19, <2>1, <2>2
<1>25. ASSUME MissNext \/ RecNext PROVE Kept
  <2>1. cur \in Timers /\ due[cur] \in Nat
    BY <1>0, <1>25 DEF MissNext, RecNext, TypeOK
  <2> QED BY <1>0, <1>12, <1>25, <2>1 DEF MissNext, RecNext
<1>26. ASSUME RecDeliver PROVE Kept
  <2>1. recPc = "fire" /\ cur \in Timers
    BY <1>26 DEF RecDeliver, TypeOK
  <2>2. rings[cur] < arms[cur] + boots[cur]
    BY <1>0, <2>1 DEF RingsInv, Accounted, Credits, Credit
  <2>3. boots[cur] > 0
    BY <1>0, <2>1 DEF Tracked
  <2> QED BY <1>26, <2>1, <2>2, <2>3, Rings DEF RecDeliver, RecGoes, Rung
<1>27. ASSUME RecFails PROVE Kept
  BY <1>27, Unseen DEF RecFails, RecGoes
<1>28. ASSUME RecUnreachable PROVE Kept
  BY <1>28, Unseen DEF RecUnreachable, RecGoes
<1>29. ASSUME RecMark PROVE Kept
  <2>1. recPc = "mark" /\ cur \in Timers
    BY <1>29 DEF RecMark, TypeOK
  <2>2. /\ row[cur].state # "free" /\ row'[cur].state \in Terminal
        /\ \A t \in Timers \ {cur} : row'[t].state = row[t].state
    BY <1>0, <1>29, <2>1 DEF RecMark
  <2>3. UNCHANGED <<arms, boots, rings>>
    BY <1>29 DEF RecMark, RecGoes
  <2> QED BY <2>1, <2>2, <2>3, OneRow
<1>30. ASSUME RecMarkFails PROVE Kept
  BY <1>30, Unseen DEF RecMarkFails, RecGoes
<1>31. ASSUME RecDone PROVE Kept
  BY <1>31, Unseen DEF RecDone
<1>32. ASSUME RecNotice PROVE Kept
  BY <1>32, Unseen DEF RecNotice
<1>33. ASSUME Stop \/ HaDown \/ HaUp \/ Tick PROVE Kept
  BY <1>33, Unseen DEF Stop, HaDown, HaUp, Tick
<1>34. CASE UNCHANGED vars
  BY <1>34, Unseen DEF vars
<1>35. ASSUME NEW t \in Timers, TaskStep(t) PROVE Kept
  BY <1>8, <1>9, <1>10, <1>11, <1>13, <1>14, <1>15, <1>35 DEF TaskStep
<1>36. ASSUME NEW c \in Clients, Call(c) PROVE Kept
  BY <1>3, <1>4, <1>5, <1>6, <1>7, <1>36 DEF Call
<1>37. ASSUME RecoveryStep PROVE Kept
  BY <1>17, <1>18, <1>22, <1>24, <1>25, <1>26, <1>27, <1>28, <1>29, <1>31,
     <1>32, <1>37 DEF RecoveryStep
<1>38. ASSUME \/ RecNextFails \/ RecNoticeFails
              \/ \E v \in Timers : \/ ScheduleNextFails(v) \/ NoticeFails(v)
                                   \/ DropLateFails(v) \/ MissFails(v)
       PROVE  Kept
  <2>1. UNCHANGED <<row, arms, boots, rings>>
    BY <1>38 DEF RecNextFails, RecNoticeFails, ScheduleNextFails, NoticeFails,
       DropLateFails, MissFails, GivesUpNext
  <2> QED BY <2>1, Unseen
<1>39. ASSUME NEW t \in Timers, NEW c \in Clients,
              \/ ReadCancel(c, t) \/ ReadPause(c, t) \/ ReadResume(c, t)
              \/ ReadRename(c, t) \/ \E f \in 0 .. Horizon : ReadMove(c, t, f)
       PROVE  Kept
  BY <1>2, <1>39
     DEF ReadCancel, ReadPause, ReadResume, ReadRename, ReadMove
<1>40. ASSUME NEW t \in Timers, NEW k \in ScheduledKinds,
              NEW f \in 0 .. Horizon, Schedule(t, k, f)
       PROVE  Kept
  BY <1>1, <1>40, KindsAssumption
<1>41. ASSUME Fault PROVE Kept
  BY <1>16, <1>21, <1>23, <1>30, <1>38, <1>41 DEF Fault
<1>42. Kept
  BY <1>20, <1>33, <1>34, <1>35, <1>36, <1>37, <1>39, <1>40, <1>41 DEF Next
<1> QED BY <1>42

\* The scheduler implements its promise: over every interleaving of calls,
\* failures and restarts a timer rings only when a ring is owed, is silent when
\* paused or finished (until a restart), and finishes for good.
THEOREM SchedulerKeepsPromise == Spec => KeepsPromise
<1> DEFINE Inv == /\ RingsInv
                  /\ \A t \in Timers : Tracked(t) /\ InUse(t)
<1>1. Init => Inv /\ Promise!Init
  <2> SUFFICES ASSUME Init PROVE Inv /\ Promise!Init
    OBVIOUS
  <2>1. RingsInv
    BY DEF Init, RingsInv, RecoveryRuns, Accounted, Credits, Credit, NoTask
  <2>2. \A t \in Timers : Tracked(t) /\ InUse(t)
    BY DEF Init, Tracked, InUse, NoTask
  <2>3. Promise!Init
    BY DEF Init, Promise!Init, Phase, PhaseOf, Owed, Restarted, FreeRow
  <2> QED BY <2>1, <2>2, <2>3
<1>2. TypeOK /\ Inv /\ [Next]_vars => Inv'
  <2> SUFFICES ASSUME TypeOK, Inv, [Next]_vars PROVE Inv'
    OBVIOUS
  <2>1. RingsInv'
    BY RingsInvInductive, RecoveryRunsInductive DEF RingsInv
  <2>2. ASSUME NEW t \in Timers PROVE Tracked(t)' /\ InUse(t)'
    BY TrackedInductive, InUseInductive DEF RingsInv
  <2> QED BY <2>1, <2>2
<1>3. TypeOK /\ TypeOK' /\ Inv /\ [Next]_vars
        => [Promise!Next]_(Promise!promise)
  BY StepKeepsPromise
<1> QED BY <1>1, <1>2, <1>3, TypeCorrect, PTL
        DEF Spec, KeepsPromise, Promise!Spec
=============================================================================
