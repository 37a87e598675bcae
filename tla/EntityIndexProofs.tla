-------------------------- MODULE EntityIndexProofs --------------------------
(***************************************************************************)
(* Proofs about EntityIndex, for any number of events, losses of the       *)
(* connection and failures, and for syncs that overlap.                    *)
(***************************************************************************)
EXTENDS EntityIndex, SequenceTheorems, TLAPS

\* A handler of a registry event and a resync hold the lock at its head.
LockHeld ==
  /\ handler.pc # "idle" => tasks # <<>> /\ Head(tasks) = "event"
  /\ Running("reconnect") => tasks # <<>> /\ Head(tasks) = "resync"

\* Nothing is newer than Home Assistant.
Stamps ==
  /\ primary.at <= ver /\ queue.at <= ver /\ flush.entry.at <= ver
  /\ recv.at <= ver /\ handler.at <= ver
  /\ \A i \in 1 .. Len(wire) : wire[i].at <= ver
  /\ \A s \in Syncs : job[s].at <= ver

Rests == {"idle", "wait", "lock", "done"}

\* A sync that has read the states knows more than the index as of `at`, or
\* the index was mutated or another snapshot installed since it began.
Fresh(j, at) ==
  j.pc \notin Rests \cup {"states"} => j.touched \/ j.passed \/ at <= j.at

IInv ==
  /\ TypeOK /\ LockHeld /\ Stamps
  /\ \A s \in Syncs : Fresh(job[s], primary.at)

-----------------------------------------------------------------------------
(* Entries, events and jobs                                                *)

LEMMA Bounds == MaxEvents \in Nat
  BY EventBounds DEF EventBounds

LEMMA EntryTypes ==
  /\ Absent \in Names /\ NoEntry \in Entries /\ NoEntry.at = 0
  /\ NoReg \in Regs /\ Gone \in Numbers /\ \A t \in Times : t \in Nat
  /\ \A st, own \in Numbers : NameOf(st, own) \in Names
  /\ \A n \in Names, at \in Times : /\ Entry(n, at) \in Entries
                                    /\ Entry(n, at).at = at
  /\ \A e \in Entries : e.name \in Names /\ e.at \in Times
  /\ \A r \in Regs : r.own \in Numbers /\ r.hid \in BOOLEAN
<1>1. /\ 0 \in Numbers /\ 0 \in Times /\ \A t \in Times : t \in Nat
  BY Bounds DEF Numbers, Times
<1>2. \A st \in Numbers, b \in BOOLEAN : <<st, b>> \in Names
  BY DEF Names, Numbers
<1>3. \A n \in Names, at \in Times : /\ Entry(n, at) \in Entries
                                     /\ Entry(n, at).at = at
  BY DEF Entry, Entries, Times
<1>4. Absent \in Names /\ NoEntry \in Entries /\ NoEntry.at = 0
  BY <1>1, <1>2, <1>3 DEF Absent, NoEntry
<1>5. \A st, own \in Numbers : NameOf(st, own) \in Names
  BY <1>2 DEF NameOf
<1>6. \A e \in Entries : e.name \in Names /\ e.at \in Times
  BY DEF Entries, Times
<1>7. /\ NoReg \in Regs /\ Gone \in Numbers
      /\ \A r \in Regs : r.own \in Numbers /\ r.hid \in BOOLEAN
  BY <1>1 DEF NoReg, Regs, Gone, Numbers
<1> QED BY <1>1, <1>3, <1>4, <1>5, <1>6, <1>7

LEMMA BuiltType ==
  ASSUME NEW st \in Numbers, NEW reg \in Regs
  PROVE  Built(st, reg) \in Names
  BY EntryTypes DEF Built

LEMMA JobTypes ==
  /\ IdleJob \in Job
  /\ \A pc \in JobPcs, reg \in Regs :
       [IdleJob EXCEPT !.pc = pc, !.reg = reg] \in Job
  /\ \A pc \in JobPcs : LET k == [IdleJob EXCEPT !.pc = pc]
                        IN  k \in Job /\ k.pc = pc /\ k.at = 0
  /\ IdleJob.pc = "idle" /\ IdleJob.at = 0
  /\ \A s \in Syncs :
       AfterSync(s) \in Job /\ AfterSync(s).pc \in {"idle", "done"}
  BY Bounds, EntryTypes
     DEF IdleJob, Job, JobPcs, Times, AfterSync, Numbers

\* What the syncs set of a job.
LEMMA JobMoves ==
  ASSUME NEW j \in Job
  PROVE  /\ j.st \in Numbers /\ j.at \in Times /\ j.reg \in Regs
         /\ j.touched \in BOOLEAN /\ j.passed \in BOOLEAN /\ j.was \in Names
         /\ \A b \in BOOLEAN : /\ [j EXCEPT !.touched = b] \in Job
                               /\ [j EXCEPT !.passed = b] \in Job
         /\ \A pc \in JobPcs : [j EXCEPT !.pc = pc] \in Job
         /\ \A pc \in JobPcs, reg \in Regs :
              [j EXCEPT !.pc = pc, !.reg = reg] \in Job
         /\ \A pc \in JobPcs, st \in Numbers, at \in Times :
              [j EXCEPT !.st = st, !.at = at, !.pc = pc] \in Job
         /\ \A pc \in JobPcs, w \in Names, b \in BOOLEAN :
              [j EXCEPT !.pc = pc, !.was = w, !.skip = b] \in Job
         /\ \A pc \in JobPcs, w \in Names, a, b \in BOOLEAN :
              [j EXCEPT !.pc = pc, !.was = w, !.skip = a, !.build = b] \in Job
         /\ \A pc \in JobPcs, b \in BOOLEAN :
              [j EXCEPT !.pc = pc, !.build = b] \in Job
  BY DEF Job

-----------------------------------------------------------------------------
(* What a step does to the index and to the jobs                           *)

\* Where a job may go without looking at anything.
Moved(j, k) ==
  /\ k.at = j.at /\ k.touched = j.touched /\ k.passed = j.passed
  /\ j.pc = "states" => k.pc \in Rests \cup {"states"}
  /\ j.pc \in Rests => k.pc \in Rests \cup {"states"}

\* A job begins, ends, or reads the states.
Begun(k) == k.pc = "states" /\ k.at = 0
Over(k) == k.pc \in Rests /\ k.at = 0
Informed(k) == k.at = ver

\* A job is told that the index was mutated or that a snapshot was installed.
Told(j, k) ==
  /\ k.pc = j.pc /\ k.at = j.at
  /\ k.touched \/ k.passed \/ j.pc \in Rests

JobsMove ==
  \/ /\ primary'.at <= primary.at
     /\ \A s \in Syncs :
          \/ Moved(job[s], job'[s]) \/ Begun(job'[s]) \/ Over(job'[s])
          \/ Informed(job'[s])
  \/ \A s \in Syncs : Over(job'[s]) \/ Told(job[s], job'[s])

Good == TypeOK' /\ LockHeld' /\ Stamps' /\ JobsMove

LEMMA FreshKept ==
  ASSUME IInv, Good
  PROVE  \A s \in Syncs : Fresh(job'[s], primary'.at)
<1> SUFFICES ASSUME NEW s \in Syncs
             PROVE  Fresh(job'[s], primary'.at)
  OBVIOUS
<1>1. /\ job[s] \in Job /\ primary \in Entries /\ ver \in Nat
      /\ job'[s] \in Job /\ primary' \in Entries
  BY Bounds DEF IInv, Good, TypeOK, HaTypes, TaskTypes, IndexTypes, Times
<1>2. /\ primary.at \in Nat /\ primary'.at \in Nat /\ job[s].at \in Nat
      /\ job'[s].at \in Nat
  BY <1>1, JobMoves, EntryTypes
<1>3. Fresh(job[s], primary.at) /\ primary.at <= ver
  BY DEF IInv, Stamps
<1>4. ASSUME primary'.at <= primary.at, Moved(job[s], job'[s])
      PROVE  Fresh(job'[s], primary'.at)
  BY <1>2, <1>3, <1>4 DEF Fresh, Moved, Rests
<1>5. ASSUME primary'.at <= primary.at, Informed(job'[s])
      PROVE  Fresh(job'[s], primary'.at)
  BY <1>1, <1>2, <1>3, <1>5 DEF Fresh, Informed
<1>6. ASSUME Begun(job'[s]) \/ Over(job'[s]) \/ Told(job[s], job'[s])
      PROVE  Fresh(job'[s], primary'.at)
  BY <1>6 DEF Fresh, Begun, Over, Told, Rests
<1> QED BY <1>4, <1>5, <1>6 DEF Good, JobsMove

\* A step that leaves the index and the jobs alone.
LEMMA JobsStay ==
  ASSUME IInv, UNCHANGED <<primary, job>>
  PROVE  JobsMove
<1>1. primary.at \in Nat
  BY Bounds, EntryTypes DEF IInv, TypeOK, IndexTypes, Times
<1> QED BY <1>1 DEF JobsMove, Moved, Rests

\* A step in which one job moves and the index stays.
LEMMA OneMoves ==
  ASSUME IInv, UNCHANGED primary, NEW s \in Syncs, NEW k,
         job' = [job EXCEPT ![s] = k],
         Moved(job[s], k) \/ Begun(k) \/ Over(k) \/ Informed(k)
  PROVE  JobsMove
<1>1. primary.at \in Nat
  BY Bounds, EntryTypes DEF IInv, TypeOK, IndexTypes, Times
<1>2. job \in [Syncs -> Job]
  BY DEF IInv, TypeOK, TaskTypes
<1> QED BY <1>1, <1>2 DEF JobsMove, Moved, Rests

-----------------------------------------------------------------------------
(* Home Assistant and the connection                                       *)

LEMMA EventTypes ==
  ASSUME TypeOK, ver' \in Times
  PROVE  /\ \A new \in Numbers, old \in BOOLEAN :
              StateEvent(new, old) \in Events
         /\ \A kind \in {"event", "create"} : RegEvent(kind) \in Events
         /\ \A new, old : StateEvent(new, old).at = ver'
         /\ \A kind : RegEvent(kind).at = ver'
  BY EntryTypes DEF StateEvent, RegEvent, Events

\* What Home Assistant emits.
LEMMA Emitted ==
  ASSUME IInv, NEW events \in Seq(Events), Emit(events),
         ha' \in [live : BOOLEAN, hidden : BOOLEAN, own : Numbers \ {0},
                  st : Numbers \ {0}],
         ver' \in Times, ver <= ver',
         \A i \in 1 .. Len(events) : events[i].at <= ver'
  PROVE  Good
<1>1. ver \in Nat /\ ver' \in Nat /\ wire \in Seq(Events)
  BY Bounds DEF IInv, TypeOK, HaTypes, Times
<1>2. wire' \in Seq(Events)
  BY <1>1 DEF Emit
<1>3. TypeOK'
  BY <1>2 DEF IInv, TypeOK, HaTypes, AppTypes, IndexTypes, TaskTypes, Emit,
     regVars, appVars, idxVars, pushVars, lockVars
<1>4. \A i \in 1 .. Len(wire) : wire[i].at <= ver'
  <2>1. ASSUME NEW i \in 1 .. Len(wire)
        PROVE  wire[i].at <= ver'
    <3>1. wire[i] \in Events /\ wire[i].at <= ver
      BY <1>1, <2>1 DEF IInv, Stamps
    <3>2. wire[i].at \in Nat
      BY <3>1, Bounds DEF Events, Times
    <3> QED BY <1>1, <3>1, <3>2
  <2> QED BY <2>1
<1>5. \A i \in 1 .. Len(wire') : wire'[i].at <= ver'
  BY <1>1, <1>4 DEF Emit
<1>6. /\ primary.at \in Nat /\ queue.at \in Nat /\ flush.entry.at \in Nat
      /\ recv.at \in Nat /\ handler.at \in Nat
      /\ \A s \in Syncs : job[s].at \in Nat
  <2>1. /\ primary \in Entries /\ queue \in Entries /\ flush.entry \in Entries
        /\ recv.at \in Times /\ handler.at \in Times
        /\ \A s \in Syncs : job[s] \in Job
    BY DEF IInv, TypeOK, IndexTypes, TaskTypes
  <2> QED BY <2>1, EntryTypes, JobMoves
<1>7. Stamps'
  BY <1>1, <1>5, <1>6 DEF IInv, Stamps, Emit, idxVars, pushVars, lockVars
<1>8. LockHeld' /\ JobsMove
  BY JobsStay DEF IInv, LockHeld, Running, Emit, lockVars, idxVars
<1> QED BY <1>3, <1>7, <1>8 DEF Good

LEMMA Changed ==
  ASSUME IInv,
         Rename \/ WriteState \/ Visibility \/ Remove \/ Create \/ Push
  PROVE  Good
<1> DEFINE World == [live : BOOLEAN, hidden : BOOLEAN, own : Numbers \ {0},
                     st : Numbers \ {0}]
<1>1. ha \in World /\ ver \in Times /\ ver \in Nat /\ ver <= ver
  BY Bounds DEF IInv, TypeOK, HaTypes, Times
<1>2. ASSUME Change
      PROVE  /\ ver' \in Times /\ ver <= ver' /\ ver' \in Nat
             /\ ver' + 1 \in Numbers \ {0}
  BY <1>1, <1>2, Bounds DEF Change, Times, Numbers
<1>3. TypeOK
  BY DEF IInv
<1>4. \A e \in Events : <<e>> \in Seq(Events) /\ Len(<<e>>) = 1 /\ <<e>>[1] = e
  OBVIOUS
<1>5. \A e, f \in Events : /\ <<e, f>> \in Seq(Events) /\ Len(<<e, f>>) = 2
                           /\ <<e, f>>[1] = e /\ <<e, f>>[2] = f
  OBVIOUS
<1>6. CASE Rename
  <2>1. ver' \in Times /\ ver <= ver' /\ ver' \in Nat /\ ha' \in World
    BY <1>1, <1>2, <1>6 DEF Rename
  <2>2. PICK e : e = RegEvent("event")
    OBVIOUS
  <2>3. e \in Events /\ e.at = ver'
    BY <1>2, <1>3, <2>1, <2>2, EntryTypes, EventTypes
  <2>4. Emit(<<e>>)
    BY <1>6, <2>2 DEF Rename, Emit
  <2>5. /\ <<e>> \in Seq(Events)
        /\ \A i \in 1 .. Len(<<e>>) : <<e>>[i].at <= ver'
    BY <1>4, <2>1, <2>3, EntryTypes
  <2> QED BY <2>1, <2>4, <2>5, Emitted
<1>7. CASE WriteState
  <2>1. ver' \in Times /\ ver <= ver' /\ ha' \in World /\ ha.own \in Numbers
    BY <1>1, <1>7 DEF WriteState
  <2>2. PICK e : e = StateEvent(ha.own, TRUE)
    OBVIOUS
  <2>3. e \in Events /\ e.at = ver'
    BY <1>2, <1>3, <2>1, <2>2, EntryTypes, EventTypes
  <2>4. Emit(<<e>>)
    BY <1>7, <2>2 DEF WriteState, Emit
  <2>5. /\ <<e>> \in Seq(Events)
        /\ \A i \in 1 .. Len(<<e>>) : <<e>>[i].at <= ver'
    BY <1>4, <2>1, <2>3, EntryTypes
  <2> QED BY <2>1, <2>4, <2>5, Emitted
<1>8. CASE Visibility
  <2>1. ver' \in Times /\ ver <= ver' /\ ver' \in Nat /\ ha' \in World
    BY <1>1, <1>2, <1>8 DEF Visibility
  <2>2. PICK e : e = RegEvent("event")
    OBVIOUS
  <2>3. e \in Events /\ e.at = ver'
    BY <1>2, <1>3, <2>1, <2>2, EntryTypes, EventTypes
  <2>4. Emit(<<e>>)
    BY <1>8, <2>2 DEF Visibility, Emit
  <2>5. /\ <<e>> \in Seq(Events)
        /\ \A i \in 1 .. Len(<<e>>) : <<e>>[i].at <= ver'
    BY <1>4, <2>1, <2>3, EntryTypes
  <2> QED BY <2>1, <2>4, <2>5, Emitted
<1>9. CASE Remove
  <2>1. ver' \in Times /\ ver <= ver' /\ ver' \in Nat /\ ha' \in World
    BY <1>1, <1>2, <1>9 DEF Remove
  <2>2. PICK e, f : e = RegEvent("event") /\ f = StateEvent(Gone, TRUE)
    OBVIOUS
  <2>3. e \in Events /\ e.at = ver' /\ f \in Events /\ f.at = ver'
    BY <1>2, <1>3, <1>9, <2>1, <2>2, EntryTypes, EventTypes DEF Remove
  <2>4. Emit(<<e, f>>)
    BY <1>9, <2>2 DEF Remove, Emit
  <2>5. /\ <<e, f>> \in Seq(Events)
        /\ \A i \in 1 .. Len(<<e, f>>) : <<e, f>>[i].at <= ver'
    BY <1>5, <2>1, <2>3, EntryTypes
  <2> QED BY <2>1, <2>4, <2>5, Emitted
<1>10. CASE Create
  <2>1. ver' \in Times /\ ver <= ver' /\ ver' \in Nat /\ ha' \in World
    BY <1>1, <1>2, <1>10 DEF Create
  <2>2. PICK e, f : e = RegEvent("create") /\ f = StateEvent(ver' + 1, FALSE)
    OBVIOUS
  <2>3. e \in Events /\ e.at = ver' /\ f \in Events /\ f.at = ver'
    BY <1>2, <1>3, <1>10, <2>1, <2>2, EntryTypes, EventTypes DEF Create
  <2>4. Emit(<<e, f>>)
    BY <1>10, <2>2 DEF Create, Emit
  <2>5. /\ <<e, f>> \in Seq(Events)
        /\ \A i \in 1 .. Len(<<e, f>>) : <<e, f>>[i].at <= ver'
    BY <1>5, <2>1, <2>3, EntryTypes
  <2> QED BY <2>1, <2>4, <2>5, Emitted
<1>11. CASE Push
  <2>1. ver' \in Times /\ ver <= ver' /\ ha' \in World /\ ha.st \in Numbers
    BY <1>1, <1>2, <1>11 DEF Push
  <2>2. PICK e : e = StateEvent(ha.st, TRUE)
    OBVIOUS
  <2>3. e \in Events /\ e.at = ver'
    BY <1>2, <1>3, <2>1, <2>2, EntryTypes, EventTypes
  <2>4. Emit(<<e>>)
    BY <1>11, <2>2 DEF Push, Emit
  <2>5. /\ <<e>> \in Seq(Events)
        /\ \A i \in 1 .. Len(<<e>>) : <<e>>[i].at <= ver'
    BY <1>4, <2>1, <2>3, EntryTypes
  <2> QED BY <2>1, <2>4, <2>5, Emitted
<1> QED BY <1>6, <1>7, <1>8, <1>9, <1>10, <1>11

-----------------------------------------------------------------------------
(* What the other steps have in common                                     *)

LEMMA Facts ==
  ASSUME IInv
  PROVE  /\ ver \in Times /\ ver \in Nat /\ wire \in Seq(Events)
         /\ ha.own \in Numbers /\ ha.st \in Numbers /\ ha.hidden \in BOOLEAN
         /\ Truth \in Regs /\ cached \in Regs /\ last \in Regs
         /\ Fetched \in Regs
         /\ primary \in Entries /\ stored \in Names /\ names \in Numbers
         /\ queue \in Entries /\ flush.entry \in Entries
         /\ recv.at \in Times /\ handler.at \in Times
         /\ handler.st \in Numbers /\ handler.reg \in Regs
         /\ job \in [Syncs -> Job]
         /\ tasks \in Seq({"event", "create", "resync"})
         /\ bound.faults \in Nat /\ bound.drops \in Nat
<1>1. ver \in Nat
  BY Bounds DEF IInv, TypeOK, HaTypes, Times
<1>2. /\ ha.own \in Numbers /\ ha.st \in Numbers /\ ha.hidden \in BOOLEAN
      /\ Truth \in Regs
  BY DEF IInv, TypeOK, HaTypes, Truth, Regs, Numbers
<1>3. cached \in Regs /\ last \in Regs /\ Fetched \in Regs
  BY <1>2 DEF IInv, TypeOK, AppTypes, Fetched
<1>4. bound.faults \in Nat /\ bound.drops \in Nat
  BY EventBounds DEF IInv, TypeOK, HaTypes, EventBounds
<1> QED BY <1>1, <1>2, <1>3, <1>4
        DEF IInv, TypeOK, HaTypes, AppTypes, IndexTypes, TaskTypes

LEMMA TaskQueue ==
  ASSUME tasks \in Seq({"event", "create", "resync"})
  PROVE  /\ tasks # <<>> =>
              Tail(tasks) \in Seq({"event", "create", "resync"})
         /\ \A x \in {"event", "create", "resync"} :
              /\ Append(tasks, x) \in Seq({"event", "create", "resync"})
              /\ tasks # <<>> => /\ Append(tasks, x) # <<>>
                                 /\ Head(Append(tasks, x)) = Head(tasks)
  OBVIOUS

\* A step of one job that leaves the index and the lock alone.
LEMMA OneJob ==
  ASSUME IInv, UNCHANGED <<primary, tasks, handler>>, NEW s \in Syncs,
         NEW k \in Job, job' = [job EXCEPT ![s] = k],
         Moved(job[s], k) \/ Begun(k) \/ Over(k) \/ Informed(k),
         s = "reconnect" /\ k.pc \notin Rests =>
           \/ job[s].pc \notin Rests
           \/ tasks # <<>> /\ Head(tasks) = "resync"
  PROVE  /\ job' \in [Syncs -> Job] /\ JobsMove /\ LockHeld'
         /\ \A t \in Syncs : job'[t].at <= ver
<1>1. job \in [Syncs -> Job] /\ ver \in Nat
  BY Facts
<1>2. JobsMove
  BY OneMoves
<1>3. k.at <= ver
  BY <1>1 DEF IInv, Stamps, Moved, Begun, Over, Informed
<1>4. \A t \in Syncs : job'[t].at <= ver
  BY <1>1, <1>3 DEF IInv, Stamps
<1>5. LockHeld'
  BY <1>1 DEF IInv, LockHeld, Running, Rests, Syncs
<1> QED BY <1>1, <1>2, <1>4, <1>5

\* The index is mutated.
LEMMA Mutates ==
  ASSUME IInv, NEW name \in Names, NEW at \in Times, Mutate(name, at),
         at <= ver
  PROVE  /\ job' \in [Syncs -> Job] /\ primary' \in Entries
         /\ primary'.at <= ver /\ JobsMove
         /\ \A s \in Syncs : job'[s].at <= ver /\ job'[s].pc = job[s].pc
<1>1. job \in [Syncs -> Job] /\ \A s \in Syncs : job[s].at <= ver
  BY Facts DEF IInv, Stamps
<1>2. primary' \in Entries /\ primary'.at <= ver
  BY EntryTypes DEF Mutate
<1>3. ASSUME NEW s \in Syncs
      PROVE  /\ job'[s] \in Job /\ job'[s].at = job[s].at
             /\ job'[s].pc = job[s].pc /\ job'[s].touched = Running(s)
  <2>1. job'[s] = [job[s] EXCEPT !.touched = Running(s)]
    BY DEF Mutate
  <2>2. job[s] \in Job /\ Running(s) \in BOOLEAN
    BY <1>1 DEF Running
  <2> QED BY <2>1, <2>2 DEF Job
<1>4. job' \in [Syncs -> Job]
  BY <1>3 DEF Mutate
<1>5. JobsMove
  BY <1>3 DEF JobsMove, Told, Running, Rests
<1> QED BY <1>1, <1>2, <1>3, <1>4, <1>5

-----------------------------------------------------------------------------
(* The connection and the events                                           *)

LEMMA ConnectionGood ==
  ASSUME IInv, Drop \/ Connect \/ Expire
  PROVE  Good
<1>1. UNCHANGED <<ver, primary, queue, flush, recv, handler, job, tasks>>
  BY DEF Drop, Connect, Expire, haVars, idxVars, pushVars, lockVars
<1>2. LockHeld' /\ JobsMove
  BY <1>1, JobsStay DEF IInv, LockHeld, Running
<1>3. wire' = wire \/ wire' = <<>>
  BY DEF Drop, Connect, Expire, haVars
<1>4. Stamps'
  BY <1>1, <1>3 DEF IInv, Stamps
<1>5. drops' \in 0 .. bound.drops
  BY Facts DEF IInv, TypeOK, HaTypes, Drop, Connect, Expire, haVars
<1>6. TypeOK'
  <2>1. wire' \in Seq(Events)
    <3>1. <<>> \in Seq(Events)
      OBVIOUS
    <3>2. wire \in Seq(Events)
      BY Facts
    <3> QED BY <1>3, <3>1, <3>2
  <2>2. cached' \in Regs /\ net' \in BOOLEAN
    BY Facts, EntryTypes
       DEF Drop, Connect, Expire, haVars, regVars, IInv, TypeOK, HaTypes
  <2>3. UNCHANGED <<ha, bound, faults, last, known, names, loaded, degraded,
                    stored>>
    BY DEF Drop, Connect, Expire, haVars, regVars, appVars, idxVars
  <2> QED BY <1>1, <1>5, <2>1, <2>2, <2>3
     DEF IInv, TypeOK, HaTypes, AppTypes, IndexTypes, TaskTypes
<1> QED BY <1>2, <1>4, <1>6 DEF Good

LEMMA ReconnectGood ==
  ASSUME IInv, Reconnect
  PROVE  Good
<1>1. UNCHANGED <<ver, wire, primary, queue, flush, recv, handler>>
  BY DEF Reconnect, idxVars, pushVars
<1>2. /\ job' \in [Syncs -> Job] /\ JobsMove
      /\ \A s \in Syncs : job'[s].at <= ver /\ (Running(s)' <=> Running(s))
  <2>1. CASE job["reconnect"].pc = "idle"
    <3>1. PICK k : k = [job["reconnect"] EXCEPT !.pc = "lock"]
      OBVIOUS
    <3>2. job["reconnect"] \in Job
      BY Facts DEF Syncs
    <3>3. k \in Job /\ Moved(job["reconnect"], k) /\ k.pc = "lock"
      BY <2>1, <3>1, <3>2 DEF Job, JobPcs, Moved, Rests
    <3>4. job' = [job EXCEPT !["reconnect"] = k]
      BY <2>1, <3>1 DEF Reconnect
    <3>5. JobsMove
      BY <1>1, <3>3, <3>4, OneMoves DEF Syncs
    <3>6. \A s \in Syncs : job'[s].at <= ver
      BY <3>3, <3>4, Facts DEF IInv, Stamps, Moved
    <3>7. \A s \in Syncs : Running(s)' <=> Running(s)
      BY <2>1, <3>3, <3>4, Facts DEF Running
    <3> QED BY <3>3, <3>4, <3>5, <3>6, <3>7, Facts
  <2>2. CASE job["reconnect"].pc # "idle"
    BY <1>1, <2>2, JobsStay, Facts DEF IInv, Stamps, Reconnect, Running
  <2> QED BY <2>1, <2>2
<1>3. /\ tasks' \in Seq({"event", "create", "resync"})
      /\ tasks # <<>> => tasks' # <<>> /\ Head(tasks') = Head(tasks)
      /\ cached' \in Regs
  BY Facts, TaskQueue, EntryTypes DEF Reconnect
<1>4. LockHeld'
  BY <1>1, <1>2, <1>3 DEF IInv, LockHeld, Syncs
<1>5. Stamps'
  BY <1>1, <1>2 DEF IInv, Stamps
<1>6. TypeOK'
  BY <1>1, <1>2, <1>3
     DEF IInv, TypeOK, HaTypes, AppTypes, IndexTypes, TaskTypes, Reconnect,
         appVars, idxVars, pushVars
<1> QED BY <1>2, <1>4, <1>5, <1>6 DEF Good

LEMMA ReceiveGood ==
  ASSUME IInv, Receive
  PROVE  Good
<1>1. PICK e : e = Head(wire)
  OBVIOUS
<1>2. /\ e \in Events /\ e.at <= ver /\ Tail(wire) \in Seq(Events)
      /\ \A i \in 1 .. Len(Tail(wire)) : Tail(wire)[i].at <= ver
  <2>1. wire \in Seq(Events) /\ wire # <<>> /\ e = wire[1]
    BY <1>1, Facts DEF Receive
  <2>2. \A i \in 1 .. Len(Tail(wire)) :
          i + 1 \in 1 .. Len(wire) /\ Tail(wire)[i] = wire[i + 1]
    BY <2>1
  <2> QED BY <2>1, <2>2 DEF IInv, Stamps
<1>3. /\ e.new \in Numbers /\ e.at \in Times
      /\ e.kind # "state" => e.kind \in {"event", "create"}
  BY <1>2 DEF Events
<1>4. /\ UNCHANGED <<ha, ver, net, drops, bound, faults, cached, last, known,
                     names, loaded, degraded, primary, flush, handler, job>>
      /\ wire' = Tail(wire)
  BY DEF Receive, ReceiveState, ReceiveRegistry, regVars, appVars, idxVars,
     pushVars, lockVars
<1>5. CASE e.kind = "state"
  <2>1. ReceiveState(e)
    BY <1>1, <1>5 DEF Receive
  <2>2. queue' \in Entries /\ queue'.at <= ver
    <3>1. PICK q : q = Entry(NameOf(e.new, names), e.at)
      OBVIOUS
    <3>2. q \in Entries /\ q.at = e.at
      BY <1>3, <3>1, Facts, EntryTypes
    <3>3. queue' \in {q, queue}
      BY <2>1, <3>1 DEF ReceiveState
    <3> QED BY <1>2, <3>2, <3>3, Facts DEF IInv, Stamps
  <2>3. /\ stored' \in Names /\ recv' \in [pc : {"idle", "pop"}, at : Times]
        /\ recv'.at <= ver /\ tasks' = tasks
    <3>1. stored' \in {Absent, stored} /\ tasks' = tasks
      BY <2>1 DEF ReceiveState, lockVars
    <3>2. recv' = [pc |-> "pop", at |-> e.at] \/ recv' = recv
      BY <2>1 DEF ReceiveState
    <3>3. stored \in Names /\ Absent \in Names
          /\ recv \in [pc : {"idle", "pop"}, at : Times] /\ recv.at <= ver
      BY EntryTypes DEF IInv, TypeOK, IndexTypes, TaskTypes, Stamps
    <3> QED BY <1>2, <1>3, <3>1, <3>2, <3>3
  <2>4. LockHeld' /\ JobsMove
    BY <1>4, <2>3, JobsStay DEF IInv, LockHeld, Running
  <2>5. Stamps'
    BY <1>2, <1>4, <2>2, <2>3 DEF IInv, Stamps
  <2>6. TypeOK'
    BY <1>2, <1>4, <2>2, <2>3
       DEF IInv, TypeOK, HaTypes, AppTypes, IndexTypes, TaskTypes
  <2> QED BY <2>4, <2>5, <2>6 DEF Good
<1>6. CASE e.kind # "state"
  <2>1. ReceiveRegistry(e)
    BY <1>1, <1>6 DEF Receive
  <2>2. UNCHANGED <<stored, queue, recv>>
    BY <2>1 DEF ReceiveRegistry, idxVars, pushVars
  <2>3. /\ tasks' \in Seq({"event", "create", "resync"})
        /\ tasks # <<>> => tasks' # <<>> /\ Head(tasks') = Head(tasks)
    BY <1>3, <1>6, <2>1, Facts, TaskQueue DEF ReceiveRegistry
  <2>4. LockHeld' /\ JobsMove
    BY <1>4, <2>3, JobsStay DEF IInv, LockHeld, Running
  <2>5. Stamps'
    BY <1>2, <1>4, <2>2 DEF IInv, Stamps
  <2>6. TypeOK'
    BY <1>2, <1>4, <2>2, <2>3
       DEF IInv, TypeOK, HaTypes, AppTypes, IndexTypes, TaskTypes
  <2> QED BY <2>4, <2>5, <2>6 DEF Good
<1> QED BY <1>5, <1>6

LEMMA RemovedGood ==
  ASSUME IInv, Removed
  PROVE  Good
<1>1. Mutate(Absent, recv.at)
  BY DEF Removed
<1>2. PICK at : at = recv.at
  OBVIOUS
<1>3. Mutate(Absent, at) /\ at \in Times /\ at <= ver
  BY <1>1, <1>2, Facts DEF Mutate, IInv, Stamps
<1>4. /\ job' \in [Syncs -> Job] /\ primary' \in Entries
      /\ primary'.at <= ver /\ JobsMove
      /\ \A s \in Syncs : job'[s].at <= ver /\ job'[s].pc = job[s].pc
  BY <1>3, Mutates, EntryTypes
<1>5. /\ recv' = IdleRecv
      /\ recv' \in [pc : {"idle", "pop"}, at : Times] /\ recv'.at = 0
  BY Bounds DEF Removed, IdleRecv, Times
<1>6. UNCHANGED <<ha, ver, net, wire, drops, bound, faults, cached, last,
                  known, names, loaded, degraded, stored, queue, flush, tasks,
                  handler>>
  BY DEF Removed, haVars, regVars, appVars, lockVars
<1>7. LockHeld'
  BY <1>4, <1>6 DEF IInv, LockHeld, Running, Syncs
<1>8. Stamps'
  BY <1>4, <1>5, <1>6, Facts DEF IInv, Stamps
<1>9. TypeOK'
  BY <1>4, <1>5, <1>6
     DEF IInv, TypeOK, HaTypes, AppTypes, IndexTypes, TaskTypes
<1> QED BY <1>4, <1>7, <1>8, <1>9 DEF Good

LEMMA FlushGood ==
  ASSUME IInv, Flusher
  PROVE  Good
<1> DEFINE Flush == [pc : {"idle", "store", "primary"}, entry : Entries]
<1>1. /\ UNCHANGED <<ha, ver, net, wire, drops, bound, faults, cached, last,
                     known, names, loaded, degraded, recv, tasks, handler>>
      /\ flush \in Flush
  BY DEF Flusher, FlushTake, FlushStore, FlushPrimary, haVars, regVars,
     appVars, idxVars, pushVars, lockVars, IInv, TypeOK, TaskTypes
<1>2. ASSUME FlushTake \/ FlushStore
      PROVE  Good
  <2>1. UNCHANGED <<primary, job>>
    BY <1>2 DEF FlushTake, FlushStore, idxVars
  <2>2. /\ flush' \in Flush /\ flush'.entry.at <= ver
        /\ queue' \in Entries /\ queue'.at <= ver /\ stored' \in Names
    <3>1. CASE FlushTake
      <4>1. /\ flush' = [IdleFlush EXCEPT !.pc = "store", !.entry = queue]
            /\ queue' = NoEntry /\ stored' = stored
        BY <3>1 DEF FlushTake, idxVars
      <4>2. flush' \in Flush /\ flush'.entry = queue
        BY <4>1, Facts DEF IdleFlush
      <4> QED BY <4>1, <4>2, Facts, EntryTypes DEF IInv, Stamps
    <3>2. CASE FlushStore
      <4>1. /\ flush' = [flush EXCEPT !.pc = "primary"]
            /\ queue' = queue /\ stored' = flush.entry.name
        BY <3>2 DEF FlushStore
      <4>2. flush' \in Flush /\ flush'.entry = flush.entry
        BY <1>1, <4>1
      <4> QED BY <4>1, <4>2, Facts, EntryTypes DEF IInv, Stamps
    <3> QED BY <1>2, <3>1, <3>2
  <2>3. LockHeld' /\ JobsMove
    BY <1>1, <2>1, JobsStay DEF IInv, LockHeld, Running
  <2>4. Stamps'
    BY <1>1, <2>1, <2>2 DEF IInv, Stamps
  <2>5. TypeOK'
    BY <1>1, <2>1, <2>2
       DEF IInv, TypeOK, HaTypes, AppTypes, IndexTypes, TaskTypes
  <2> QED BY <2>3, <2>4, <2>5 DEF Good
<1>3. ASSUME FlushPrimary
      PROVE  Good
  <2>1. PICK name, at : name = flush.entry.name /\ at = flush.entry.at
    OBVIOUS
  <2>2. Mutate(name, at) /\ name \in Names /\ at \in Times /\ at <= ver
    BY <1>3, <2>1, Facts, EntryTypes DEF FlushPrimary, Mutate, IInv, Stamps
  <2>3. /\ job' \in [Syncs -> Job] /\ primary' \in Entries
        /\ primary'.at <= ver /\ JobsMove
        /\ \A s \in Syncs : job'[s].at <= ver /\ job'[s].pc = job[s].pc
    BY <2>2, Mutates
  <2>4. /\ flush' \in Flush /\ flush'.entry.at = 0
        /\ UNCHANGED <<stored, queue>>
    BY <1>3, EntryTypes DEF FlushPrimary, IdleFlush
  <2>5. LockHeld'
    BY <1>1, <2>3 DEF IInv, LockHeld, Running, Syncs
  <2>6. Stamps'
    BY <1>1, <2>3, <2>4, Facts DEF IInv, Stamps
  <2>7. TypeOK'
    BY <1>1, <2>3, <2>4
       DEF IInv, TypeOK, HaTypes, AppTypes, IndexTypes, TaskTypes
  <2> QED BY <2>3, <2>5, <2>6, <2>7 DEF Good
<1> QED BY <1>2, <1>3 DEF Flusher

-----------------------------------------------------------------------------
(* The registry                                                            *)

LEMMA FetchTypes ==
  ASSUME IInv, Fetch
  PROVE  cached' \in Regs /\ last' \in Regs
  BY Facts DEF Fetch, regVars

\* A handler that ends gives the lock back; no resync runs beside it.
LEMMA HandlerEnds ==
  ASSUME IInv, handler.pc # "idle", tasks' = Tail(tasks),
         handler' = IdleHandler,
         \A s \in Syncs : job'[s].pc = job[s].pc
  PROVE  /\ tasks' \in Seq({"event", "create", "resync"}) /\ LockHeld'
         /\ handler' \in [pc : {"idle", "registry", "state", "store",
                                "primary"},
                          st : Numbers, at : Times, reg : Regs]
         /\ handler'.at = 0
<1>1. tasks # <<>> /\ Head(tasks) = "event" /\ ~Running("reconnect")
  BY DEF IInv, LockHeld
<1>2. handler'.pc = "idle" /\ handler'.at = 0
  BY DEF IdleHandler
<1>3. ~Running("reconnect")'
  BY <1>1 DEF Running, Syncs
<1>4. handler' \in [pc : {"idle", "registry", "state", "store", "primary"},
                    st : Numbers, at : Times, reg : Regs]
  BY EntryTypes, Bounds DEF IdleHandler, Times
<1> QED BY <1>1, <1>2, <1>3, <1>4, Facts, TaskQueue DEF LockHeld

LEMMA HandlerGood ==
  ASSUME IInv, Handler \/ HandlerFails
  PROVE  Good
<1> DEFINE Handlers == [pc : {"idle", "registry", "state", "store", "primary"},
                        st : Numbers, at : Times, reg : Regs]
<1>1. /\ UNCHANGED <<ha, ver, net, wire, drops, bound, loaded, queue, flush,
                     recv>>
      /\ handler \in Handlers
  BY DEF Handler, HandleCreate, HandleEvent, HandlerRegistry, HandlerState,
     HandlerFails, HandlerStore, HandlerPrimary, haVars, appVars, pushVars,
     IInv, TypeOK, TaskTypes
<1>2. ASSUME handler' \in Handlers, handler'.at <= ver, LockHeld', JobsMove,
             tasks' \in Seq({"event", "create", "resync"}),
             job' \in [Syncs -> Job], \A s \in Syncs : job'[s].at <= ver,
             primary' \in Entries, primary'.at <= ver, stored' \in Names,
             cached' \in Regs, last' \in Regs, known' \in BOOLEAN,
             names' \in Numbers, degraded' \in BOOLEAN,
             faults' \in 0 .. bound.faults
      PROVE  Good
  <2>1. Stamps'
    BY <1>1, <1>2 DEF IInv, Stamps
  <2>2. TypeOK'
    BY <1>1, <1>2 DEF IInv, TypeOK, HaTypes, AppTypes, IndexTypes, TaskTypes
  <2> QED BY <1>2, <2>1, <2>2 DEF Good
<1>3. /\ known \in BOOLEAN /\ degraded \in BOOLEAN
      /\ faults \in 0 .. bound.faults /\ primary.at <= ver /\ handler.at <= ver
      /\ \A s \in Syncs : job[s].at <= ver
  BY DEF IInv, TypeOK, HaTypes, AppTypes, Stamps
<1>4. ASSUME UNCHANGED <<primary, job>>
      PROVE  JobsMove
  BY <1>4, JobsStay
<1>5. CASE HandleCreate
  <2>1. /\ tasks # <<>> /\ Head(tasks) = "create" /\ tasks' = Tail(tasks)
        /\ UNCHANGED <<primary, stored, job, handler, last, known, names,
                       degraded, faults>>
        /\ cached' \in Regs
    BY <1>5, EntryTypes DEF HandleCreate, appVars, idxVars
  <2>2. LockHeld'
    BY <2>1 DEF IInv, LockHeld, Running
  <2>3. tasks' \in Seq({"event", "create", "resync"})
    BY <2>1, Facts, TaskQueue
  <2> QED BY <1>1, <1>2, <1>3, <1>4, <2>1, <2>2, <2>3, Facts
<1>6. CASE HandleEvent
  <2>1. /\ tasks # <<>> /\ Head(tasks) = "event"
        /\ UNCHANGED <<primary, stored, job, tasks, last, known, names,
                       degraded, faults>>
        /\ cached' \in Regs
        /\ handler' = [IdleHandler EXCEPT !.pc = "registry"]
    BY <1>6, EntryTypes DEF HandleEvent, appVars, idxVars
  <2>2. handler' \in Handlers /\ handler'.at = 0
    BY <2>1, EntryTypes, Bounds DEF IdleHandler, Times
  <2>3. LockHeld'
    BY <2>1 DEF IInv, LockHeld, Running
  <2> QED BY <1>2, <1>3, <1>4, <2>1, <2>2, <2>3, Facts
<1>7. CASE HandlerRegistry
  <2>1. PICK reg : reg = Fetched
    OBVIOUS
  <2>2. reg \in Regs /\ cached' \in Regs /\ last' \in Regs
    BY <1>7, <2>1, Facts, FetchTypes DEF HandlerRegistry
  <2>3. /\ UNCHANGED <<primary, stored, job, tasks, names, faults>>
        /\ handler' = [handler EXCEPT !.pc = "state", !.reg = reg]
        /\ known' = reg.hid /\ degraded' = (degraded \/ reg = NoReg)
        /\ handler.pc = "registry"
    BY <1>7, <2>1 DEF HandlerRegistry, idxVars
  <2>4. handler' \in Handlers /\ handler'.at = handler.at
    BY <1>1, <2>2, <2>3
  <2>5. known' \in BOOLEAN /\ degraded' \in BOOLEAN
    BY <2>2, <2>3, EntryTypes
  <2>6. LockHeld'
    BY <2>3 DEF IInv, LockHeld, Running
  <2> QED BY <1>2, <1>3, <1>4, <2>2, <2>3, <2>4, <2>5, <2>6, Facts
<1>8. CASE HandlerState
  <2>1. PICK st : st = IF ha.live THEN ha.st ELSE Gone
    OBVIOUS
  <2>2. /\ UNCHANGED <<primary, stored, job, tasks, known, degraded, cached,
                       last, faults>>
        /\ handler' = [handler EXCEPT !.pc = "store", !.at = ver, !.st = st]
        /\ names' = handler.reg.own /\ handler.pc = "state"
    BY <1>8, <2>1 DEF HandlerState, idxVars, regVars
  <2>3. st \in Numbers /\ names' \in Numbers
    BY <2>1, <2>2, Facts, EntryTypes
  <2>4. handler' \in Handlers /\ handler'.at = ver
    BY <1>1, <2>2, <2>3, Facts
  <2>5. LockHeld'
    BY <2>2 DEF IInv, LockHeld, Running
  <2> QED BY <1>2, <1>3, <1>4, <2>2, <2>3, <2>4, <2>5, Facts
<1>9. CASE HandlerFails
  <2>1. /\ UNCHANGED <<primary, stored, job, known, degraded, cached, last>>
        /\ handler.pc = "state" /\ handler' = IdleHandler
        /\ tasks' = Tail(tasks) /\ names' = handler.reg.own
        /\ faults < bound.faults /\ faults' = faults + 1
    BY <1>9 DEF HandlerFails, idxVars, regVars
  <2>2. faults' \in 0 .. bound.faults
    BY <1>3, <2>1, Facts
  <2>3. names' \in Numbers
    BY <2>1, Facts, EntryTypes
  <2> QED BY <1>2, <1>3, <1>4, <2>1, <2>2, <2>3, Facts, HandlerEnds
<1>10. CASE HandlerStore
  <2>1. /\ UNCHANGED <<primary, job, tasks, known, degraded, cached, last,
                       names, faults>>
        /\ handler' = [handler EXCEPT !.pc = "primary"]
        /\ handler.pc = "store" /\ stored' = Built(handler.st, handler.reg)
    BY <1>10 DEF HandlerStore, appVars, regVars
  <2>2. stored' \in Names
    BY <2>1, Facts, BuiltType
  <2>3. handler' \in Handlers /\ handler'.at = handler.at
    BY <1>1, <2>1
  <2>4. LockHeld'
    BY <2>1 DEF IInv, LockHeld, Running
  <2> QED BY <1>2, <1>3, <1>4, <2>1, <2>2, <2>3, <2>4, Facts
<1>11. CASE HandlerPrimary
  <2>1. PICK name, at : name = Built(handler.st, handler.reg) /\ at = handler.at
    OBVIOUS
  <2>2. /\ UNCHANGED <<stored, known, degraded, cached, last, names, faults>>
        /\ handler.pc = "primary" /\ handler' = IdleHandler
        /\ tasks' = Tail(tasks) /\ Mutate(name, at)
    BY <1>11, <2>1 DEF HandlerPrimary, appVars, regVars, Mutate
  <2>3. name \in Names /\ at \in Times /\ at <= ver
    BY <1>3, <2>1, Facts, BuiltType
  <2>4. /\ job' \in [Syncs -> Job] /\ primary' \in Entries
        /\ primary'.at <= ver /\ JobsMove
        /\ \A s \in Syncs : job'[s].at <= ver /\ job'[s].pc = job[s].pc
    BY <2>2, <2>3, Mutates
  <2>5. /\ tasks' \in Seq({"event", "create", "resync"}) /\ LockHeld'
        /\ handler' \in Handlers /\ handler'.at = 0
    BY <2>2, <2>4, HandlerEnds
  <2> QED BY <1>2, <1>3, <2>2, <2>4, <2>5, Facts
<1> QED BY <1>5, <1>6, <1>7, <1>8, <1>9, <1>10, <1>11 DEF Handler

-----------------------------------------------------------------------------
(* The snapshot syncs                                                      *)

\* A sync goes on: what else it may change.
LEMMA SyncGood ==
  ASSUME IInv, NEW s \in Syncs, NEW k \in Job, job' = [job EXCEPT ![s] = k],
         Moved(job[s], k) \/ Begun(k) \/ Over(k) \/ Informed(k),
         s = "reconnect" /\ k.pc \notin Rests =>
           \/ job[s].pc \notin Rests
           \/ tasks # <<>> /\ Head(tasks) = "resync",
         UNCHANGED <<haVars, primary, pushVars, lockVars, faults>>,
         stored' \in Names, cached' \in Regs, last' \in Regs,
         known' \in BOOLEAN, names' \in Numbers, loaded' \in BOOLEAN,
         degraded' \in BOOLEAN
  PROVE  Good
<1>1. UNCHANGED <<ha, ver, net, wire, drops, bound, primary, queue, flush, recv,
                  tasks, handler, faults>>
  BY DEF haVars, pushVars, lockVars
<1>2. /\ job' \in [Syncs -> Job] /\ JobsMove /\ LockHeld'
      /\ \A t \in Syncs : job'[t].at <= ver
  BY <1>1, OneJob
<1>3. Stamps'
  BY <1>1, <1>2 DEF IInv, Stamps
<1>4. TypeOK'
  BY <1>1, <1>2 DEF IInv, TypeOK, HaTypes, AppTypes, IndexTypes, TaskTypes
<1> QED BY <1>2, <1>3, <1>4 DEF Good

LEMMA AppFacts ==
  ASSUME IInv
  PROVE  /\ known \in BOOLEAN /\ names \in Numbers /\ loaded \in BOOLEAN
         /\ degraded \in BOOLEAN /\ cached \in Regs /\ last \in Regs
         /\ stored \in Names
  BY DEF IInv, TypeOK, AppTypes, IndexTypes

LEMMA StartingGood ==
  ASSUME IInv, Starting
  PROVE  Good
<1>1. ASSUME NEW s \in Syncs, NEW reg \in Regs
      PROVE  LET k == [IdleJob EXCEPT !.pc = "states", !.reg = reg]
             IN  k \in Job /\ Begun(k) /\ k.pc = "states"
  BY JobTypes DEF JobPcs, Begun, IdleJob
<1>2. {"prime", "deferred", "periodic", "reconnect"} \subseteq Syncs
  BY DEF Syncs
<1>3. CASE PrimeRegistry
  <2>1. PICK reg : reg = Fetched
    OBVIOUS
  <2>2. PICK k : k = [IdleJob EXCEPT !.pc = "states", !.reg = reg]
    OBVIOUS
  <2>3. /\ job' = [job EXCEPT !["prime"] = k] /\ known' = reg.hid
        /\ UNCHANGED <<haVars, primary, pushVars, lockVars, faults, names,
                       loaded, degraded, stored>>
    BY <1>3, <2>1, <2>2 DEF PrimeRegistry, Starts, idxVars
  <2>4. reg \in Regs /\ cached' \in Regs /\ last' \in Regs
    BY <1>3, <2>1, Facts, FetchTypes DEF PrimeRegistry
  <2> QED BY <1>1, <1>2, <2>2, <2>3, <2>4, AppFacts, EntryTypes, SyncGood
<1>4. CASE PrimeGivesUp
  <2>1. PICK k : k = [IdleJob EXCEPT !.pc = "states", !.reg = NoReg]
    OBVIOUS
  <2>2. /\ job' = [job EXCEPT !["prime"] = k] /\ known' = FALSE
        /\ degraded' = TRUE
        /\ UNCHANGED <<haVars, primary, pushVars, lockVars, faults, names,
                       loaded, stored, cached, last>>
    BY <1>4, <2>1 DEF PrimeGivesUp, Starts, idxVars, regVars
  <2> QED BY <1>1, <1>2, <2>1, <2>2, AppFacts, EntryTypes, SyncGood
<1>5. CASE DeferredStart
  <2>1. UNCHANGED <<haVars, primary, pushVars, lockVars, faults, names,
                    loaded, degraded, stored, cached, last>>
    BY <1>5 DEF DeferredStart, idxVars, regVars
  <2>2. CASE net /\ (Truth.hid # known \/ Truth.own # names)
    <3>1. PICK reg : reg = Truth
      OBVIOUS
    <3>2. PICK k : k = [IdleJob EXCEPT !.pc = "states", !.reg = reg]
      OBVIOUS
    <3>3. job' = [job EXCEPT !["deferred"] = k] /\ known' = reg.hid
      BY <1>5, <2>2, <3>1, <3>2 DEF DeferredStart, Starts
    <3>4. reg \in Regs
      BY <3>1, Facts
    <3> QED BY <1>1, <1>2, <2>1, <3>2, <3>3, <3>4, AppFacts, EntryTypes,
               SyncGood
  <2>3. CASE ~(net /\ (Truth.hid # known \/ Truth.own # names))
    <3>1. PICK k : k = [job["deferred"] EXCEPT !.pc = "done"]
      OBVIOUS
    <3>2. job' = [job EXCEPT !["deferred"] = k] /\ UNCHANGED known
      BY <1>5, <2>3, <3>1 DEF DeferredStart, Goes
    <3>3. job["deferred"] \in Job
      BY <1>2, Facts
    <3>4. k \in Job /\ Moved(job["deferred"], k)
      BY <3>1, <3>3 DEF Moved, Rests, Job, JobPcs
    <3> QED BY <1>2, <2>1, <3>2, <3>4, AppFacts, SyncGood
  <2> QED BY <2>2, <2>3
<1>6. CASE PeriodicStart
  <2>1. PICK k : k = [IdleJob EXCEPT !.pc = "states", !.reg = NoReg]
    OBVIOUS
  <2>2. /\ job' = [job EXCEPT !["periodic"] = k]
        /\ UNCHANGED <<haVars, primary, pushVars, lockVars, faults, names,
                       loaded, known, degraded, stored, cached, last>>
    BY <1>6, <2>1 DEF PeriodicStart, Starts, idxVars, regVars, appVars
  <2> QED BY <1>1, <1>2, <2>1, <2>2, AppFacts, EntryTypes, SyncGood
<1>7. CASE ReconnectStart
  <2>1. PICK k : k = [IdleJob EXCEPT !.pc = "states", !.reg = NoReg]
    OBVIOUS
  <2>2. /\ job' = [job EXCEPT !["reconnect"] = k]
        /\ tasks # <<>> /\ Head(tasks) = "resync"
        /\ UNCHANGED <<haVars, primary, pushVars, lockVars, faults, names,
                       loaded, known, degraded, stored, cached, last>>
    BY <1>7, <2>1 DEF ReconnectStart, Starts, idxVars, regVars, appVars
  <2> QED BY <1>1, <1>2, <2>1, <2>2, AppFacts, EntryTypes, SyncGood
<1> QED BY <1>3, <1>4, <1>5, <1>6, <1>7 DEF Starting

LEMMA SnapshotType ==
  ASSUME IInv, NEW s \in Syncs
  PROVE  Snapshot(s) \in Names
<1>1. job[s] \in Job
  BY Facts
<1> QED BY <1>1, JobMoves, BuiltType DEF Snapshot

LEMMA SyncStepGood ==
  ASSUME IInv, NEW s \in Syncs, NEW j \in Job, j = job[s],
         \/ ReadStates(s) \/ Publish(s) \/ ReadRegistry(s)
         \/ PublishHidden(s) \/ Plan(s) \/ Write(s)
         \/ s = "prime" /\ PlanBuild
  PROVE  Good
<1>1. ASSUME NEW pc \in JobPcs, j.pc \notin Rests
      PROVE  s = "reconnect" /\ pc \notin Rests =>
               \/ job[s].pc \notin Rests
               \/ tasks # <<>> /\ Head(tasks) = "resync"
  BY <1>1
<1>2. CASE ReadStates(s)
  <2>1. PICK st, pc : /\ st = IF ha.live THEN ha.st ELSE Gone
                      /\ pc = CASE s = "prime"    -> "publish"
                                [] s = "deferred" -> "plan"
                                [] OTHER          -> "registry"
    OBVIOUS
  <2>2. PICK k : k = [j EXCEPT !.st = st, !.at = ver, !.pc = pc]
    OBVIOUS
  <2>3. st \in Numbers /\ pc \in JobPcs
    BY <2>1, Facts, EntryTypes DEF JobPcs
  <2>4. k \in Job /\ Informed(k)
    BY <2>2, <2>3, Facts DEF Job, Informed
  <2>5. job' = [job EXCEPT ![s] = k]
    <3>1. job' = [job EXCEPT ![s].st = st, ![s].at = ver, ![s].pc = pc]
      BY <1>2, <2>1 DEF ReadStates
    <3> QED BY <2>2, <3>1, Facts
  <2>6. /\ UNCHANGED <<haVars, primary, pushVars, lockVars, faults, known,
                       loaded, degraded, stored, cached, last>>
        /\ names' \in {names, j.reg.own} /\ j.pc = "states"
    BY <1>2 DEF ReadStates, idxVars, regVars
  <2>7. names' \in Numbers
    <3>1. j.reg \in Regs
      BY JobMoves
    <3>2. j.reg.own \in Numbers /\ names \in Numbers
      BY <3>1, EntryTypes, AppFacts
    <3> QED BY <2>6, <3>2
  <2> QED BY <2>4, <2>5, <2>6, <2>7, AppFacts, SyncGood DEF Rests
<1>3. CASE Publish(s)
  <2>1. PICK k : k = [j EXCEPT !.pc = "plan"]
    OBVIOUS
  <2>2. /\ job' = [job EXCEPT ![s] = k] /\ j.pc = "publish"
        /\ names' = j.reg.own
        /\ UNCHANGED <<haVars, primary, pushVars, lockVars, faults, known,
                       loaded, degraded, stored, cached, last>>
    BY <1>3, <2>1 DEF Publish, Goes, idxVars, regVars
  <2>3. k \in Job /\ Moved(j, k)
    BY <2>1, <2>2 DEF Job, JobPcs, Moved, Rests
  <2>4. names' \in Numbers
    BY <2>2, JobMoves, EntryTypes
  <2> QED BY <2>2, <2>3, <2>4, AppFacts, SyncGood DEF Rests
<1>4. CASE ReadRegistry(s)
  <2>1. PICK reg : reg = Fetched
    OBVIOUS
  <2>2. PICK k : k = [j EXCEPT !.pc = "hidden", !.reg = reg]
    OBVIOUS
  <2>3. reg \in Regs /\ cached' \in Regs /\ last' \in Regs
    BY <1>4, <2>1, Facts, FetchTypes DEF ReadRegistry
  <2>4. job' = [job EXCEPT ![s] = k]
    <3>1. job' = [job EXCEPT ![s].pc = "hidden", ![s].reg = reg]
      BY <1>4, <2>1 DEF ReadRegistry
    <3> QED BY <2>2, <3>1, Facts
  <2>5. /\ j.pc = "registry" /\ names' = reg.own
        /\ degraded' = (degraded \/ reg = NoReg)
        /\ UNCHANGED <<haVars, primary, pushVars, lockVars, faults, known,
                       loaded, stored>>
    BY <1>4, <2>1 DEF ReadRegistry, idxVars
  <2>6. k \in Job /\ Moved(j, k)
    BY <2>2, <2>3, <2>5 DEF Job, JobPcs, Moved, Rests
  <2>7. names' \in Numbers /\ degraded' \in BOOLEAN
    BY <2>3, <2>5, EntryTypes, AppFacts
  <2> QED BY <2>3, <2>4, <2>5, <2>6, <2>7, AppFacts, SyncGood DEF Rests
<1>5. CASE PublishHidden(s)
  <2>1. PICK k : k = [j EXCEPT !.pc = "plan"]
    OBVIOUS
  <2>2. /\ job' = [job EXCEPT ![s] = k] /\ j.pc = "hidden"
        /\ known' = j.reg.hid
        /\ UNCHANGED <<haVars, primary, pushVars, lockVars, faults, names,
                       loaded, degraded, stored, cached, last>>
    BY <1>5, <2>1 DEF PublishHidden, Goes, idxVars, regVars
  <2>3. k \in Job /\ Moved(j, k)
    BY <2>1, <2>2 DEF Job, JobPcs, Moved, Rests
  <2>4. known' \in BOOLEAN
    BY <2>2, JobMoves, EntryTypes
  <2> QED BY <2>2, <2>3, <2>4, AppFacts, SyncGood DEF Rests
<1>6. CASE Plan(s)
  <2>1. PICK k : k = [j EXCEPT !.pc = "write", !.was = stored,
                               !.skip = j.touched]
    OBVIOUS
  <2>2. job' = [job EXCEPT ![s] = k]
    <3>1. job' = [job EXCEPT ![s].pc = "write", ![s].was = stored,
                             ![s].skip = j.touched]
      BY <1>6 DEF Plan
    <3> QED BY <2>1, <3>1, Facts
  <2>3. /\ j.pc = "plan"
        /\ UNCHANGED <<haVars, primary, pushVars, lockVars, faults, known,
                       names, loaded, degraded, stored, cached, last>>
    BY <1>6 DEF Plan, idxVars, regVars, appVars
  <2>4. k \in Job /\ Moved(j, k)
    <3>1. stored \in Names /\ j.touched \in BOOLEAN
      BY AppFacts, JobMoves
    <3>2. "write" \in JobPcs
      BY DEF JobPcs
    <3>3. k \in Job
      BY <2>1, <3>1, <3>2, JobMoves
    <3>4. k.pc = "write" /\ k.at = j.at /\ k.touched = j.touched
          /\ k.passed = j.passed
      BY <2>1 DEF Job
    <3> QED BY <2>3, <3>3, <3>4 DEF Moved, Rests
  <2> QED BY <2>2, <2>3, <2>4, AppFacts, SyncGood DEF Rests
<1>7. CASE Write(s)
  <2>1. PICK k : k = [j EXCEPT !.pc = "install", !.was = Absent,
                               !.skip = FALSE, !.build = FALSE]
    OBVIOUS
  <2>2. job' = [job EXCEPT ![s] = k]
    <3>1. job' = [job EXCEPT ![s].pc = "install", ![s].was = Absent,
                             ![s].skip = FALSE, ![s].build = FALSE]
      BY <1>7 DEF Write
    <3> QED BY <2>1, <3>1, Facts
  <2>3. /\ j.pc = "write" /\ stored' \in {stored, Snapshot(s)}
        /\ UNCHANGED <<haVars, primary, pushVars, lockVars, faults, known,
                       names, loaded, degraded, cached, last>>
    BY <1>7 DEF Write, regVars, appVars
  <2>4. k \in Job /\ Moved(j, k)
    BY <2>1, <2>3, EntryTypes DEF Job, JobPcs, Moved, Rests
  <2>5. stored' \in Names
    BY <2>3, SnapshotType, AppFacts
  <2> QED BY <2>2, <2>3, <2>4, <2>5, AppFacts, SyncGood DEF Rests
<1>8. CASE s = "prime" /\ PlanBuild
  <2>1. PICK k : k = [j EXCEPT !.pc = "write", !.build = TRUE]
    OBVIOUS
  <2>2. job' = [job EXCEPT ![s] = k]
    <3>1. job' = [job EXCEPT ![s].pc = "write", ![s].build = TRUE]
      BY <1>8 DEF PlanBuild
    <3> QED BY <2>1, <3>1, Facts
  <2>3. /\ j.pc = "plan" /\ stored' = Absent
        /\ UNCHANGED <<haVars, primary, pushVars, lockVars, faults, known,
                       names, loaded, degraded, cached, last>>
    BY <1>8 DEF PlanBuild, regVars, appVars
  <2>4. k \in Job /\ Moved(j, k)
    BY <2>1, <2>3 DEF Job, JobPcs, Moved, Rests
  <2> QED BY <2>2, <2>3, <2>4, AppFacts, EntryTypes, SyncGood DEF Rests
<1> QED BY <1>2, <1>3, <1>4, <1>5, <1>6, <1>7, <1>8

\* A sync that ends gives back the lock, if it has it.
LEMMA EndsLock ==
  ASSUME IInv, NEW s \in Syncs, Running(s), ~Running(s)',
         \A t \in Syncs \ {s} : job'[t].pc = job[t].pc,
         tasks' = IF s = "reconnect" THEN Tail(tasks) ELSE tasks,
         handler' = handler
  PROVE  tasks' \in Seq({"event", "create", "resync"}) /\ LockHeld'
<1>1. CASE s = "reconnect"
  <2>1. tasks # <<>> /\ Head(tasks) = "resync" /\ handler.pc = "idle"
    BY <1>1 DEF IInv, LockHeld
  <2>2. tasks' \in Seq({"event", "create", "resync"})
    BY <1>1, <2>1, Facts, TaskQueue
  <2> QED BY <1>1, <2>1, <2>2 DEF LockHeld
<1>2. CASE s # "reconnect"
  <2>1. Running("reconnect")' <=> Running("reconnect")
    BY <1>2 DEF Running, Syncs
  <2> QED BY <1>2, <2>1, Facts DEF IInv, LockHeld
<1> QED BY <1>1, <1>2

LEMMA InstallGood ==
  ASSUME IInv, NEW s \in Syncs, Install(s)
  PROVE  Good
<1>1. job \in [Syncs -> Job] /\ job[s].at <= ver /\ primary.at <= ver
  BY Facts DEF IInv, Stamps
<1>2. /\ UNCHANGED <<ha, ver, net, wire, drops, bound, cached, last, known,
                     names, degraded, stored, queue, flush, recv, handler,
                     faults>>
      /\ loaded' = TRUE /\ job[s].pc = "install"
      /\ tasks' = IF s = "reconnect" THEN Tail(tasks) ELSE tasks
  BY DEF Install, Installed, haVars, regVars, pushVars
<1>3. job'[s] = AfterSync(s) /\ job'[s] \in Job /\ Over(job'[s])
  BY JobTypes, <1>1 DEF Install, Installed, AfterSync, IdleJob, Over, Rests
<1>4. ASSUME NEW t \in Syncs \ {s}
      PROVE  job'[t] \in Job /\ job'[t].at = job[t].at /\ Told(job[t], job'[t])
  <2>1. job'[t] = [job[t] EXCEPT !.passed = Running(t)]
    BY DEF Install, Installed
  <2>2. job[t] \in Job /\ Running(t) \in BOOLEAN
    BY <1>1 DEF Running
  <2> QED BY <2>1, <2>2 DEF Job, Told, Running, Rests
<1>5. job' \in [Syncs -> Job]
  BY <1>3, <1>4 DEF Install, Installed
<1>6. JobsMove
  BY <1>3, <1>4 DEF JobsMove
<1>7. primary' \in Entries /\ primary'.at <= ver
  <2>1. PICK e : e = Entry(Snapshot(s), job[s].at)
    OBVIOUS
  <2>2. e \in Entries /\ e.at = job[s].at
    BY <1>1, <2>1, SnapshotType, EntryTypes, JobMoves
  <2>3. primary' \in {primary, e}
    BY <2>1 DEF Install
  <2> QED BY <1>1, <2>2, <2>3, Facts
<1>8. tasks' \in Seq({"event", "create", "resync"}) /\ LockHeld'
  <2>1. Running(s) /\ ~Running(s)'
    BY <1>2, <1>3 DEF Running, Over, Rests
  <2>2. \A t \in Syncs \ {s} : job'[t].pc = job[t].pc
    BY <1>4 DEF Told
  <2> QED BY <1>2, <2>1, <2>2, EndsLock
<1>9. \A t \in Syncs : job'[t].at <= ver
  BY <1>3, <1>4, Facts DEF IInv, Stamps, Over
<1>10. Stamps'
  BY <1>2, <1>7, <1>9 DEF IInv, Stamps
<1>11. TypeOK'
  BY <1>2, <1>5, <1>7, <1>8
     DEF IInv, TypeOK, HaTypes, AppTypes, IndexTypes, TaskTypes
<1> QED BY <1>6, <1>8, <1>10, <1>11 DEF Good

LEMMA FailureGood ==
  ASSUME IInv, NEW s \in Syncs, SyncFails(s) \/ (s = "prime" /\ BuildFails)
  PROVE  Good
<1>1. /\ job \in [Syncs -> Job] /\ primary.at <= ver /\ primary \in Entries
      /\ primary.at \in Nat /\ faults \in 0 .. bound.faults
      /\ \A t \in Syncs : job[t].at <= ver
  BY Facts, EntryTypes DEF IInv, Stamps, TypeOK, HaTypes
<1>2. /\ UNCHANGED <<ha, ver, net, wire, drops, bound, cached, last, known,
                     names, loaded, degraded, stored, queue, flush, recv,
                     handler>>
      /\ Running(s) /\ Ended(s) /\ primary' \in {primary, NoEntry}
      /\ faults < bound.faults /\ faults' = faults + 1
  BY DEF SyncFails, BuildFails, Running, haVars, regVars, appVars, idxVars,
     pushVars
<1>3. PICK k : k = AfterSync(s)
  OBVIOUS
<1>4. k \in Job /\ Over(k)
  BY <1>3, JobTypes DEF AfterSync, IdleJob, Over, Rests
<1>5. /\ job' = [job EXCEPT ![s] = k]
      /\ tasks' = IF s = "reconnect" THEN Tail(tasks) ELSE tasks
  BY <1>2, <1>3 DEF Ended
<1>6. primary' \in Entries /\ primary'.at <= primary.at
  BY <1>1, <1>2, EntryTypes
<1>7. JobsMove
  BY <1>1, <1>4, <1>5, <1>6 DEF JobsMove, Moved, Rests
<1>8. tasks' \in Seq({"event", "create", "resync"}) /\ LockHeld'
  <2>1. ~Running(s)' /\ \A t \in Syncs \ {s} : job'[t].pc = job[t].pc
    BY <1>1, <1>4, <1>5 DEF Running, Over, Rests
  <2> QED BY <1>2, <1>5, <2>1, EndsLock
<1>9. Stamps'
  <2>1. \A t \in Syncs : job'[t].at <= ver
    BY <1>1, <1>4, <1>5, Facts DEF Over
  <2>2. primary'.at <= ver
    BY <1>1, <1>6, Facts, EntryTypes
  <2> QED BY <1>2, <2>1, <2>2 DEF IInv, Stamps
<1>10. faults' \in 0 .. bound.faults
  BY <1>1, <1>2, Facts
<1>11. TypeOK'
  BY <1>1, <1>2, <1>4, <1>5, <1>6, <1>8, <1>10
     DEF IInv, TypeOK, HaTypes, AppTypes, IndexTypes, TaskTypes
<1> QED BY <1>7, <1>8, <1>9, <1>11 DEF Good

-----------------------------------------------------------------------------
(* The theorems                                                            *)

LEMMA NextGood ==
  ASSUME IInv, Next
  PROVE  Good
<1>1. CASE \E s \in Syncs : SyncStep(s)
  <2>1. PICK s \in Syncs : SyncStep(s)
    BY <1>1
  <2>2. PICK j : j = job[s]
    OBVIOUS
  <2>3. j \in Job
    BY <2>2, Facts
  <2> QED BY <2>1, <2>2, <2>3, SyncStepGood, InstallGood DEF SyncStep
<1>2. CASE PlanBuild
  <2>1. PICK j : j = job["prime"]
    OBVIOUS
  <2>2. "prime" \in Syncs /\ j \in Job
    BY <2>1, Facts DEF Syncs
  <2> QED BY <1>2, <2>1, <2>2, SyncStepGood
<1>3. CASE Fault
  BY <1>3, HandlerGood, FailureGood DEF Fault, Syncs
<1>4. CASE Environment
  BY <1>4, Changed, ConnectionGood, ReconnectGood DEF Environment
<1> QED BY <1>1, <1>2, <1>3, <1>4, ReceiveGood, RemovedGood, FlushGood,
           HandlerGood, StartingGood DEF Next

LEMMA IInvInit ==
  ASSUME Init
  PROVE  IInv
<1>1. /\ 1 \in Numbers /\ 0 \in Times /\ 0 \in Numbers
      /\ NameOf(1, 1) \in Names
  <2>1. 1 \in Numbers /\ 0 \in Times /\ 0 \in Numbers
    BY Bounds DEF Numbers, Times
  <2> QED BY <2>1, EntryTypes
<1>2. \A s \in Syncs : /\ job[s] \in Job
                      /\ job[s].pc \in {"idle", "wait", "done"}
                      /\ job[s].at = 0
  <2>1. ASSUME NEW s \in Syncs
        PROVE  job[s] \in {IdleJob, [IdleJob EXCEPT !.pc = "wait"],
                           [IdleJob EXCEPT !.pc = "done"]}
    BY <2>1 DEF Init
  <2>2. "idle" \in JobPcs /\ "wait" \in JobPcs /\ "done" \in JobPcs
    BY DEF JobPcs
  <2>3. \A k \in {IdleJob, [IdleJob EXCEPT !.pc = "wait"],
                  [IdleJob EXCEPT !.pc = "done"]} :
          k \in Job /\ k.pc \in {"idle", "wait", "done"} /\ k.at = 0
    BY <2>2, JobTypes
  <2> QED BY <2>1, <2>3
<1>3. TypeOK
  <2>1. HaTypes
    <3>1. bound.drops \in Nat /\ bound.faults \in Nat /\ bound \in Scenarios
      BY EventBounds DEF Init, EventBounds
    <3>2. wire \in Seq(Events)
      BY DEF Init
    <3>3. ha \in [live : BOOLEAN, hidden : BOOLEAN, own : Numbers \ {0},
                  st : Numbers \ {0}]
      BY <1>1 DEF Init
    <3>4. /\ ver \in Times /\ net \in BOOLEAN
          /\ drops = 0 /\ faults = 0
      BY <1>1 DEF Init
    <3>5. 0 \in 0 .. bound.drops /\ 0 \in 0 .. bound.faults
      BY <3>1
    <3> QED BY <3>1, <3>2, <3>3, <3>4, <3>5 DEF HaTypes
  <2>2. AppTypes /\ IndexTypes
    BY <1>1, EntryTypes DEF Init, AppTypes, IndexTypes
  <2>3. job \in [Syncs -> Job]
    BY <1>2 DEF Init
  <2>4. TaskTypes
    <3>1. queue \in Entries /\ tasks \in Seq({"event", "create", "resync"})
      BY EntryTypes DEF Init
    <3>2. /\ flush \in [pc : {"idle", "store", "primary"}, entry : Entries]
          /\ recv \in [pc : {"idle", "pop"}, at : Times]
      BY <1>1, EntryTypes DEF Init, IdleFlush, IdleRecv
    <3>3. handler \in [pc : {"idle", "registry", "state", "store", "primary"},
                      st : Numbers, at : Times, reg : Regs]
      BY <1>1, EntryTypes DEF Init, IdleHandler
    <3> QED BY <2>3, <3>1, <3>2, <3>3 DEF TaskTypes
  <2> QED BY <2>1, <2>2, <2>4 DEF TypeOK
<1>4. LockHeld /\ Stamps
  BY <1>1, <1>2, EntryTypes
     DEF Init, LockHeld, Stamps, Running, IdleHandler, IdleFlush, IdleRecv,
         Syncs
<1>5. \A s \in Syncs : Fresh(job[s], primary.at)
  BY <1>2 DEF Fresh, Rests
<1> QED BY <1>3, <1>4, <1>5 DEF IInv

LEMMA IInvStays ==
  ASSUME IInv, [Next]_vars
  PROVE  IInv'
<1>1. CASE Next
  <2>1. Good
    BY <1>1, NextGood
  <2>2. \A s \in Syncs : Fresh(job'[s], primary'.at)
    BY <2>1, FreshKept
  <2> QED BY <2>1, <2>2 DEF IInv, Good
<1>2. CASE UNCHANGED vars
  BY <1>2 DEF vars, IInv, TypeOK, HaTypes, AppTypes, IndexTypes, TaskTypes,
              LockHeld, Stamps, Running
<1> QED BY <1>1, <1>2

LEMMA IInvAlways == Spec => []IInv
<1>1. Init => IInv
  BY IInvInit
<1>2. IInv /\ [Next]_vars => IInv'
  BY IInvStays
<1> QED BY <1>1, <1>2, PTL DEF Spec

\* Every variable of the index, its mirrors and its syncs keeps its type, a
\* registry handler and a resync hold their lock at its head, and nothing is
\* newer than Home Assistant (bootstrap/_entity.py).
THEOREM Typing == Spec => [](TypeOK /\ LockHeld /\ Stamps)
<1>1. IInv => TypeOK /\ LockHeld /\ Stamps
  BY DEF IInv
<1> QED BY <1>1, IInvAlways, PTL

\* Only its install takes a job past it.
LEMMA InstallsOnly ==
  ASSUME IInv, Next, NEW s \in Syncs, job[s].pc = "install",
         job'[s].pc # "install"
  PROVE  Install(s)
<1>1. job \in [Syncs -> Job]
  BY Facts
<1>2. ASSUME NEW name, NEW at, Mutate(name, at)
      PROVE  FALSE
  BY <1>1, <1>2 DEF Mutate, Job
<1>3. ASSUME UNCHANGED job
      PROVE  FALSE
  BY <1>3
<1>4. ASSUME NEW t \in Syncs, NEW k, job' = [job EXCEPT ![t] = k],
             job[t].pc # "install" \/ k.pc = "install"
      PROVE  FALSE
  BY <1>1, <1>4
<1>5. CASE Receive \/ Environment
  <2>1. UNCHANGED job \/ Reconnect
    BY <1>5 DEF Receive, ReceiveState, ReceiveRegistry, Environment, Rename,
       WriteState, Visibility, Remove, Create, Push, Emit, Drop, Connect,
       Expire
  <2>2. CASE Reconnect
    BY <1>1, <2>2 DEF Reconnect
  <2> QED BY <1>3, <2>1, <2>2
<1>6. CASE Removed \/ Flusher
  <2>1. UNCHANGED job \/ Removed \/ FlushPrimary
    BY <1>6 DEF Flusher, FlushTake, FlushStore
  <2>2. CASE Removed
    <3>1. PICK name, at : name = Absent /\ at = recv.at
      OBVIOUS
    <3>2. Mutate(name, at)
      BY <2>2, <3>1 DEF Removed, Mutate
    <3> QED BY <1>2, <3>2
  <2>3. CASE FlushPrimary
    <3>1. PICK name, at : name = flush.entry.name /\ at = flush.entry.at
      OBVIOUS
    <3>2. Mutate(name, at)
      BY <2>3, <3>1 DEF FlushPrimary, Mutate
    <3> QED BY <1>2, <3>2
  <2> QED BY <1>3, <2>1, <2>2, <2>3
<1>7. CASE Handler \/ HandlerFails
  <2>1. UNCHANGED job \/ HandlerPrimary
    BY <1>7 DEF Handler, HandleCreate, HandleEvent, HandlerRegistry,
       HandlerState, HandlerFails, HandlerStore
  <2>2. CASE HandlerPrimary
    <3>1. PICK name, at : /\ name = Built(handler.st, handler.reg)
                          /\ at = handler.at
      OBVIOUS
    <3>2. Mutate(name, at)
      BY <2>2, <3>1 DEF HandlerPrimary, Mutate
    <3> QED BY <1>2, <3>2
  <2> QED BY <1>3, <2>1, <2>2
<1>8. CASE Starting
  BY <1>1, <1>8 DEF Starting, PrimeRegistry, PrimeGivesUp, DeferredStart,
     PeriodicStart, ReconnectStart, Starts, Goes
<1>9. CASE PlanBuild \/ Fault
  <2>1. PICK t \in Syncs : \/ t = "prime" /\ (PlanBuild \/ BuildFails)
                           \/ SyncFails(t) \/ HandlerFails
    BY <1>9 DEF Fault, Syncs
  <2>2. job[t].pc # "install" \/ HandlerFails
    BY <2>1 DEF PlanBuild, BuildFails, SyncFails
  <2>3. HandlerFails \/ \E k : job' = [job EXCEPT ![t] = k]
    <3>1. CASE t = "prime" /\ PlanBuild
      BY <1>1, <3>1 DEF PlanBuild
    <3>2. CASE SyncFails(t) \/ (t = "prime" /\ BuildFails)
      BY <3>2 DEF SyncFails, BuildFails, Ended
    <3> QED BY <2>1, <3>1, <3>2
  <2> QED BY <1>4, <1>7, <2>2, <2>3
<1>10. CASE \E t \in Syncs : SyncStep(t)
  <2>1. PICK t \in Syncs : SyncStep(t)
    BY <1>10
  <2>2. CASE Install(t)
    <3>1. ASSUME t # s
          PROVE  job'[s] = [job[s] EXCEPT !.passed = Running(s)]
      BY <2>2, <3>1 DEF Install, Installed
    <3> QED BY <1>1, <2>2, <3>1 DEF Job
  <2>3. CASE ~Install(t)
    <3>1. job[t].pc # "install"
      BY <2>1, <2>3 DEF SyncStep, ReadStates, Publish, ReadRegistry,
         PublishHidden, Plan, Write
    <3>2. \A u \in Syncs \ {t} : job'[u] = job[u]
      BY <1>1, <2>1, <2>3 DEF SyncStep, ReadStates, Publish, ReadRegistry,
         PublishHidden, Plan, Write, Goes
    <3> QED BY <3>1, <3>2
  <2> QED BY <2>2, <2>3
<1> QED BY <1>5, <1>6, <1>7, <1>8, <1>9, <1>10 DEF Next

OlderStep ==
  \A s \in Syncs :
    job[s].pc = "install" /\ job'[s].pc # "install" /\ ~job[s].passed
      => primary'.at >= primary.at

\* A snapshot that is installed takes nothing back that the index learnt since
\* the states were read, unless another one overlapped it (index.py sync and
\* _install_snapshot): what was mutated meanwhile is kept.
THEOREM SnapshotsNeverOlder == Spec => SnapshotNeverOlder
<1>1. ASSUME IInv, [Next]_vars
      PROVE  [OlderStep]_vars
  <2>1. ASSUME Next, NEW s \in Syncs, job[s].pc = "install",
               job'[s].pc # "install", ~job[s].passed
        PROVE  primary'.at >= primary.at
    <3>1. primary.at \in Nat /\ Fresh(job[s], primary.at)
      BY <1>1, Facts, EntryTypes DEF IInv
    <3>2. Install(s)
      BY <1>1, <2>1, InstallsOnly
    <3>3. job[s].touched \/ primary.at <= job[s].at
      BY <2>1, <3>1 DEF Fresh, Rests
    <3>4. \/ primary' = primary
          \/ primary'.at = job[s].at /\ ~job[s].touched
      <4>1. PICK e : e = Entry(Snapshot(s), job[s].at)
        OBVIOUS
      <4>2. e.at = job[s].at
        BY <4>1 DEF Entry
      <4>3. primary' = IF job[s].touched THEN primary ELSE e
        BY <3>2, <4>1 DEF Install
      <4>4. job[s].touched \in BOOLEAN
        BY <1>1, Facts, JobMoves
      <4> QED BY <4>2, <4>3, <4>4
    <3>5. job[s].at \in Nat
      BY Facts, JobMoves, EntryTypes, <1>1
    <3> QED BY <3>1, <3>2, <3>3, <3>4, <3>5 DEF Install
  <2> QED BY <1>1, <2>1 DEF OlderStep
<1>2. SnapshotNeverOlder <=> [][OlderStep]_vars
  BY DEF SnapshotNeverOlder, OlderStep
<1> QED BY <1>1, <1>2, IInvAlways, PTL DEF Spec
=============================================================================
