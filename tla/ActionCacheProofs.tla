----------------------- MODULE ActionCacheProofs -----------------------
(* Theorems about ActionCache, for every value of its constants.           *)
EXTENDS ActionCache, FiniteSetTheorems, TLAPS

-----------------------------------------------------------------------------
(* Rows and jobs. *)

LEMMA RowTypes ==
  /\ NoRow \in Row /\ None \in [Keys -> Row]
  /\ \A r \in Row, n \in Nat : [r EXCEPT !.hits = n] \in Row
  /\ \A n \in Nat, e \in Entities :
       [NoRow EXCEPT !.made = n, !.answer = n, !.entity = e] \in Row
  BY DEF NoRow, Row, None

LEMMA IdleType == Idle \in Job
  BY RowTypes DEF Idle, Job, Steps

\* Deleting rows leaves a table of rows.
LEMMA WithoutType ==
  ASSUME rows \in [Keys -> Row], NEW ks
  PROVE  Without(ks) \in [Keys -> Row]
  BY RowTypes DEF Without

\* Where a job goes, what it stands for.
LEMMA JobMoves ==
  ASSUME NEW j \in Job
  PROVE  /\ \A pc \in Steps : [j EXCEPT !.pc = pc] \in Job
         /\ \A pc, back \in Steps :
              [j EXCEPT !.pc = pc, !.back = back] \in Job
         /\ \A pc, back \in Steps, n \in Nat :
              [j EXCEPT !.pc = pc, !.back = back, !.over = n] \in Job
         /\ \A pc \in Steps, b \in [Keys -> Row] :
              [j EXCEPT !.pc = pc, !.batch = b] \in Job
         /\ \A pc \in Steps, s \in SUBSET Keys, b \in [Keys -> Row] :
              [j EXCEPT !.pc = pc, !.todo = s, !.scan = b] \in Job
         /\ \A pc \in Steps, s \in SUBSET Keys, b \in [Keys -> Row] :
              [j EXCEPT !.pc = pc, !.scan = b, !.todo = s] \in Job
         /\ \A pc \in Steps, s, d \in SUBSET Keys :
              [j EXCEPT !.pc = pc, !.todo = s, !.doomed = d] \in Job
         /\ \A pc \in Steps, s \in SUBSET Keys :
              [j EXCEPT !.todo = s, !.pc = pc] \in Job
         /\ \A pc \in Steps, k \in Keys, r \in Row :
              [j EXCEPT !.pc = pc, !.key = k, !.seen = r] \in Job
         /\ \A pc \in Steps, k \in Keys :
              [j EXCEPT !.pc = pc, !.key = k] \in Job
  BY DEF Job

\* Several fields of one job are changed at once.
LEMMA Deep ==
  ASSUME job \in [Threads -> Job], NEW t \in Threads
  PROVE  /\ \A a : [job EXCEPT ![t].pc = a]
                     = [job EXCEPT ![t] = [job[t] EXCEPT !.pc = a]]
         /\ \A a, b : [job EXCEPT ![t].pc = a, ![t].batch = b]
                = [job EXCEPT ![t] = [job[t] EXCEPT !.pc = a, !.batch = b]]
         /\ \A a, b : [job EXCEPT ![t].pc = a, ![t].back = b]
                = [job EXCEPT ![t] = [job[t] EXCEPT !.pc = a, !.back = b]]
         /\ \A a, b, c : [job EXCEPT ![t].pc = a, ![t].back = b, ![t].over = c]
                = [job EXCEPT ![t] =
                     [job[t] EXCEPT !.pc = a, !.back = b, !.over = c]]
         /\ \A a, b, c :
              [job EXCEPT ![t].pc = a, ![t].todo = b, ![t].doomed = c]
                = [job EXCEPT ![t] =
                     [job[t] EXCEPT !.pc = a, !.todo = b, !.doomed = c]]
         /\ \A a, b, c : [job EXCEPT ![t].pc = a, ![t].todo = b, ![t].scan = c]
                = [job EXCEPT ![t] =
                     [job[t] EXCEPT !.pc = a, !.todo = b, !.scan = c]]
         /\ \A a, b : [job EXCEPT ![t].todo = a, ![t].pc = b]
                = [job EXCEPT ![t] = [job[t] EXCEPT !.todo = a, !.pc = b]]
  BY DEF Job
-----------------------------------------------------------------------------
(* What a step does to the job of its thread.                              *)
Rest(j) ==
  IF j.todo = {} THEN Idle
  ELSE [Idle EXCEPT !.pc = "scan", !.scan = j.scan, !.todo = j.todo]

Resumed(j) ==
  IF j.back = "idle" THEN Rest(j)
  ELSE [j EXCEPT !.pc = j.back, !.batch = None]

\* The job of t becomes j; the other threads keep theirs.
Turns(t, j) ==
  /\ job'[t] = j /\ job' \in [Threads -> Job]
  /\ \A u \in Threads \ {t} : job'[u] = job[u]

LEMMA TurnsTo ==
  ASSUME job \in [Threads -> Job], NEW t \in Threads, NEW j \in Job,
         job' = [job EXCEPT ![t] = j]
  PROVE  Turns(t, j)
  BY DEF Turns

LEMMA RestType ==
  ASSUME NEW j \in Job
  PROVE  Rest(j) \in Job
<1>1. /\ j.scan \in [Keys -> Row] /\ j.todo \in SUBSET Keys
      /\ "scan" \in Steps
  BY DEF Job, Steps
<1>2. [Idle EXCEPT !.pc = "scan", !.scan = j.scan, !.todo = j.todo] \in Job
  BY <1>1, IdleType, JobMoves
<1> QED BY <1>2, IdleType DEF Rest

LEMMA DoneTurns ==
  ASSUME job \in [Threads -> Job], NEW t \in Threads, Done(t)
  PROVE  Turns(t, Rest(job[t]))
<1>1. job' = [job EXCEPT ![t] = Rest(job[t])]
  BY DEF Done, Rest
<1> QED BY <1>1, RestType, TurnsTo

LEMMA GotoTurns ==
  ASSUME job \in [Threads -> Job], NEW t \in Threads, NEW s \in Steps,
         Goto(t, s)
  PROVE  Turns(t, [job[t] EXCEPT !.pc = s])
<1>1. job' = [job EXCEPT ![t] = [job[t] EXCEPT !.pc = s]]
  BY Deep DEF Goto
<1>2. [job[t] EXCEPT !.pc = s] \in Job
  BY JobMoves
<1> QED BY <1>1, <1>2, TurnsTo

LEMMA ResumeTurns ==
  ASSUME job \in [Threads -> Job], NEW t \in Threads, Resume(t)
  PROVE  Turns(t, Resumed(job[t]))
<1>1. CASE job[t].back = "idle"
  BY <1>1, DoneTurns DEF Resume, Resumed
<1>2. CASE job[t].back # "idle"
  <2> DEFINE j == [job[t] EXCEPT !.pc = job[t].back, !.batch = None]
  <2>1. job[t].back \in Steps
    BY DEF Job
  <2>2. j \in Job
    BY <2>1, JobMoves, RowTypes
  <2>3. job' = [job EXCEPT ![t] = j]
    BY <1>2, Deep DEF Resume
  <2> HIDE DEF j
  <2>4. Turns(t, j)
    BY <2>2, <2>3, TurnsTo
  <2> QED BY <2>4, <1>2 DEF j, Resumed
<1> QED BY <1>1, <1>2

LEMMA SwapTurns ==
  ASSUME TypeOK, NEW t \in Threads, Swap(t)
  PROVE  /\ job[t].pc = "swap"
         /\ \/ Turns(t, Resumed(job[t]))
            \/ Turns(t, [job[t] EXCEPT !.pc = "merge", !.batch = pending])
<1>1. CASE pending = None
  BY <1>1, ResumeTurns DEF Swap, TypeOK, At
<1>2. CASE pending # None
  <2>1. job' = [job EXCEPT ![t] =
                  [job[t] EXCEPT !.pc = "merge", !.batch = pending]]
    BY <1>2, Deep DEF Swap, TypeOK
  <2>2. [job[t] EXCEPT !.pc = "merge", !.batch = pending] \in Job
    BY JobMoves DEF TypeOK, Steps
  <2>3. Turns(t, [job[t] EXCEPT !.pc = "merge", !.batch = pending])
    BY <2>1, <2>2, TurnsTo DEF TypeOK
  <2> QED BY <2>3 DEF Swap, At
<1> QED BY <1>1, <1>2

LEMMA CountTurns ==
  ASSUME TypeOK, NEW t \in Threads, Count(t)
  PROVE  /\ job[t].pc = "count"
         /\ \E pc \in {"trim", "swap"}, n \in Nat :
              Turns(t, [job[t] EXCEPT !.pc = pc, !.back = "check", !.over = n])
<1>1. IsFiniteSet(Held) /\ Cardinality(Held) \in Nat
  <2>1. IsFiniteSet(Held)
    BY SetsAssumption, FS_Subset DEF Held
  <2> QED BY <2>1, FS_CardinalityType
<1>2. PICK pc \in {"trim", "swap"}, n \in Nat :
        job' = [job EXCEPT ![t].pc = pc, ![t].back = "check", ![t].over = n]
  <2> DEFINE c == Cardinality(Held)
             pc == IF c > LruTrigger /\ c > LruTarget THEN "trim" ELSE "swap"
             n == IF c > LruTarget THEN c - LruTarget ELSE 0
  <2>1. c \in Nat
    BY <1>1
  <2>2. job' = [job EXCEPT ![t].pc = pc, ![t].back = "check", ![t].over = n]
    BY DEF Count
  <2> HIDE DEF c
  <2>3. pc \in {"trim", "swap"} /\ n \in Nat
    BY <2>1, NumbersAssumption
  <2> QED BY <2>2, <2>3
<1> DEFINE j == [job[t] EXCEPT !.pc = pc, !.back = "check", !.over = n]
<1>3. job' = [job EXCEPT ![t] = j]
  BY <1>2, Deep DEF TypeOK
<1>4. j \in Job
  BY JobMoves DEF TypeOK, Steps
<1> HIDE DEF j
<1>5. Turns(t, j)
  BY <1>3, <1>4, TurnsTo DEF TypeOK
<1> QED BY <1>5 DEF j, Count, At
-----------------------------------------------------------------------------
LEMMA StoreBeginTurns ==
  ASSUME TypeOK, NEW t \in Threads, StoreBegin(t)
  PROVE  /\ t \in Workers /\ job[t].pc = "idle"
         /\ \E k \in Keys, e \in Entities, b \in {"count", "check"} :
              Turns(t, [Idle EXCEPT !.pc = "swap", !.key = k, !.entity = e,
                                    !.back = b, !.made = attempts + 1,
                                    !.gen = generation, !.seq = keySequence])
<1>1. PICK k \in Keys, e \in Entities, b \in {"count", "check"} :
        job' = [job EXCEPT ![t] =
                 [Idle EXCEPT !.pc = "swap", !.key = k, !.entity = e,
                              !.back = b, !.made = attempts + 1,
                              !.gen = generation, !.seq = keySequence]]
  BY DEF StoreBegin
<1> DEFINE j == [Idle EXCEPT !.pc = "swap", !.key = k, !.entity = e,
                             !.back = b, !.made = attempts + 1,
                             !.gen = generation, !.seq = keySequence]
<1>2. j \in Job
  <2>1. ASSUME NEW i \in Job, NEW n \in Nat, NEW g \in Nat, NEW s \in Nat
        PROVE  [i EXCEPT !.pc = "swap", !.key = k, !.entity = e, !.back = b,
                         !.made = n, !.gen = g, !.seq = s] \in Job
    BY DEF Job, Steps
  <2>2. attempts + 1 \in Nat /\ generation \in Nat /\ keySequence \in Nat
    BY DEF TypeOK
  <2> QED BY <2>1, <2>2, IdleType
<1> HIDE DEF j
<1>3. job' = [job EXCEPT ![t] = j]
  BY <1>1 DEF j
<1>4. Turns(t, j)
  BY <1>2, <1>3, TurnsTo DEF TypeOK
<1> QED BY <1>4 DEF j, StoreBegin, Free, At

LEMMA ReplayBeginTurns ==
  ASSUME TypeOK, NEW t \in Threads, ReplayBegin(t)
  PROVE  /\ t \in Workers /\ job[t].pc = "idle"
         /\ \E k \in Keys :
              Turns(t, [Idle EXCEPT !.pc = "hit", !.key = k, !.seen = rows[k]])
<1>1. PICK k \in Keys :
        job' = [job EXCEPT ![t] =
                 [Idle EXCEPT !.pc = "hit", !.key = k, !.seen = rows[k]]]
  BY DEF ReplayBegin, Held
<1>2. [Idle EXCEPT !.pc = "hit", !.key = k, !.seen = rows[k]] \in Job
  BY IdleType, JobMoves DEF TypeOK, Steps
<1>3. Turns(t, [Idle EXCEPT !.pc = "hit", !.key = k, !.seen = rows[k]])
  BY <1>1, <1>2, TurnsTo DEF TypeOK
<1> QED BY <1>3 DEF ReplayBegin, Free, At

LEMMA HitTurns ==
  ASSUME TypeOK, NEW t \in Threads, Hit(t)
  PROVE  /\ job[t].pc = "hit"
         /\ \E pc \in {"swap", "verdict"} :
              Turns(t, [job[t] EXCEPT !.pc = pc, !.back = "verdict"])
<1>1. PICK pc \in {"swap", "verdict"} :
        job' = [job EXCEPT ![t].pc = pc, ![t].back = "verdict"]
  BY DEF Hit
<1>2. job' = [job EXCEPT ![t] = [job[t] EXCEPT !.pc = pc, !.back = "verdict"]]
  BY <1>1, Deep DEF TypeOK
<1>3. [job[t] EXCEPT !.pc = pc, !.back = "verdict"] \in Job
  BY JobMoves DEF TypeOK, Steps
<1>4. Turns(t, [job[t] EXCEPT !.pc = pc, !.back = "verdict"])
  BY <1>2, <1>3, TurnsTo DEF TypeOK
<1> QED BY <1>4 DEF Hit, At

LEMMA ManualDeleteTurns ==
  ASSUME TypeOK, NEW t \in Threads, ManualDelete(t)
  PROVE  /\ t \in Workers /\ job[t].pc = "idle"
         /\ \E k \in Keys : Turns(t, [Idle EXCEPT !.pc = "mark", !.key = k])
<1>1. PICK k \in Keys :
        job' = [job EXCEPT ![t] = [Idle EXCEPT !.pc = "mark", !.key = k]]
  BY DEF ManualDelete
<1>2. [Idle EXCEPT !.pc = "mark", !.key = k] \in Job
  BY IdleType, JobMoves DEF Steps
<1>3. Turns(t, [Idle EXCEPT !.pc = "mark", !.key = k])
  BY <1>1, <1>2, TurnsTo DEF TypeOK
<1> QED BY <1>3 DEF ManualDelete, Free, At

LEMMA EntityFindTurns ==
  ASSUME TypeOK, NEW t \in Threads, EntityFind(t)
  PROVE  /\ t \in Workers /\ job[t].pc = "idle"
         /\ \E ks \in SUBSET Keys :
              Turns(t, [job[t] EXCEPT !.pc = "markAll", !.todo = ks,
                                      !.doomed = ks])
<1>1. PICK ks \in SUBSET Keys :
        job' = [job EXCEPT ![t].pc = "markAll", ![t].todo = ks,
                           ![t].doomed = ks]
  BY DEF EntityFind
<1>2. job' = [job EXCEPT ![t] = [job[t] EXCEPT !.pc = "markAll", !.todo = ks,
                                               !.doomed = ks]]
  BY <1>1, Deep DEF TypeOK
<1>3. [job[t] EXCEPT !.pc = "markAll", !.todo = ks, !.doomed = ks] \in Job
  BY JobMoves DEF TypeOK, Steps
<1>4. Turns(t, [job[t] EXCEPT !.pc = "markAll", !.todo = ks, !.doomed = ks])
  BY <1>2, <1>3, TurnsTo DEF TypeOK
<1> QED BY <1>4 DEF EntityFind, Free, At

LEMMA EntityMarkTurns ==
  ASSUME TypeOK, NEW t \in Threads, EntityMark(t)
  PROVE  /\ job[t].pc = "markAll"
         /\ \E k \in job[t].todo, pc \in Steps :
              /\ InvalidateKey(k)
              /\ pc = IF job[t].todo = {k} THEN "deleteAll" ELSE job[t].pc
              /\ Turns(t, [job[t] EXCEPT !.todo = job[t].todo \ {k}, !.pc = pc])
<1> DEFINE pc(k) == IF job[t].todo = {k} THEN "deleteAll" ELSE job[t].pc
<1>1. PICK k \in job[t].todo :
        /\ InvalidateKey(k)
        /\ job' = [job EXCEPT ![t].todo = job[t].todo \ {k}, ![t].pc = pc(k)]
  BY DEF EntityMark, TypeOK
<1>2. job' = [job EXCEPT ![t] =
                [job[t] EXCEPT !.todo = job[t].todo \ {k}, !.pc = pc(k)]]
  BY <1>1, Deep DEF TypeOK
<1>3. pc(k) \in Steps /\ job[t].todo \ {k} \in SUBSET Keys
  BY DEF TypeOK, Job, Steps
<1>4. [job[t] EXCEPT !.todo = job[t].todo \ {k}, !.pc = pc(k)] \in Job
  BY <1>3, JobMoves DEF TypeOK
<1>5. Turns(t, [job[t] EXCEPT !.todo = job[t].todo \ {k}, !.pc = pc(k)])
  BY <1>2, <1>4, TurnsTo DEF TypeOK
<1> QED BY <1>1, <1>3, <1>5 DEF EntityMark, At

LEMMA ScanTurns ==
  ASSUME TypeOK, NEW v \in Threads, Scan(v)
  PROVE  /\ v \in Validators /\ job[v].pc = "idle"
         /\ \E ks \in SUBSET Keys :
              Turns(v, [job[v] EXCEPT !.pc = "scan", !.todo = ks,
                                      !.scan = rows])
<1>1. PICK ks \in SUBSET Keys :
        job' = [job EXCEPT ![v].pc = "scan", ![v].todo = ks, ![v].scan = rows]
  BY DEF Scan, Held
<1>2. job' = [job EXCEPT ![v] = [job[v] EXCEPT !.pc = "scan", !.todo = ks,
                                               !.scan = rows]]
  BY <1>1, Deep DEF TypeOK
<1>3. [job[v] EXCEPT !.pc = "scan", !.todo = ks, !.scan = rows] \in Job
  BY JobMoves DEF TypeOK, Steps
<1>4. Turns(v, [job[v] EXCEPT !.pc = "scan", !.todo = ks, !.scan = rows])
  BY <1>2, <1>3, TurnsTo DEF TypeOK
<1> QED BY <1>4 DEF Scan, At

\* A verdict of the model: write back, delete, or keep the row as it is.
Verified(j, k, fix) ==
  [j EXCEPT !.todo = @ \ {k}, !.key = k, !.seen = j.scan[k],
            !.pc = "swap", !.back = "patch", !.fix = fix]
Condemned(j, k) ==
  [j EXCEPT !.todo = @ \ {k}, !.key = k, !.seen = j.scan[k],
            !.pc = "compareDelete"]
Passed(j, k) == Rest([j EXCEPT !.todo = @ \ {k}])

LEMMA VerdictTypes ==
  ASSUME NEW j \in Job, NEW k \in j.todo
  PROVE  /\ \A fix \in BOOLEAN : Verified(j, k, fix) \in Job
         /\ Condemned(j, k) \in Job
         /\ [j EXCEPT !.todo = @ \ {k}] \in Job /\ Passed(j, k) \in Job
<1>1. j.scan[k] \in Row /\ k \in Keys
  BY DEF Job
<1>2. ASSUME NEW fix \in BOOLEAN PROVE Verified(j, k, fix) \in Job
  BY <1>1 DEF Job, Verified, Steps
<1>3. Condemned(j, k) \in Job
  BY <1>1 DEF Job, Condemned, Steps
<1>4. [j EXCEPT !.todo = @ \ {k}] \in Job
  BY DEF Job
<1>5. Passed(j, k) \in Job
  BY <1>4, RestType DEF Passed
<1> QED BY <1>2, <1>3, <1>4, <1>5

LEMMA JudgeTurns ==
  ASSUME TypeOK, NEW v \in Threads, Judge(v)
  PROVE  /\ job[v].pc = "scan"
         /\ \E k \in job[v].todo :
              \/ \E fix \in BOOLEAN : Turns(v, Verified(job[v], k, fix))
              \/ Turns(v, Condemned(job[v], k))
              \/ Turns(v, Passed(job[v], k))
<1>0. job[v] \in Job /\ job \in [Threads -> Job]
  BY DEF TypeOK
<1>1. PICK k \in job[v].todo :
        \/ \E fix \in BOOLEAN :
             job' = [job EXCEPT ![v] = Verified(job[v], k, fix)]
        \/ job' = [job EXCEPT ![v] = Condemned(job[v], k)]
        \/ job' = [job EXCEPT ![v] = Passed(job[v], k)]
  <2>1. PICK k \in job[v].todo :
          \/ \E fix \in BOOLEAN :
               job' = [job EXCEPT ![v] =
                 [[job[v] EXCEPT !.todo = @ \ {k}, !.key = k,
                                 !.seen = job[v].scan[k]]
                   EXCEPT !.pc = "swap", !.back = "patch", !.fix = fix]]
          \/ job' = [job EXCEPT ![v] =
                 [[job[v] EXCEPT !.todo = @ \ {k}, !.key = k,
                                 !.seen = job[v].scan[k]]
                   EXCEPT !.pc = "compareDelete"]]
          \/ job' = [job EXCEPT ![v] =
                 IF job[v].todo \ {k} = {} THEN Idle
                 ELSE [Idle EXCEPT !.pc = "scan", !.scan = job[v].scan,
                                   !.todo = job[v].todo \ {k}]]
    BY IdleType DEF Judge, Idle
  <2>2. \A fix \in BOOLEAN :
          [[job[v] EXCEPT !.todo = @ \ {k}, !.key = k,
                          !.seen = job[v].scan[k]]
             EXCEPT !.pc = "swap", !.back = "patch", !.fix = fix]
            = Verified(job[v], k, fix)
    BY <1>0 DEF Job, Verified
  <2>3. [[job[v] EXCEPT !.todo = @ \ {k}, !.key = k,
                        !.seen = job[v].scan[k]]
           EXCEPT !.pc = "compareDelete"] = Condemned(job[v], k)
    BY <1>0 DEF Job, Condemned
  <2>4. (IF job[v].todo \ {k} = {} THEN Idle
         ELSE [Idle EXCEPT !.pc = "scan", !.scan = job[v].scan,
                           !.todo = job[v].todo \ {k}]) = Passed(job[v], k)
    BY <1>0 DEF Job, Passed, Rest
  <2> QED BY <2>1, <2>2, <2>3, <2>4
<1> QED BY <1>0, <1>1, VerdictTypes, TurnsTo DEF Judge, At

\* The other steps go on, resume what a flush interrupted, or end the call.
LEMMA PlainTurns ==
  ASSUME TypeOK, NEW t \in Threads
  PROVE  /\ Merge(t) \/ MergeFails(t) =>
              job[t].pc = "merge" /\ Turns(t, Resumed(job[t]))
         /\ ShutdownFlush(t) =>
              /\ t \in Workers /\ job[t].pc = "idle"
              /\ Turns(t, [job[t] EXCEPT !.pc = "swap"])
         /\ Trim(t) =>
              job[t].pc = "trim" /\ Turns(t, [job[t] EXCEPT !.pc = "swap"])
         /\ FlushBegin(t) =>
              /\ t \in Workers /\ job[t].pc = "idle"
              /\ Turns(t, [job[t] EXCEPT !.pc = "countAll"])
<1> DEFINE Go(s) == Turns(t, [job[t] EXCEPT !.pc = s])
<1>0. job \in [Threads -> Job]
  BY DEF TypeOK
<1>1. \A s \in Steps : Goto(t, s) => Go(s)
  BY <1>0, GotoTurns
<1>2. Resume(t) => Turns(t, Resumed(job[t]))
  BY <1>0, ResumeTurns
<1> HIDE DEF Go
<1>3. Merge(t) \/ MergeFails(t) =>
        job[t].pc = "merge" /\ Turns(t, Resumed(job[t]))
  BY <1>2 DEF Merge, MergeFails, At
<1>4. ShutdownFlush(t) => t \in Workers /\ job[t].pc = "idle" /\ Go("swap")
  BY <1>1 DEF ShutdownFlush, Free, At, Steps, Goto
<1>5. Trim(t) => job[t].pc = "trim" /\ Go("swap")
  BY <1>1 DEF Trim, At, Steps
<1>6. FlushBegin(t) => t \in Workers /\ job[t].pc = "idle" /\ Go("countAll")
  BY <1>1 DEF FlushBegin, Free, At, Steps
<1> QED BY <1>3, <1>4, <1>5, <1>6 DEF Go

LEMMA EndingTurns ==
  ASSUME TypeOK, NEW t \in Threads
  PROVE  /\ Check(t) => /\ job[t].pc = "check"
                        /\ \/ Turns(t, [job[t] EXCEPT !.pc = "upsert"])
                           \/ Turns(t, Rest(job[t]))
         /\ Upsert(t) => job[t].pc = "upsert" /\ Turns(t, Rest(job[t]))
         /\ Verdict(t) \/ Probe(t) \/ Execute(t) =>
              /\ job[t].pc \in {"verdict", "probe", "execute"}
              /\ \/ \E s \in {"mark", "probe", "execute"} :
                      Turns(t, [job[t] EXCEPT !.pc = s])
                 \/ Turns(t, Rest(job[t]))
         /\ Mark(t) =>
              /\ job[t].pc = "mark"
              /\ \/ t \in Validators /\ Turns(t, Rest(job[t]))
                 \/ /\ t \notin Validators
                    /\ Turns(t, [job[t] EXCEPT !.pc = "delete"])
         /\ Delete(t) \/ EntityDelete(t) \/ Wipe(t) =>
              /\ job[t].pc \in {"delete", "deleteAll", "wipe"}
              /\ Turns(t, Rest(job[t]))
         /\ FlushCount(t) =>
              /\ job[t].pc = "countAll"
              /\ \/ Turns(t, [job[t] EXCEPT !.pc = "wipe"])
                 \/ Turns(t, Rest(job[t]))
         /\ Patch(t) => job[t].pc = "patch" /\ Turns(t, Rest(job[t]))
         /\ CompareDelete(t) =>
              /\ job[t].pc = "compareDelete"
              /\ \/ Turns(t, [job[t] EXCEPT !.pc = "mark"])
                 \/ Turns(t, Rest(job[t]))
<1> DEFINE Go(s) == Turns(t, [job[t] EXCEPT !.pc = s])
           Ends == Turns(t, Rest(job[t]))
<1>0. job \in [Threads -> Job]
  BY DEF TypeOK
<1>1. \A s \in Steps : Goto(t, s) => Go(s)
  BY <1>0, GotoTurns
<1>2. Done(t) => Ends
  BY <1>0, DoneTurns
<1> HIDE DEF Go, Ends
<1>3. Check(t) => job[t].pc = "check" /\ (Go("upsert") \/ Ends)
  BY <1>1, <1>2 DEF Check, At, Steps
<1>4. Upsert(t) => job[t].pc = "upsert" /\ Ends
  BY <1>2 DEF Upsert, At
<1>5. Verdict(t) \/ Probe(t) \/ Execute(t) =>
        /\ job[t].pc \in {"verdict", "probe", "execute"}
        /\ (\E s \in {"mark", "probe", "execute"} : Go(s)) \/ Ends
  BY <1>1, <1>2 DEF Verdict, Probe, Execute, At, Steps
<1>6. Mark(t) => /\ job[t].pc = "mark"
                 /\ \/ t \in Validators /\ Ends
                    \/ t \notin Validators /\ Go("delete")
  BY <1>1, <1>2 DEF Mark, At, Steps
<1>7. Delete(t) \/ EntityDelete(t) \/ Wipe(t) =>
        job[t].pc \in {"delete", "deleteAll", "wipe"} /\ Ends
  BY <1>2 DEF Delete, EntityDelete, Wipe, At
<1>8. FlushCount(t) => job[t].pc = "countAll" /\ (Go("wipe") \/ Ends)
  BY <1>1, <1>2 DEF FlushCount, At, Steps
<1>9. Patch(t) => job[t].pc = "patch" /\ Ends
  BY <1>2 DEF Patch, At
<1>10. CompareDelete(t) => job[t].pc = "compareDelete" /\ (Go("mark") \/ Ends)
  BY <1>1, <1>2 DEF CompareDelete, At, Steps
<1> QED
  BY <1>3, <1>4, <1>5, <1>6, <1>7, <1>8, <1>9, <1>10 DEF Go, Ends
-----------------------------------------------------------------------------
(* A thread's job, seen from its step.  A job that carries a number is a    *)
(* store between its token and its upsert; a validator's is its scan; and   *)
(* an idle thread carries nothing.                                          *)
StoreSteps == {"count", "trim", "check", "upsert"}
ScanSteps == {"scan", "patch", "compareDelete"}
Flushing == {"swap", "merge"}

InStore(j) ==
  \/ j.pc \in StoreSteps
  \/ j.pc \in Flushing /\ j.back \in {"count", "check"}

NeedsKey(j) ==
  \/ j.pc \in {"hit", "verdict", "probe", "execute", "mark", "delete",
               "patch", "compareDelete"}
  \/ j.pc \in Flushing /\ j.back \in {"verdict", "patch"}

WorkerShape(j) ==
  /\ j.pc \notin ScanSteps /\ j.back # "patch"
  /\ j.pc # "markAll" => j.todo = {}

ValidatorShape(j) ==
  /\ j.pc \in ScanSteps \cup Flushing \cup {"idle", "mark"}
  /\ j.pc \in Flushing \cup {"patch"} => j.back = "patch"

Shape(j) ==
  /\ j.back \in {"idle", "count", "check", "verdict", "patch"}
  /\ j.pc = "idle" => j = Idle
  /\ j.pc = "count" => j.back = "count"
  /\ j.pc \in {"trim", "check", "upsert"} => j.back = "check"
  /\ j.made > 0 <=> InStore(j)
  /\ InStore(j) => j.todo = {} /\ j.key \in Keys /\ j.entity \in Entities
  /\ NeedsKey(j) => j.key \in Keys

Proper(t, j) ==
  /\ Shape(j)
  /\ t \in Workers => WorkerShape(j)
  /\ t \in Validators => ValidatorShape(j)

JobShape(t) == Proper(t, job[t])

LEMMA RestShape ==
  ASSUME NEW j \in Job, NEW t \in Threads,
         t \in Workers => j.todo = {}
  PROVE  Proper(t, Rest(j))
<1>1. CASE j.todo = {}
  BY <1>1 DEF Rest, Idle, Proper, Shape, WorkerShape, ValidatorShape, InStore,
     NeedsKey, StoreSteps, ScanSteps, Flushing
<1>2. CASE j.todo # {}
  <2> DEFINE k == [Idle EXCEPT !.pc = "scan", !.scan = j.scan, !.todo = j.todo]
  <2>1. Rest(j) = k
    BY <1>2 DEF Rest
  <2>2. k.pc = "scan" /\ k.back = "idle" /\ k.made = 0
    BY DEF Idle
  <2> HIDE DEF k
  <2> QED BY <1>2, <2>1, <2>2 DEF Proper, Shape, WorkerShape, ValidatorShape,
          InStore, NeedsKey, StoreSteps, ScanSteps, Flushing, Threads
<1> QED BY <1>1, <1>2

LEMMA ResumedShape ==
  ASSUME NEW t \in Threads, NEW j \in Job, Proper(t, j), j.pc \in Flushing
  PROVE  Proper(t, Resumed(j))
<1>1. CASE j.back = "idle"
  <2>1. t \in Workers => j.todo = {}
    BY DEF WorkerShape, Flushing, Proper
  <2> QED BY <1>1, <2>1, RestShape DEF Resumed
<1>2. CASE j.back # "idle"
  <2> DEFINE k == [j EXCEPT !.pc = j.back, !.batch = None]
  <2>1. /\ k.pc = j.back /\ k.back = j.back /\ k.made = j.made
        /\ k.key = j.key /\ k.entity = j.entity /\ k.todo = j.todo
    BY DEF Job
  <2> HIDE DEF k
  <2>2. Shape(k)
    BY <1>2, <2>1 DEF Shape, InStore, NeedsKey, StoreSteps, Flushing, Proper
  <2>3. t \in Workers => WorkerShape(k)
    BY <1>2, <2>1 DEF Shape, WorkerShape, ScanSteps, Flushing, Proper
  <2>4. t \in Validators => ValidatorShape(k)
    BY <1>2, <2>1 DEF Shape, ValidatorShape, ScanSteps, Flushing, Proper
  <2> QED BY <1>2, <2>2, <2>3, <2>4 DEF Resumed, k, Proper
<1> QED BY <1>1, <1>2

\* What a job may go on to, and keep its shape.
LEMMA GoneShape ==
  ASSUME NEW t \in Threads, NEW j \in Job, Proper(t, j)
  PROVE  /\ j.pc = "swap" =>
              \A b : Proper(t, [j EXCEPT !.pc = "merge", !.batch = b])
         /\ j.pc \in {"idle", "trim"} /\ t \in Workers =>
              Proper(t, [j EXCEPT !.pc = "swap"])
         /\ j.pc = "idle" /\ t \in Workers =>
              Proper(t, [j EXCEPT !.pc = "countAll"])
         /\ j.pc = "countAll" => Proper(t, [j EXCEPT !.pc = "wipe"])
         /\ j.pc = "check" => Proper(t, [j EXCEPT !.pc = "upsert"])
         /\ j.pc \in {"verdict", "probe", "execute"} =>
              \A s \in {"mark", "probe", "execute"} :
                Proper(t, [j EXCEPT !.pc = s])
         /\ j.pc = "mark" /\ t \notin Validators =>
              Proper(t, [j EXCEPT !.pc = "delete"])
         /\ j.pc = "compareDelete" => Proper(t, [j EXCEPT !.pc = "mark"])
<1> USE DEF Proper, Shape, WorkerShape, ValidatorShape, InStore, NeedsKey,
        StoreSteps, ScanSteps, Flushing, Job, Threads
<1>1. j.pc = "swap" => \A b : Proper(t, [j EXCEPT !.pc = "merge", !.batch = b])
  OBVIOUS
<1>2. j.pc \in {"idle", "trim"} /\ t \in Workers =>
        Proper(t, [j EXCEPT !.pc = "swap"])
  BY SetsAssumption DEF Idle
<1>3. j.pc = "idle" /\ t \in Workers => Proper(t, [j EXCEPT !.pc = "countAll"])
  BY SetsAssumption DEF Idle
<1>4. j.pc = "countAll" => Proper(t, [j EXCEPT !.pc = "wipe"])
  OBVIOUS
<1>5. j.pc = "check" => Proper(t, [j EXCEPT !.pc = "upsert"])
  OBVIOUS
<1>6. ASSUME j.pc \in {"verdict", "probe", "execute"},
             NEW s \in {"mark", "probe", "execute"}
      PROVE  Proper(t, [j EXCEPT !.pc = s])
  BY <1>6
<1>7. j.pc = "mark" /\ t \notin Validators =>
        Proper(t, [j EXCEPT !.pc = "delete"])
  OBVIOUS
<1>8. j.pc = "compareDelete" => Proper(t, [j EXCEPT !.pc = "mark"])
  OBVIOUS
<1> QED BY <1>1, <1>2, <1>3, <1>4, <1>5, <1>6, <1>7, <1>8
-----------------------------------------------------------------------------
\* The shapes are kept if the new job of the thread that moves has one.
LEMMA ShapesKept ==
  ASSUME \A u \in Threads : JobShape(u), NEW t \in Threads, NEW j,
         Turns(t, j), Proper(t, j)
  PROVE  (\A u \in Threads : JobShape(u))'
  BY DEF Turns, JobShape

\* A new store, and the other jobs a worker takes up.
LEMMA BegunShape ==
  ASSUME NEW t \in Workers, NEW k \in Keys
  PROVE  /\ \A e \in Entities, b \in {"count", "check"}, n \in Nat : \A g, s :
              Proper(t, [Idle EXCEPT !.pc = "swap", !.key = k, !.entity = e,
                           !.back = b, !.made = n + 1, !.gen = g, !.seq = s])
         /\ \A r : Proper(t, [Idle EXCEPT !.pc = "hit", !.key = k, !.seen = r])
         /\ Proper(t, [Idle EXCEPT !.pc = "mark", !.key = k])
  BY SetsAssumption
     DEF Idle, Proper, Shape, WorkerShape, ValidatorShape, InStore, NeedsKey,
         StoreSteps, ScanSteps, Flushing

LEMMA ShapesInductive ==
  ASSUME TypeOK, \A u \in Threads : JobShape(u), NEW t \in Threads,
         ThreadStep(t)
  PROVE  (\A u \in Threads : JobShape(u))'
<1> DEFINE j == job[t]
<1>0. /\ j \in Job /\ Proper(t, j)
      /\ ~(t \in Workers /\ t \in Validators)
      /\ t \in Workers \/ t \in Validators
      /\ attempts \in Nat
  BY SetsAssumption DEF TypeOK, JobShape, Threads
<1> HIDE DEF j
<1>a. ASSUME Turns(t, Rest(j)), t \in Workers => j.todo = {}
      PROVE  (\A u \in Threads : JobShape(u))'
  BY <1>a, <1>0, RestShape, ShapesKept
<1>b. ASSUME Turns(t, Resumed(j)), j.pc \in Flushing
      PROVE  (\A u \in Threads : JobShape(u))'
  BY <1>b, <1>0, ResumedShape, ShapesKept
<1>c. ASSUME NEW k, Turns(t, k), Proper(t, k)
      PROVE  (\A u \in Threads : JobShape(u))'
  BY <1>c, ShapesKept
<1>d. t \in Workers /\ j.pc # "markAll" => j.todo = {}
  BY <1>0 DEF Proper, WorkerShape
<1>e. t \in Validators => j.pc \in ScanSteps \cup Flushing \cup {"idle", "mark"}
  BY <1>0 DEF Proper, ValidatorShape
<1>1. CASE Swap(t)
  <2>1. /\ j.pc = "swap"
        /\ \/ Turns(t, Resumed(j))
           \/ Turns(t, [j EXCEPT !.pc = "merge", !.batch = pending])
    BY <1>1, SwapTurns DEF j
  <2>2. Proper(t, [j EXCEPT !.pc = "merge", !.batch = pending])
    BY <1>0, <2>1, GoneShape
  <2> QED BY <1>b, <1>c, <2>1, <2>2 DEF Flushing
<1>2. CASE Merge(t) \/ MergeFails(t)
  BY <1>2, <1>b, PlainTurns DEF j, Flushing
<1>3. CASE ShutdownFlush(t) \/ Trim(t)
  <2>1. j.pc \in {"idle", "trim"} /\ Turns(t, [j EXCEPT !.pc = "swap"])
    BY <1>3, PlainTurns DEF j
  <2>2. t \in Workers
    BY <1>3, <1>0, <1>e, PlainTurns DEF j, ScanSteps, Flushing
  <2> QED BY <1>0, <1>c, <2>1, <2>2, GoneShape
<1>4. CASE StoreBegin(t)
  <2>1. PICK k \in Keys, e \in Entities, b \in {"count", "check"} :
          Turns(t, [Idle EXCEPT !.pc = "swap", !.key = k, !.entity = e,
                                !.back = b, !.made = attempts + 1,
                                !.gen = generation, !.seq = keySequence])
    BY <1>4, StoreBeginTurns
  <2>2. t \in Workers
    BY <1>4, StoreBeginTurns
  <2>3. Proper(t, [Idle EXCEPT !.pc = "swap", !.key = k, !.entity = e,
                               !.back = b, !.made = attempts + 1,
                               !.gen = generation, !.seq = keySequence])
    BY <1>0, <2>2, BegunShape
  <2> QED BY <1>c, <2>1, <2>3
<1>5. CASE Count(t)
  <2>1. PICK pc \in {"trim", "swap"}, n \in Nat :
          Turns(t, [j EXCEPT !.pc = pc, !.back = "check", !.over = n])
    BY <1>5, CountTurns DEF j
  <2>2. j.pc = "count" /\ j.made > 0 /\ InStore(j) /\ t \in Workers
    BY <1>5, <1>0, <1>e, CountTurns DEF j, Proper, Shape, InStore, StoreSteps,
       ScanSteps, Flushing
  <2> DEFINE k == [j EXCEPT !.pc = pc, !.back = "check", !.over = n]
  <2>3. /\ k.pc = pc /\ k.back = "check" /\ k.made = j.made /\ k.key = j.key
        /\ k.entity = j.entity /\ k.todo = j.todo
    BY <1>0 DEF Job
  <2> HIDE DEF k
  <2>4. Shape(k)
    BY <1>0, <2>2, <2>3 DEF Proper, Shape, InStore, NeedsKey, StoreSteps,
       Flushing
  <2>5. WorkerShape(k)
    BY <1>0, <2>2, <2>3 DEF Proper, Shape, WorkerShape, ScanSteps
  <2>6. Proper(t, k)
    BY <1>0, <2>2, <2>4, <2>5 DEF Proper
  <2> QED BY <1>c, <2>1, <2>6 DEF k
<1>6. CASE Check(t)
  <2>1. /\ j.pc = "check"
        /\ Turns(t, [j EXCEPT !.pc = "upsert"]) \/ Turns(t, Rest(j))
    BY <1>6, EndingTurns DEF j
  <2> QED BY <1>0, <1>a, <1>c, <1>d, <2>1, GoneShape
<1>7. CASE Upsert(t) \/ Delete(t) \/ EntityDelete(t) \/ Wipe(t) \/ Patch(t)
  <2>1. /\ j.pc \in {"upsert", "delete", "deleteAll", "wipe", "patch"}
        /\ Turns(t, Rest(j))
    BY <1>7, EndingTurns DEF j
  <2> QED BY <1>a, <1>d, <2>1
<1>8. CASE ReplayBegin(t)
  <2>1. PICK k \in Keys :
          Turns(t, [Idle EXCEPT !.pc = "hit", !.key = k, !.seen = rows[k]])
    BY <1>8, ReplayBeginTurns
  <2>2. Proper(t, [Idle EXCEPT !.pc = "hit", !.key = k, !.seen = rows[k]])
    BY <1>8, ReplayBeginTurns, BegunShape
  <2> QED BY <1>c, <2>1, <2>2
<1>9. CASE Hit(t)
  <2>1. PICK pc \in {"swap", "verdict"} :
          Turns(t, [j EXCEPT !.pc = pc, !.back = "verdict"])
    BY <1>9, HitTurns DEF j
  <2>2. j.pc = "hit" /\ t \in Workers
    BY <1>9, <1>0, <1>e, HitTurns DEF j, ScanSteps, Flushing
  <2> DEFINE k == [j EXCEPT !.pc = pc, !.back = "verdict"]
  <2>3. /\ k.pc = pc /\ k.back = "verdict" /\ k.made = j.made /\ k.key = j.key
        /\ k.entity = j.entity /\ k.todo = j.todo
    BY <1>0 DEF Job
  <2> HIDE DEF k
  <2>4. Shape(k) /\ WorkerShape(k)
    BY <1>0, <2>2, <2>3 DEF Proper, Shape, WorkerShape, InStore, NeedsKey,
       StoreSteps, ScanSteps, Flushing
  <2>5. Proper(t, k)
    BY <1>0, <2>2, <2>4 DEF Proper
  <2> QED BY <1>c, <2>1, <2>5 DEF k
<1>10. CASE Verdict(t) \/ Probe(t) \/ Execute(t)
  <2>1. /\ j.pc \in {"verdict", "probe", "execute"}
        /\ \/ \E s \in {"mark", "probe", "execute"} :
                Turns(t, [j EXCEPT !.pc = s])
           \/ Turns(t, Rest(j))
    BY <1>10, EndingTurns DEF j
  <2>2. \A s \in {"mark", "probe", "execute"} : Proper(t, [j EXCEPT !.pc = s])
    BY <1>0, <2>1, GoneShape
  <2> QED BY <1>a, <1>c, <1>d, <2>1, <2>2
<1>11. CASE ManualDelete(t)
  <2>1. PICK k \in Keys : Turns(t, [Idle EXCEPT !.pc = "mark", !.key = k])
    BY <1>11, ManualDeleteTurns
  <2>2. Proper(t, [Idle EXCEPT !.pc = "mark", !.key = k])
    BY <1>11, ManualDeleteTurns, BegunShape
  <2> QED BY <1>c, <2>1, <2>2
<1>12. CASE Mark(t)
  <2>1. /\ j.pc = "mark"
        /\ \/ t \in Validators /\ Turns(t, Rest(j))
           \/ t \notin Validators /\ Turns(t, [j EXCEPT !.pc = "delete"])
    BY <1>12, EndingTurns DEF j
  <2> QED BY <1>0, <1>a, <1>c, <1>d, <2>1, GoneShape
<1>13. CASE EntityFind(t)
  <2>1. PICK ks \in SUBSET Keys :
          Turns(t, [j EXCEPT !.pc = "markAll", !.todo = ks, !.doomed = ks])
    BY <1>13, EntityFindTurns DEF j
  <2>2. t \in Workers /\ j = Idle
    BY <1>13, <1>0, EntityFindTurns DEF j, Proper, Shape
  <2>3. Proper(t, [Idle EXCEPT !.pc = "markAll", !.todo = ks, !.doomed = ks])
    BY <1>0, <2>2 DEF Idle, Proper, Shape, WorkerShape, InStore, NeedsKey,
       StoreSteps, ScanSteps, Flushing
  <2> QED BY <1>c, <2>1, <2>2, <2>3
<1>14. CASE EntityMark(t)
  <2>1. PICK k \in j.todo, pc \in {"markAll", "deleteAll"} :
          /\ pc = IF j.todo = {k} THEN "deleteAll" ELSE "markAll"
          /\ Turns(t, [j EXCEPT !.todo = j.todo \ {k}, !.pc = pc])
    BY <1>14, EntityMarkTurns DEF j
  <2>2. j.pc = "markAll" /\ t \in Workers
    BY <1>14, <1>0, <1>e, EntityMarkTurns DEF j, ScanSteps, Flushing
  <2> DEFINE k1 == [j EXCEPT !.todo = j.todo \ {k}, !.pc = pc]
  <2>3. /\ k1.pc = pc /\ k1.back = j.back /\ k1.made = j.made
        /\ k1.key = j.key /\ k1.entity = j.entity /\ k1.todo = j.todo \ {k}
    BY <1>0 DEF Job
  <2> HIDE DEF k1
  <2>4. Shape(k1)
    BY <1>0, <2>1, <2>2, <2>3 DEF Proper, Shape, InStore, NeedsKey,
       StoreSteps, Flushing
  <2>5. WorkerShape(k1)
    BY <1>0, <2>1, <2>2, <2>3 DEF Proper, WorkerShape, ScanSteps
  <2>6. Proper(t, k1)
    BY <1>0, <2>2, <2>4, <2>5 DEF Proper
  <2> QED BY <1>c, <2>1, <2>6 DEF k1
<1>15. CASE FlushBegin(t)
  <2>1. /\ j.pc = "idle" /\ t \in Workers
        /\ Turns(t, [j EXCEPT !.pc = "countAll"])
    BY <1>15, PlainTurns DEF j
  <2> QED BY <1>0, <1>c, <2>1, GoneShape
<1>16. CASE FlushCount(t)
  <2>1. /\ j.pc = "countAll"
        /\ Turns(t, [j EXCEPT !.pc = "wipe"]) \/ Turns(t, Rest(j))
    BY <1>16, EndingTurns DEF j
  <2> QED BY <1>0, <1>a, <1>c, <1>d, <2>1, GoneShape
<1>17. CASE Scan(t)
  <2>1. PICK ks \in SUBSET Keys :
          Turns(t, [j EXCEPT !.pc = "scan", !.todo = ks, !.scan = rows])
    BY <1>17, ScanTurns DEF j
  <2>2. t \in Validators /\ j = Idle
    BY <1>17, <1>0, ScanTurns DEF j, Proper, Shape
  <2>3. Proper(t, [Idle EXCEPT !.pc = "scan", !.todo = ks, !.scan = rows])
    BY <1>0, <2>2 DEF Idle, Proper, Shape, ValidatorShape, InStore, NeedsKey,
       StoreSteps, ScanSteps, Flushing
  <2> QED BY <1>c, <2>1, <2>2, <2>3
<1>18. CASE Judge(t)
  <2>1. PICK k \in j.todo :
          \/ \E fix \in BOOLEAN : Turns(t, Verified(j, k, fix))
          \/ Turns(t, Condemned(j, k))
          \/ Turns(t, Passed(j, k))
    BY <1>18, JudgeTurns DEF j
  <2>2. /\ j.pc = "scan" /\ t \in Validators /\ k \in Keys
        /\ t \notin Workers /\ j.made = 0
    BY <1>18, <1>0, <2>1, JudgeTurns DEF j, Proper, WorkerShape, ScanSteps,
       Job, Shape, InStore, StoreSteps, Flushing
  <2>3. ASSUME NEW fix \in BOOLEAN PROVE Proper(t, Verified(j, k, fix))
    BY <1>0, <2>2 DEF Verified, Job, Proper, Shape, ValidatorShape, InStore,
       NeedsKey, StoreSteps, ScanSteps, Flushing
  <2>4. Proper(t, Condemned(j, k))
    BY <1>0, <2>2 DEF Condemned, Job, Proper, Shape, ValidatorShape, InStore,
       NeedsKey, StoreSteps, ScanSteps, Flushing
  <2>5. Proper(t, Passed(j, k))
    BY <1>0, <2>1, <2>2, VerdictTypes, RestShape DEF Passed
  <2> QED BY <1>c, <2>1, <2>3, <2>4, <2>5
<1>19. CASE CompareDelete(t)
  <2>1. /\ j.pc = "compareDelete"
        /\ Turns(t, [j EXCEPT !.pc = "mark"]) \/ Turns(t, Rest(j))
    BY <1>19, EndingTurns DEF j
  <2> QED BY <1>0, <1>a, <1>c, <1>d, <2>1, GoneShape
<1> QED
  BY <1>1, <1>2, <1>3, <1>4, <1>5, <1>6, <1>7, <1>8, <1>9, <1>10, <1>11,
     <1>12, <1>13, <1>14, <1>15, <1>16, <1>17, <1>18, <1>19 DEF ThreadStep
-----------------------------------------------------------------------------
(* Type correctness.                                                       *)

LEMMA JobTyped ==
  ASSUME TypeOK, NEW t \in Threads, ThreadStep(t)
  PROVE  job' \in [Threads -> Job]
<1> DEFINE Typed == job' \in [Threads -> Job]
<1>0. \A j : Turns(t, j) => Typed
  BY DEF Turns
<1> HIDE DEF Typed
<1>1. Swap(t) \/ StoreBegin(t) \/ Count(t) \/ ReplayBegin(t) \/ Hit(t) => Typed
  BY <1>0, SwapTurns, StoreBeginTurns, CountTurns, ReplayBeginTurns, HitTurns
<1>2. ManualDelete(t) \/ EntityFind(t) \/ EntityMark(t) => Typed
  BY <1>0, ManualDeleteTurns, EntityFindTurns, EntityMarkTurns
<1>3. Scan(t) \/ Judge(t) => Typed
  BY <1>0, ScanTurns, JudgeTurns
<1>4. Merge(t) \/ MergeFails(t) \/ ShutdownFlush(t) \/ Trim(t) \/ FlushBegin(t)
        => Typed
  BY <1>0, PlainTurns
<1>5. ASSUME \/ Check(t) \/ Upsert(t) \/ Verdict(t) \/ Probe(t) \/ Execute(t)
             \/ Mark(t) \/ Delete(t) \/ EntityDelete(t) \/ Wipe(t)
             \/ FlushCount(t) \/ Patch(t) \/ CompareDelete(t)
      PROVE  Typed
  <2>1. Check(t) \/ Upsert(t) \/ Mark(t) => Typed
    BY <1>0, EndingTurns
  <2>2. Verdict(t) \/ Probe(t) \/ Execute(t) => Typed
    <3>1. Verdict(t) \/ Probe(t) \/ Execute(t) =>
            \/ \E s : Turns(t, [job[t] EXCEPT !.pc = s])
            \/ Turns(t, Rest(job[t]))
      BY EndingTurns
    <3> QED BY <1>0, <3>1
  <2>3. Delete(t) \/ EntityDelete(t) \/ Wipe(t) \/ FlushCount(t) => Typed
    BY <1>0, EndingTurns
  <2>4. Patch(t) \/ CompareDelete(t) => Typed
    BY <1>0, EndingTurns
  <2> QED BY <1>5, <2>1, <2>2, <2>3, <2>4
<1>6. Typed
  BY <1>1, <1>2, <1>3, <1>4, <1>5 DEF ThreadStep
<1> QED BY <1>6 DEF Typed

\* What the history holds of an invalidation: the stores it is meant for.
LEMMA Voids ==
  /\ \A k : InvalidateKey(k) =>
       voided' = [u \in Threads |-> IF Storing(u) /\ job[u].key = k
                                   THEN voided[u] \cup {"key"} ELSE voided[u]]
  /\ \A t : FlushBegin(t) =>
       voided' = [u \in Threads |-> IF Storing(u)
                                   THEN voided[u] \cup {"tier"} ELSE voided[u]]
  BY DEF InvalidateKey, FlushBegin, Void

LEMMA VoidType ==
  ASSUME voided \in [Threads -> SUBSET {"key", "tier"}]
  PROVE  /\ (\E k : InvalidateKey(k)) \/ (\E t : FlushBegin(t)) =>
              voided' \in [Threads -> SUBSET {"key", "tier"}]
         /\ \A t \in Threads : Settled(t) =>
              voided' \in [Threads -> SUBSET {"key", "tier"}]
<1>1. ASSUME NEW k, InvalidateKey(k)
      PROVE  voided' \in [Threads -> SUBSET {"key", "tier"}]
  BY <1>1, Voids
<1>2. ASSUME NEW t, FlushBegin(t)
      PROVE  voided' \in [Threads -> SUBSET {"key", "tier"}]
  BY <1>2, Voids
<1> QED BY <1>1, <1>2 DEF Settled

LEMMA InvalidateKeyType ==
  ASSUME TypeOK, NEW k \in Keys, InvalidateKey(k)
  PROVE  /\ pending' \in [Keys -> Row] /\ generation' \in Nat
         /\ keySequence' \in Nat /\ keyMarks' \in [Keys -> Nat]
         /\ hitsSinceFlush' \in Nat
         /\ voided' \in [Threads -> SUBSET {"key", "tier"}]
<1>1. keyMarks' \in [Keys -> Nat]
  <2> DEFINE marks == [keyMarks EXCEPT ![k] = keySequence + 1]
  <2>1. marks \in [Keys -> Nat]
    BY DEF TypeOK
  <2> HIDE DEF marks
  <2>2. \A o : [marks EXCEPT ![o] = 0] \in [Keys -> Nat]
    BY <2>1
  <2>3. \/ keyMarks' = marks
        \/ keyMarks' = [marks EXCEPT ![Oldest(marks)] = 0]
    BY DEF InvalidateKey, Marked, marks
  <2> QED BY <2>1, <2>2, <2>3
<1>2. pending' \in [Keys -> Row]
  BY RowTypes DEF InvalidateKey, TypeOK
<1>3. voided' \in [Threads -> SUBSET {"key", "tier"}]
  BY VoidType DEF TypeOK
<1> QED BY <1>1, <1>2, <1>3 DEF InvalidateKey, TypeOK

LEMMA MergedType ==
  ASSUME NEW k \in Keys, rows[k] \in Row, NEW hit \in Row
  PROVE  Merged(k, hit) \in Row
  BY DEF Merged, Row

\* What the history holds of the rows that validators write back: the one
\* that t writes is added for every other validator; a scan of t starts anew.
LEMMA RivalsAt ==
  ASSUME TypeOK, NEW t \in Threads, JobShape(t), ThreadStep(t)
  PROVE  /\ rivals' \in [Validators -> SUBSET Keys]
         /\ \A v \in Validators \ {t} : rivals[v] \subseteq rivals'[v]
         /\ \A v \in Validators \ {t} :
              At(t, "patch") /\ Matches(t) => job[t].key \in rivals'[v]
         /\ t \in Validators /\ ~At(t, "idle") => rivals'[t] = rivals[t]
<1> USE DEF history
<1>0. rivals \in [Validators -> SUBSET Keys]
  BY DEF TypeOK
<1>1. CASE Scan(t)
  <2>1. t \in Validators /\ At(t, "idle") /\ ~At(t, "patch")
    BY <1>1 DEF Scan, At
  <2>2. rivals' = [rivals EXCEPT ![t] = {}]
    BY <1>1 DEF Scan
  <2> QED BY <1>0, <2>1, <2>2
<1>2. CASE Patch(t)
  <2>1. job[t].key \in Keys /\ At(t, "patch") /\ ~At(t, "idle")
    BY <1>2 DEF Patch, At, JobShape, Proper, Shape, NeedsKey
  <2>2. rivals' = [u \in Validators |->
                     IF u = t \/ ~Matches(t) THEN rivals[u]
                     ELSE rivals[u] \cup {job[t].key}]
    BY <1>2 DEF Patch
  <2> QED BY <1>0, <2>1, <2>2
<1>3. CASE /\ UNCHANGED rivals /\ ~At(t, "patch")
  BY <1>0, <1>3
<1>4. (UNCHANGED rivals /\ ~At(t, "patch")) \/ Scan(t) \/ Patch(t)
  <2>1. CASE \/ Swap(t) \/ Merge(t) \/ MergeFails(t) \/ ShutdownFlush(t)
             \/ StoreBegin(t) \/ Count(t) \/ Trim(t) \/ Check(t) \/ Upsert(t)
             \/ ReplayBegin(t) \/ Hit(t) \/ Verdict(t) \/ Probe(t)
             \/ Execute(t)
    BY <2>1 DEF Swap, Merge, MergeFails, ShutdownFlush, StoreBegin, Count,
       Trim, Check, Upsert, ReplayBegin, Hit, Verdict, Probe, Execute, Free, At
  <2>2. CASE \/ ManualDelete(t) \/ Mark(t) \/ Delete(t) \/ EntityFind(t)
             \/ EntityMark(t) \/ EntityDelete(t) \/ FlushBegin(t)
             \/ FlushCount(t) \/ Wipe(t) \/ Judge(t) \/ CompareDelete(t)
    BY <2>2 DEF ManualDelete, Mark, Delete, EntityFind, EntityMark,
       EntityDelete, FlushBegin, FlushCount, Wipe, Judge, CompareDelete, Free,
       At
  <2> QED BY <2>1, <2>2 DEF ThreadStep
<1> QED BY <1>1, <1>2, <1>3, <1>4

LEMMA TypeOKInductive ==
  ASSUME TypeOK, \A t \in Threads : JobShape(t), [Next]_vars
  PROVE  TypeOK'
<1> USE DEF cacheState, world, history
<1>1. ASSUME NEW t \in Threads, ThreadStep(t)
      PROVE  TypeOK'
  <2> DEFINE j == job[t]
  <2>0. /\ j \in Job /\ JobShape(t) /\ job' \in [Threads -> Job]
        /\ rows \in [Keys -> Row] /\ pending \in [Keys -> Row]
        /\ rivals' \in [Validators -> SUBSET Keys]
    BY <1>1, JobTyped, RivalsAt DEF TypeOK
  <2> HIDE DEF j
  <2>k. NeedsKey(j) \/ InStore(j) => j.key \in Keys
    BY <2>0 DEF JobShape, Proper, Shape, j
  <2>s. j.pc = "upsert" => j.entity \in Entities /\ j.made \in Nat
    BY <2>0 DEF JobShape, Proper, Shape, j, InStore, StoreSteps, Job
  <2>1. CASE Swap(t)
    BY <2>1, <2>0, RowTypes DEF Swap, TypeOK
  <2>2. CASE Merge(t)
    <3>1. \A k \in Keys : job[t].batch[k] \in Row
      BY <2>0 DEF Job, j
    <3>2. rows' \in [Keys -> Row]
      BY <2>0, <2>2, <3>1, MergedType DEF Merge
    <3> QED BY <2>2, <2>0, <3>2 DEF Merge, TypeOK
  <2>3. CASE MergeFails(t)
    <3>1. \A k \in Keys : job[t].batch[k] \in Row
      BY <2>0 DEF Job, j
    <3>2. pending' \in [Keys -> Row]
      BY <2>0, <2>3, <3>1 DEF MergeFails
    <3> QED BY <2>3, <2>0, <3>2 DEF MergeFails, TypeOK
  <2>4. CASE ShutdownFlush(t)
    BY <2>4, <2>0 DEF ShutdownFlush, TypeOK
  <2>5. CASE StoreBegin(t)
    <3>1. storeCount' \in 0..EvictionInterval - 1 /\ attempts' \in Nat
      BY <2>5, NumbersAssumption DEF StoreBegin, TypeOK
    <3> QED BY <2>5, <2>0, <3>1 DEF StoreBegin, TypeOK
  <2>6. CASE Count(t) \/ ReplayBegin(t) \/ Verdict(t) \/ Probe(t)
             \/ Execute(t) \/ ManualDelete(t) \/ EntityFind(t)
             \/ FlushCount(t) \/ Scan(t) \/ Judge(t)
    BY <2>6, <2>0 DEF Count, ReplayBegin, Verdict, Probe, Execute,
       ManualDelete, EntityFind, FlushCount, Scan, Judge, TypeOK
  <2>7. CASE Trim(t)
    <3>1. rows' \in [Keys -> Row]
      BY <2>0, <2>7, WithoutType DEF Trim
    <3> QED BY <2>7, <2>0, <3>1 DEF Trim, TypeOK
  <2>8. CASE Check(t)
    <3>1. voided' \in [Threads -> SUBSET {"key", "tier"}]
      BY <2>8, VoidType DEF Check, TypeOK
    <3> QED BY <2>8, <2>0, <3>1 DEF Check, TypeOK
  <2>9. CASE Upsert(t)
    <3>1. voided' \in [Threads -> SUBSET {"key", "tier"}]
      BY <2>9, VoidType DEF Upsert, TypeOK
    <3> DEFINE r == [NoRow EXCEPT !.made = job[t].made, !.answer = job[t].made,
                                  !.entity = job[t].entity]
    <3>2. r \in Row
      BY <2>9, <2>s, RowTypes DEF Upsert, At, j
    <3> HIDE DEF r
    <3>3. rows' = [rows EXCEPT ![job[t].key] = r]
      BY <2>9 DEF Upsert, r
    <3>4. rows' \in [Keys -> Row]
      BY <2>0, <3>2, <3>3
    <3> QED BY <2>9, <2>0, <3>1, <3>4 DEF Upsert, TypeOK
  <2>10. CASE Hit(t)
    <3>1. [job[t].seen EXCEPT !.hits = @ + 1] \in Row
      <4>1. job[t].seen \in Row
        BY <2>0 DEF j, Job
      <4>2. \A r \in Row : [r EXCEPT !.hits = @ + 1] \in Row
        BY DEF Row
      <4> QED BY <4>1, <4>2
    <3>2. pending' \in [Keys -> Row]
      BY <2>0, <2>10, <3>1 DEF Hit
    <3>3. hitsSinceFlush' \in Nat
      BY <2>10 DEF Hit, TypeOK
    <3> QED BY <2>10, <2>0, <3>2, <3>3 DEF Hit, TypeOK
  <2>11. CASE Mark(t)
    <3>1. job[t].key \in Keys /\ InvalidateKey(job[t].key)
      BY <2>11, <2>k DEF Mark, At, NeedsKey, j
    <3> QED BY <2>11, <2>0, <3>1, InvalidateKeyType DEF Mark, TypeOK
  <2>12. CASE EntityMark(t)
    <3>1. PICK k \in job[t].todo : InvalidateKey(k)
      BY <2>12 DEF EntityMark
    <3>2. k \in Keys
      BY <2>0 DEF j, Job
    <3> QED BY <2>12, <2>0, <3>1, <3>2, InvalidateKeyType DEF EntityMark, TypeOK
  <2>13. CASE Delete(t) \/ EntityDelete(t) \/ Wipe(t)
    <3>1. rows' \in [Keys -> Row]
      BY <2>0, <2>13, WithoutType, RowTypes DEF Delete, EntityDelete, Wipe
    <3> QED BY <2>13, <2>0, <3>1 DEF Delete, EntityDelete, Wipe, TypeOK
  <2>14. CASE FlushBegin(t)
    <3>1. voided' \in [Threads -> SUBSET {"key", "tier"}]
      BY <2>14, VoidType DEF TypeOK
    <3>2. /\ UNCHANGED <<rows, keySequence, keyMarks, storeCount, world,
                         attempts>>
          /\ pending' = None /\ hitsSinceFlush' = 0
          /\ generation' = generation + 1
      BY <2>14 DEF FlushBegin
    <3>3. pending' \in [Keys -> Row]
      BY <3>2, RowTypes
    <3>4. generation' \in Nat /\ hitsSinceFlush' \in Nat
      BY <3>2 DEF TypeOK
    <3> QED BY <2>0, <3>1, <3>2, <3>3, <3>4 DEF TypeOK
  <2>15. CASE Patch(t)
    <3> DEFINE k == job[t].key
               fix == job[t].fix \/ job[t].seen.corrected
    <3>1. k \in Keys /\ job[t].seen.answer \in Nat
      BY <2>15, <2>0, <2>k DEF Patch, At, NeedsKey, j, Job, Row
    <3>2. fix \in BOOLEAN
      OBVIOUS
    <3>3. rows' = rows \/
          rows' = [rows EXCEPT ![k].answer = job[t].seen.answer,
                               ![k].corrected = fix, ![k].validated = TRUE]
      BY <2>15 DEF Patch
    <3> HIDE DEF fix, k
    <3>4. rows' \in [Keys -> Row]
      BY <2>0, <3>1, <3>2, <3>3 DEF Row
    <3> QED BY <2>15, <2>0, <3>4 DEF Patch, TypeOK
  <2>16. CASE CompareDelete(t)
    <3>1. rows' \in [Keys -> Row]
      BY <2>0, <2>16, WithoutType DEF CompareDelete
    <3> QED BY <2>16, <2>0, <3>1 DEF CompareDelete, TypeOK
  <2> QED
    BY <1>1, <2>1, <2>2, <2>3, <2>4, <2>5, <2>6, <2>7, <2>8, <2>9, <2>10,
       <2>11, <2>12, <2>13, <2>14, <2>15, <2>16 DEF ThreadStep
<1>2. CASE IndexLoads \/ Hide
  BY <1>2 DEF IndexLoads, Hide, TypeOK
<1>3. CASE UNCHANGED vars
  BY <1>3 DEF vars, TypeOK
<1> QED BY <1>1, <1>2, <1>3 DEF Next

Shapes == \A t \in Threads : JobShape(t)

LEMMA ShapesAlways == Spec => [](TypeOK /\ Shapes)
<1>1. Init => TypeOK /\ Shapes
  <2>1. ASSUME Init PROVE TypeOK
    <3>1. storeCount \in 0..EvictionInterval - 1
      BY <2>1, NumbersAssumption DEF Init
    <3>2. job \in [Threads -> Job]
      BY <2>1, IdleType DEF Init
    <3> QED BY <2>1, <3>1, <3>2, RowTypes DEF Init, TypeOK
  <2>2. \A t \in Threads : Proper(t, Idle)
    BY DEF Idle, Proper, Shape, WorkerShape, ValidatorShape, InStore,
       NeedsKey, StoreSteps, ScanSteps, Flushing
  <2>3. Init => Shapes
    BY <2>2 DEF Init, Shapes, JobShape
  <2> QED BY <2>1, <2>3
<1>2. TypeOK /\ Shapes /\ [Next]_vars => (TypeOK /\ Shapes)'
  <2> SUFFICES ASSUME TypeOK, Shapes, [Next]_vars PROVE TypeOK' /\ Shapes'
    OBVIOUS
  <2>1. TypeOK'
    BY TypeOKInductive DEF Shapes
  <2>2. Shapes'
    <3>1. ASSUME UNCHANGED job PROVE Shapes'
      BY <3>1 DEF Shapes, JobShape
    <3>2. ASSUME NEW t \in Threads, ThreadStep(t) PROVE Shapes'
      BY <3>2, ShapesInductive DEF Shapes
    <3> QED BY <3>1, <3>2 DEF Next, IndexLoads, Hide, vars
  <2> QED BY <2>1, <2>2
<1> QED BY <1>1, <1>2, PTL DEF Spec
-----------------------------------------------------------------------------
(* What a step does to a row.                                              *)
SameMeaning(r, s) ==
  s.made = r.made /\ s.answer = r.answer /\ (s.corrected <=> r.corrected)

Written(j, k, s) ==
  /\ j.pc = "upsert" /\ j.key = k
  /\ s.made = j.made /\ s.answer = j.made /\ ~s.corrected

Patched(j, k, r, s) ==
  /\ j.pc = "patch" /\ j.key = k
  /\ r.made = j.seen.made /\ s.made = r.made
  /\ s.answer = j.seen.answer
  /\ j.seen.corrected => s.corrected

RowStep(j, k, r, s) ==
  \/ SameMeaning(r, s)
  \/ s = NoRow
  \/ Written(j, k, s)
  \/ Patched(j, k, r, s)

LEMMA RowsAt ==
  ASSUME TypeOK, Shapes, NEW t \in Threads, ThreadStep(t), NEW k \in Keys
  PROVE  RowStep(job[t], k, rows[k], rows'[k])
<1> USE DEF RowStep, cacheState, world
<1>0. rows[k] \in Row /\ rows \in [Keys -> Row] /\ job[t] \in Job
  BY DEF TypeOK
<1>a. ASSUME rows' = rows PROVE SameMeaning(rows[k], rows'[k])
  BY <1>a DEF SameMeaning
<1>b. ASSUME NEW ks, rows' = Without(ks)
      PROVE  SameMeaning(rows[k], rows'[k]) \/ rows'[k] = NoRow
  BY <1>b DEF Without, SameMeaning
<1>1. CASE Merge(t)
  <2>1. rows'[k] = Merged(k, job[t].batch[k])
    BY <1>1 DEF Merge
  <2>2. SameMeaning(rows[k], Merged(k, job[t].batch[k]))
    BY <1>0 DEF Merged, SameMeaning, Row
  <2> QED BY <2>1, <2>2
<1>2. CASE Trim(t) \/ Delete(t) \/ EntityDelete(t)
  BY <1>2, <1>b DEF Trim, Delete, EntityDelete
<1>3. CASE Wipe(t)
  BY <1>3 DEF Wipe, None
<1>4. CASE Upsert(t)
  <2> DEFINE r == [NoRow EXCEPT !.made = job[t].made, !.answer = job[t].made,
                                !.entity = job[t].entity]
  <2>1. r.made = job[t].made /\ r.answer = job[t].made /\ ~r.corrected
    BY DEF NoRow
  <2>2. rows' = [rows EXCEPT ![job[t].key] = r] /\ job[t].pc = "upsert"
    BY <1>4 DEF Upsert, At
  <2> HIDE DEF r
  <2>3. CASE job[t].key = k
    BY <1>0, <2>1, <2>2, <2>3 DEF Written
  <2>4. CASE job[t].key # k
    BY <1>0, <2>2, <2>4 DEF SameMeaning
  <2> QED BY <2>3, <2>4
<1>5. CASE Patch(t)
  <2>1. CASE ~Matches(t)
    BY <1>5, <2>1, <1>a DEF Patch
  <2>2. CASE Matches(t)
    <3> DEFINE fix == job[t].fix \/ job[t].seen.corrected
               q == job[t].key
    <3>1. rows' = [rows EXCEPT ![q].answer = job[t].seen.answer,
                               ![q].corrected = fix, ![q].validated = TRUE]
      BY <1>5, <2>2 DEF Patch
    <3>2. CASE k # q
      BY <1>0, <3>1, <3>2 DEF SameMeaning
    <3>3. CASE k = q
      <4>1. /\ rows'[k].made = rows[k].made
            /\ rows'[k].answer = job[t].seen.answer
            /\ rows'[k].corrected = fix
        <5> HIDE DEF fix, q
        <5> QED BY <1>0, <3>1, <3>3 DEF Row
      <4>2. job[t].pc = "patch" /\ rows[k].made = job[t].seen.made
        BY <1>5, <2>2, <3>3 DEF Patch, At, Matches
      <4>3. job[t].seen.corrected => rows'[k].corrected
        BY <4>1
      <4> QED BY <3>3, <4>1, <4>2, <4>3 DEF Patched
    <3> QED BY <3>2, <3>3
  <2> QED BY <2>1, <2>2
<1>6. CASE CompareDelete(t)
  BY <1>6, <1>a, <1>b DEF CompareDelete
<1>7. CASE \/ Swap(t) \/ MergeFails(t) \/ ShutdownFlush(t) \/ StoreBegin(t)
           \/ Count(t) \/ Check(t) \/ ReplayBegin(t) \/ Hit(t) \/ Verdict(t)
           \/ Probe(t) \/ Execute(t) \/ ManualDelete(t) \/ Mark(t)
  BY <1>7, <1>a DEF Swap, MergeFails, ShutdownFlush, StoreBegin, Count, Check,
     ReplayBegin, Hit, Verdict, Probe, Execute, ManualDelete, Mark
<1>8. CASE \/ EntityFind(t) \/ EntityMark(t) \/ FlushBegin(t) \/ FlushCount(t)
           \/ Scan(t) \/ Judge(t)
  BY <1>8, <1>a DEF EntityFind, EntityMark, FlushBegin, FlushCount, Scan, Judge
<1> QED BY <1>1, <1>2, <1>3, <1>4, <1>5, <1>6, <1>7, <1>8 DEF ThreadStep

(* What a step does to the copies of rows that its thread works on.        *)
Copies(j, k) ==
  /\ \/ k.seen = j.seen \/ k.seen = NoRow
     \/ \E q \in Keys : k.seen = rows[q] \/ k.seen = j.scan[q]
  /\ k.scan = j.scan \/ k.scan = None \/ k.scan = rows

LEMMA CopiesAt ==
  ASSUME TypeOK, Shapes, NEW t \in Threads, ThreadStep(t)
  PROVE  /\ Copies(job[t], job'[t])
         /\ \A u \in Threads \ {t} : job'[u] = job[u]
<1> DEFINE j == job[t]
           Goal == /\ Copies(j, job'[t])
                   /\ \A u \in Threads \ {t} : job'[u] = job[u]
<1>0. j \in Job
  BY DEF TypeOK
<1> HIDE DEF j, Goal
<1>t. ASSUME NEW k, Turns(t, k), Copies(j, k) PROVE Goal
  BY <1>t DEF Turns, Goal
<1>i. Idle.seen = NoRow /\ Idle.scan = None
  BY DEF Idle
<1>a. ASSUME NEW s, Turns(t, [j EXCEPT !.pc = s]) PROVE Goal
  <2>1. Copies(j, [j EXCEPT !.pc = s])
    BY <1>0 DEF Copies, Job
  <2> QED BY <1>a, <1>t, <2>1
<1>b. Copies(j, Rest(j))
  BY <1>0, <1>i DEF Copies, Rest, Idle
<1>c. ASSUME Turns(t, Rest(j)) PROVE Goal
  BY <1>c, <1>t, <1>b
<1>d. ASSUME Turns(t, Resumed(j)) PROVE Goal
  <2>1. Copies(j, [j EXCEPT !.pc = j.back, !.batch = None])
    BY <1>0 DEF Copies, Job
  <2> QED BY <1>d, <1>t, <1>b, <2>1 DEF Resumed
<1>1. ASSUME Swap(t) PROVE Goal
  <2>1. Copies(j, [j EXCEPT !.pc = "merge", !.batch = pending])
    BY <1>0 DEF Copies, Job
  <2> QED BY <1>1, <1>d, <1>t, <2>1, SwapTurns DEF j
<1>2. ASSUME Merge(t) \/ MergeFails(t) PROVE Goal
  BY <1>2, <1>d, PlainTurns DEF j
<1>3. ASSUME ShutdownFlush(t) \/ Trim(t) \/ FlushBegin(t) PROVE Goal
  BY <1>3, <1>a, PlainTurns DEF j
<1>4. ASSUME StoreBegin(t) PROVE Goal
  <2>1. PICK k \in Keys, e \in Entities, b \in {"count", "check"} :
          Turns(t, [Idle EXCEPT !.pc = "swap", !.key = k, !.entity = e,
                                !.back = b, !.made = attempts + 1,
                                !.gen = generation, !.seq = keySequence])
    BY <1>4, StoreBeginTurns
  <2>2. Copies(j, [Idle EXCEPT !.pc = "swap", !.key = k, !.entity = e,
                               !.back = b, !.made = attempts + 1,
                               !.gen = generation, !.seq = keySequence])
    BY DEF Idle, Copies
  <2> QED BY <1>t, <2>1, <2>2
<1>5. ASSUME Count(t) PROVE Goal
  <2>1. PICK pc \in {"trim", "swap"}, n \in Nat :
          Turns(t, [j EXCEPT !.pc = pc, !.back = "check", !.over = n])
    BY <1>5, CountTurns DEF j
  <2>2. Copies(j, [j EXCEPT !.pc = pc, !.back = "check", !.over = n])
    BY <1>0 DEF Job, Copies
  <2> QED BY <1>t, <2>1, <2>2
<1>6. ASSUME ReplayBegin(t) PROVE Goal
  <2>1. PICK k \in Keys :
          Turns(t, [Idle EXCEPT !.pc = "hit", !.key = k, !.seen = rows[k]])
    BY <1>6, ReplayBeginTurns
  <2>2. Copies(j, [Idle EXCEPT !.pc = "hit", !.key = k, !.seen = rows[k]])
    BY DEF Idle, Copies
  <2> QED BY <1>t, <2>1, <2>2
<1>7. ASSUME Hit(t) PROVE Goal
  <2>1. PICK pc \in {"swap", "verdict"} :
          Turns(t, [j EXCEPT !.pc = pc, !.back = "verdict"])
    BY <1>7, HitTurns DEF j
  <2>2. Copies(j, [j EXCEPT !.pc = pc, !.back = "verdict"])
    BY <1>0 DEF Job, Copies
  <2> QED BY <1>t, <2>1, <2>2
<1>8. ASSUME ManualDelete(t) PROVE Goal
  <2>1. PICK k \in Keys : Turns(t, [Idle EXCEPT !.pc = "mark", !.key = k])
    BY <1>8, ManualDeleteTurns
  <2>2. Copies(j, [Idle EXCEPT !.pc = "mark", !.key = k])
    BY DEF Idle, Copies
  <2> QED BY <1>t, <2>1, <2>2
<1>9. ASSUME EntityFind(t) PROVE Goal
  <2>1. PICK ks \in SUBSET Keys :
          Turns(t, [j EXCEPT !.pc = "markAll", !.todo = ks, !.doomed = ks])
    BY <1>9, EntityFindTurns DEF j
  <2>2. Copies(j, [j EXCEPT !.pc = "markAll", !.todo = ks, !.doomed = ks])
    BY <1>0 DEF Job, Copies
  <2> QED BY <1>t, <2>1, <2>2
<1>10. ASSUME EntityMark(t) PROVE Goal
  <2>1. PICK k \in j.todo, pc \in Steps :
          Turns(t, [j EXCEPT !.todo = j.todo \ {k}, !.pc = pc])
    BY <1>10, EntityMarkTurns DEF j
  <2>2. Copies(j, [j EXCEPT !.todo = j.todo \ {k}, !.pc = pc])
    BY <1>0 DEF Job, Copies
  <2> QED BY <1>t, <2>1, <2>2
<1>11. ASSUME Scan(t) PROVE Goal
  <2>1. PICK ks \in SUBSET Keys :
          Turns(t, [j EXCEPT !.pc = "scan", !.todo = ks, !.scan = rows])
    BY <1>11, ScanTurns DEF j
  <2>2. Copies(j, [j EXCEPT !.pc = "scan", !.todo = ks, !.scan = rows])
    BY <1>0 DEF Job, Copies
  <2> QED BY <1>t, <2>1, <2>2
<1>12. ASSUME Judge(t) PROVE Goal
  <2>1. PICK k \in j.todo :
          \/ \E fix \in BOOLEAN : Turns(t, Verified(j, k, fix))
          \/ Turns(t, Condemned(j, k))
          \/ Turns(t, Passed(j, k))
    BY <1>12, JudgeTurns DEF j
  <2>2. k \in Keys
    BY <1>0 DEF Job
  <2>3. ASSUME NEW fix \in BOOLEAN PROVE Copies(j, Verified(j, k, fix))
    BY <1>0, <2>2 DEF Verified, Job, Copies
  <2>4. Copies(j, Condemned(j, k))
    BY <1>0, <2>2 DEF Condemned, Job, Copies
  <2>5. Copies(j, Passed(j, k))
    <3> DEFINE i == [j EXCEPT !.todo = @ \ {k}]
    <3>1. i \in Job /\ i.scan = j.scan
      BY <1>0, <2>1, VerdictTypes DEF Job
    <3>2. Rest(i).seen = NoRow /\ (Rest(i).scan = None \/ Rest(i).scan = i.scan)
      BY <1>i, <3>1 DEF Rest, Idle
    <3> QED BY <3>1, <3>2 DEF Passed, Copies
  <2> QED BY <1>t, <2>1, <2>3, <2>4, <2>5
<1>13. ASSUME Check(t) \/ Upsert(t) \/ Mark(t) PROVE Goal
  BY <1>13, <1>a, <1>c, EndingTurns DEF j
<1>14. ASSUME Verdict(t) \/ Probe(t) \/ Execute(t) PROVE Goal
  <2>1. (\E s : Turns(t, [j EXCEPT !.pc = s])) \/ Turns(t, Rest(j))
    BY <1>14, EndingTurns DEF j
  <2> QED BY <1>a, <1>c, <2>1
<1>15. ASSUME Delete(t) \/ EntityDelete(t) \/ Wipe(t) \/ FlushCount(t)
       PROVE  Goal
  BY <1>15, <1>a, <1>c, EndingTurns DEF j
<1>16. ASSUME Patch(t) \/ CompareDelete(t) PROVE Goal
  BY <1>16, <1>a, <1>c, EndingTurns DEF j
<1>17. Goal
  BY <1>1, <1>2, <1>3, <1>4, <1>5, <1>6, <1>7, <1>8, <1>9, <1>10, <1>11,
     <1>12, <1>13, <1>14, <1>15, <1>16 DEF ThreadStep
<1> QED BY <1>17 DEF Goal, j
-----------------------------------------------------------------------------
(* The copies of rows that threads work on hold an answer for its action.   *)
Faithful(t) ==
  /\ job[t].seen.answer = job[t].seen.made
  /\ \A k \in Keys : job[t].scan[k].answer = job[t].scan[k].made

(* A row a validator has yet to write back was not corrected since the scan, *)
(* unless it was stored anew or another validator wrote it back in between;  *)
(* and it is written back once.                                             *)
Unfixed(row, copy, overtaken) ==
  /\ copy.made > 0
  /\ row.corrected /\ row.made = copy.made => copy.corrected \/ overtaken

FixedJob(r, late, j) ==
  /\ \A k \in j.todo : Unfixed(r[k], j.scan[k], k \in late)
  /\ j.pc \in Flushing \cup {"patch"} =>
       j.key \notin j.todo /\ Unfixed(r[j.key], j.seen, j.key \in late)

Fixed == /\ \A v \in Validators : FixedJob(rows, rivals[v], job[v])
         /\ \A k \in Keys : rows[k].made = 0 => ~rows[k].corrected

(* The numbers of the stores: one row at most has that of a store, and none  *)
(* before its upsert.                                                       *)
Numbers ==
  /\ \A k \in Keys : rows[k].made <= attempts
  /\ \A t \in Threads : Storing(t) =>
       /\ job[t].made <= attempts
       /\ \A k \in Keys : rows[k].made # job[t].made
       /\ \A u \in Threads \ {t} : job[u].made # job[t].made

(* What the token of a store compares tells what was invalidated since.     *)
Token(t) ==
  IF Storing(t)
  THEN /\ job[t].gen <= generation /\ job[t].seq <= keySequence
       /\ job[t].gen = generation <=> "tier" \notin voided[t]
       /\ keyMarks[job[t].key] <= job[t].seq <=> "key" \notin voided[t]
  ELSE voided[t] = {}

Tokens == /\ \A t \in Threads : Token(t)
          /\ \A k \in Keys : keyMarks[k] <= keySequence

(* Answers. *)

LEMMA FaithfulInductive ==
  ASSUME TypeOK, Shapes, [Next]_vars, AnswersStayWithTheirAction,
         \A t \in Threads : Faithful(t)
  PROVE  (AnswersStayWithTheirAction /\ \A t \in Threads : Faithful(t))'
<1>1. ASSUME NEW t \in Threads, ThreadStep(t)
      PROVE  (AnswersStayWithTheirAction /\ \A u \in Threads : Faithful(u))'
  <2>1. ASSUME NEW k \in Keys PROVE rows'[k].answer = rows'[k].made
    <3>1. RowStep(job[t], k, rows[k], rows'[k])
      BY <1>1, RowsAt
    <3>2. rows[k].answer = rows[k].made /\ job[t].seen.answer = job[t].seen.made
      BY DEF AnswersStayWithTheirAction, Faithful
    <3> QED BY <3>1, <3>2 DEF RowStep, SameMeaning, Written, Patched, NoRow
  <2>2. ASSUME NEW u \in Threads PROVE Faithful(u)'
    <3>1. /\ Copies(job[t], job'[t])
          /\ u # t => job'[u] = job[u]
      BY <1>1, CopiesAt
    <3>2. /\ Faithful(u) /\ Faithful(t)
          /\ \A k \in Keys : rows[k].answer = rows[k].made
          /\ NoRow.answer = NoRow.made
          /\ \A k \in Keys : None[k] = NoRow
      BY DEF AnswersStayWithTheirAction, NoRow, None
    <3> QED BY <3>1, <3>2 DEF Faithful, Copies
  <2> QED BY <2>1, <2>2 DEF AnswersStayWithTheirAction
<1>2. CASE UNCHANGED <<rows, job>>
  BY <1>2 DEF AnswersStayWithTheirAction, Faithful
<1> QED BY <1>1, <1>2 DEF Next, IndexLoads, Hide, vars

\* A cached answer belongs to the action it is stored with, whatever hits,
\* invalidations and verdicts of the validator overtake each other: the text
\* that patch_metadata_if_matches writes was copied from the row of the same
\* store (action_cache.py, cache_validator.py, sqlite_cache_store.py).
THEOREM AnswersStayAlways == Spec => []AnswersStayWithTheirAction
<1>1. Init => AnswersStayWithTheirAction /\ \A t \in Threads : Faithful(t)
  BY DEF Init, AnswersStayWithTheirAction, Faithful, None, NoRow, Idle
<1>2. /\ TypeOK /\ Shapes /\ [Next]_vars /\ AnswersStayWithTheirAction
      /\ \A t \in Threads : Faithful(t)
      => (AnswersStayWithTheirAction /\ \A t \in Threads : Faithful(t))'
  BY FaithfulInductive
<1> QED BY <1>1, <1>2, ShapesAlways, PTL DEF Spec

\* A row that was deleted or replaced is not brought back by a hit or a verdict
\* that was read before (update_access_stats, patch_metadata_if_matches): only
\* the upsert of a store makes a row.
THEOREM NoRevivalAlways == Spec => NoRevival
<1> DEFINE Step == \A k \in Keys :
             Present(rows'[k]) /\ rows'[k].made # rows[k].made =>
               \E t \in Threads : /\ At(t, "upsert") /\ job[t].key = k
                                  /\ job[t].made = rows'[k].made
<1>1. ASSUME TypeOK, Shapes, Next PROVE Step
  <2>1. ASSUME NEW t \in Threads, ThreadStep(t), NEW k \in Keys,
               Present(rows'[k]), rows'[k].made # rows[k].made
        PROVE  /\ At(t, "upsert") /\ job[t].key = k
               /\ job[t].made = rows'[k].made
    <3>1. RowStep(job[t], k, rows[k], rows'[k])
      BY <1>1, <2>1, RowsAt
    <3> QED BY <2>1, <3>1 DEF RowStep, SameMeaning, Written, Patched, NoRow,
            Present, At
  <2>2. ASSUME UNCHANGED rows PROVE Step
    BY <2>2
  <2> QED BY <1>1, <2>1, <2>2 DEF Next, IndexLoads, Hide
<1>2. TypeOK /\ Shapes /\ [Next]_vars => [Step]_vars
  BY <1>1
<1>3. [][Next]_vars /\ [](TypeOK /\ Shapes) => [][Step]_vars
  BY <1>2, PTL
<1> QED BY <1>3, ShapesAlways, PTL DEF Spec, NoRevival
-----------------------------------------------------------------------------
(* What a step does to the number and the token of its thread.             *)
SameStamp(j, k) ==
  /\ k.made = j.made /\ k.key = j.key /\ k.gen = j.gen /\ k.seq = j.seq

StampStep(j, k) ==
  \/ /\ k.made = 0 /\ UNCHANGED attempts
     /\ j.made = 0 \/ j.pc \in {"check", "upsert"}
  \/ SameStamp(j, k) /\ j.pc # "upsert" /\ UNCHANGED attempts
  \/ /\ j.pc = "idle" /\ k.made = attempts + 1 /\ k.key \in Keys
     /\ k.gen = generation /\ k.seq = keySequence
     /\ attempts' = attempts + 1
     /\ UNCHANGED <<rows, generation, keySequence, keyMarks, voided>>

LEMMA StampAt ==
  ASSUME TypeOK, Shapes, NEW t \in Threads, ThreadStep(t)
  PROVE  StampStep(job[t], job'[t])
<1> DEFINE j == job[t]
           k == job'[t]
<1>0. /\ j \in Job /\ Shape(j) /\ Idle.made = 0
      /\ \A n : Turns(t, n) => k = n
      /\ Rest(j).made = 0
  BY DEF TypeOK, Shapes, JobShape, Proper, Turns, Rest, Idle
<1> HIDE DEF j, k
<1>1. CASE Swap(t) \/ Merge(t) \/ MergeFails(t)
  <2>1. /\ j.pc \in Flushing
        /\ \/ k = Resumed(j)
           \/ k = [j EXCEPT !.pc = "merge", !.batch = pending]
    BY <1>1, <1>0, SwapTurns, PlainTurns DEF j, Flushing
  <2>2. (k.made = 0 /\ j.made = 0) \/ SameStamp(j, k)
    <3>1. CASE j.back = "idle"
      <4>1. j.made = 0
        BY <1>0, <2>1, <3>1 DEF Shape, InStore, StoreSteps, Flushing, Job
      <4> QED BY <1>0, <2>1, <3>1, <4>1 DEF Resumed, SameStamp, Job
    <3>2. CASE j.back # "idle"
      BY <1>0, <2>1, <3>2 DEF Resumed, SameStamp, Job
    <3> QED BY <3>1, <3>2
  <2>3. UNCHANGED attempts
    BY <1>1 DEF Swap, Merge, MergeFails
  <2> QED BY <2>1, <2>2, <2>3 DEF StampStep, Flushing, j, k
<1>2. CASE StoreBegin(t)
  <2>1. PICK q \in Keys, e \in Entities, b \in {"count", "check"} :
          k = [Idle EXCEPT !.pc = "swap", !.key = q, !.entity = e,
                           !.back = b, !.made = attempts + 1,
                           !.gen = generation, !.seq = keySequence]
    <3>1. PICK q \in Keys, e \in Entities, b \in {"count", "check"} :
            Turns(t, [Idle EXCEPT !.pc = "swap", !.key = q, !.entity = e,
                                  !.back = b, !.made = attempts + 1,
                                  !.gen = generation, !.seq = keySequence])
      BY <1>2, StoreBeginTurns
    <3> QED BY <3>1, <1>0
  <2>2. /\ k.made = attempts + 1 /\ k.key = q /\ k.gen = generation
        /\ k.seq = keySequence
    BY <2>1 DEF Idle
  <2>3. /\ j.pc = "idle" /\ attempts' = attempts + 1
        /\ UNCHANGED <<rows, generation, keySequence, keyMarks, voided>>
    BY <1>2 DEF StoreBegin, Free, At, cacheState, history, j
  <2> QED BY <2>2, <2>3 DEF StampStep, j, k
<1>3. CASE Count(t)
  <2>1. PICK pc \in {"trim", "swap"}, n \in Nat :
          k = [j EXCEPT !.pc = pc, !.back = "check", !.over = n]
    BY <1>3, <1>0, CountTurns DEF j
  <2>2. SameStamp(j, k)
    BY <1>0, <2>1 DEF SameStamp, Job
  <2>3. j.pc = "count" /\ UNCHANGED attempts
    BY <1>3 DEF Count, At, j
  <2> QED BY <2>2, <2>3 DEF StampStep, j, k
<1>4. CASE Trim(t)
  <2>1. j.pc = "trim" /\ k = [j EXCEPT !.pc = "swap"]
    BY <1>4, <1>0, PlainTurns DEF j
  <2>2. SameStamp(j, k)
    BY <1>0, <2>1 DEF SameStamp, Job
  <2> QED BY <1>4, <2>1, <2>2 DEF StampStep, j, k, Trim
<1>5. CASE Check(t)
  <2>1. j.pc = "check" /\ (k = [j EXCEPT !.pc = "upsert"] \/ k = Rest(j))
    BY <1>5, <1>0, EndingTurns DEF j
  <2>2. k.made = 0 \/ SameStamp(j, k)
    BY <1>0, <2>1 DEF SameStamp, Job
  <2> QED BY <1>5, <2>1, <2>2 DEF StampStep, j, k, Check
<1>6. CASE Upsert(t)
  <2>1. k = Rest(j) /\ j.pc = "upsert"
    BY <1>6, <1>0, EndingTurns DEF j
  <2> QED BY <1>0, <1>6, <2>1 DEF StampStep, j, k, Upsert
<1>7. ASSUME j.pc \notin StoreSteps \cup Flushing, UNCHANGED attempts,
             k.made = j.made \/ k.made = 0
      PROVE  StampStep(job[t], job'[t])
  BY <1>0, <1>7 DEF Shape, InStore, StampStep, Job, j, k
<1>17. CASE Delete(t) \/ EntityDelete(t) \/ Wipe(t) \/ Patch(t)
  <2>1. /\ j.pc \in {"delete", "deleteAll", "wipe", "patch"}
        /\ k = Rest(j)
    BY <1>17, <1>0, EndingTurns DEF j
  <2> QED BY <1>0, <1>7, <1>17, <2>1 DEF Delete, EntityDelete, Wipe, Patch,
          StoreSteps, Flushing
<1>8. CASE ShutdownFlush(t) \/ FlushBegin(t)
  <2>1. /\ j.pc = "idle"
        /\ k = [j EXCEPT !.pc = "swap"] \/ k = [j EXCEPT !.pc = "countAll"]
    BY <1>8, <1>0, PlainTurns DEF j
  <2>2. k.made = j.made
    BY <1>0, <2>1 DEF Job
  <2> QED BY <1>7, <1>8, <2>1, <2>2 DEF ShutdownFlush, FlushBegin, StoreSteps,
          Flushing
<1>9. CASE ReplayBegin(t) \/ ManualDelete(t)
  <2>1. /\ j.pc = "idle"
        /\ \/ \E q \in Keys :
                k = [Idle EXCEPT !.pc = "hit", !.key = q, !.seen = rows[q]]
           \/ \E q \in Keys : k = [Idle EXCEPT !.pc = "mark", !.key = q]
    BY <1>9, <1>0, ReplayBeginTurns, ManualDeleteTurns DEF j
  <2>2. k.made = 0
    BY <2>1 DEF Idle
  <2> QED BY <1>7, <1>9, <2>1, <2>2 DEF ReplayBegin, ManualDelete, StoreSteps,
          Flushing
<1>10. CASE Hit(t)
  <2>1. j.pc = "hit" /\ \E pc \in {"swap", "verdict"} :
                          k = [j EXCEPT !.pc = pc, !.back = "verdict"]
    BY <1>10, <1>0, HitTurns DEF j
  <2>2. k.made = j.made
    BY <1>0, <2>1 DEF Job
  <2> QED BY <1>7, <1>10, <2>1, <2>2 DEF Hit, StoreSteps, Flushing
<1>11. CASE Verdict(t) \/ Probe(t) \/ Execute(t)
  <2>1. /\ j.pc \in {"verdict", "probe", "execute"}
        /\ (\E s : k = [j EXCEPT !.pc = s]) \/ k = Rest(j)
    BY <1>11, <1>0, EndingTurns DEF j
  <2>2. k.made = j.made \/ k.made = 0
    BY <1>0, <2>1 DEF Job
  <2> QED BY <1>7, <1>11, <2>1, <2>2 DEF Verdict, Probe, Execute, StoreSteps,
          Flushing
<1>12. CASE Mark(t) \/ FlushCount(t) \/ CompareDelete(t)
  <2>1. /\ j.pc \in {"mark", "countAll", "compareDelete"}
        /\ (\E s : k = [j EXCEPT !.pc = s]) \/ k = Rest(j)
    BY <1>12, <1>0, EndingTurns DEF j
  <2>2. k.made = j.made \/ k.made = 0
    BY <1>0, <2>1 DEF Job
  <2> QED BY <1>7, <1>12, <2>1, <2>2 DEF Mark, FlushCount, CompareDelete,
          StoreSteps, Flushing
<1>13. CASE EntityFind(t)
  <2>1. j.pc = "idle" /\ \E ks \in SUBSET Keys :
          k = [j EXCEPT !.pc = "markAll", !.todo = ks, !.doomed = ks]
    BY <1>13, <1>0, EntityFindTurns DEF j
  <2>2. k.made = j.made
    BY <1>0, <2>1 DEF Job
  <2> QED BY <1>7, <1>13, <2>1, <2>2 DEF EntityFind, StoreSteps, Flushing
<1>14. CASE EntityMark(t)
  <2>1. PICK q \in j.todo, pc \in Steps :
          k = [j EXCEPT !.todo = j.todo \ {q}, !.pc = pc]
    BY <1>14, <1>0, EntityMarkTurns DEF j
  <2>2. k.made = j.made
    BY <1>0, <2>1 DEF Job
  <2> QED BY <1>7, <1>14, <2>2 DEF EntityMark, At, StoreSteps, Flushing, j
<1>15. CASE Scan(t)
  <2>1. j.pc = "idle" /\ \E ks \in SUBSET Keys :
          k = [j EXCEPT !.pc = "scan", !.todo = ks, !.scan = rows]
    BY <1>15, <1>0, ScanTurns DEF j
  <2>2. k.made = j.made
    BY <1>0, <2>1 DEF Job
  <2> QED BY <1>7, <1>15, <2>1, <2>2 DEF Scan, StoreSteps, Flushing
<1>16. CASE Judge(t)
  <2>1. PICK q \in j.todo :
          \/ \E fix \in BOOLEAN : k = Verified(j, q, fix)
          \/ k = Condemned(j, q)
          \/ k = Passed(j, q)
    BY <1>16, <1>0, JudgeTurns DEF j
  <2>2. \A fix \in BOOLEAN : Verified(j, q, fix).made = j.made
    BY <1>0 DEF Job, Verified
  <2>3. Condemned(j, q).made = j.made
    BY <1>0 DEF Job, Condemned
  <2>4. Passed(j, q).made = 0
    BY <1>0 DEF Passed, Rest, Idle
  <2>5. k.made = j.made \/ k.made = 0
    BY <2>1, <2>2, <2>3, <2>4
  <2> QED BY <1>7, <1>16, <2>5 DEF Judge, At, StoreSteps, Flushing, j
<1> QED
  BY <1>1, <1>2, <1>3, <1>4, <1>5, <1>6, <1>8, <1>9, <1>10, <1>11, <1>12,
     <1>13, <1>14, <1>15, <1>16, <1>17 DEF ThreadStep
-----------------------------------------------------------------------------
(* Corrections. *)

LEMMA NumbersInductive ==
  ASSUME TypeOK, Shapes, [Next]_vars, Numbers
  PROVE  Numbers'
<1>1. ASSUME NEW t \in Threads, ThreadStep(t)
      PROVE  Numbers'
  <2>1. StampStep(job[t], job'[t])
    BY <1>1, StampAt
  <2>2. \A k \in Keys : RowStep(job[t], k, rows[k], rows'[k])
    BY <1>1, RowsAt
  <2>3. \A u \in Threads : u # t => job'[u] = job[u]
    BY <1>1, CopiesAt
  <2>4. /\ attempts \in Nat
        /\ \A u \in Threads : job[u].made \in Nat
        /\ \A k \in Keys : rows[k].made \in Nat
    BY DEF TypeOK, Job, Row
  <2>5. job[t].pc = "idle" \/ job[t].pc = "patch" => job[t].made = 0
    BY <2>4 DEF Shapes, JobShape, Proper, Shape, InStore, StoreSteps, Flushing
  <2>6. job[t].pc = "upsert" => job[t].made > 0 /\ job'[t].made = 0
    BY <2>1 DEF Shapes, JobShape, Proper, Shape, InStore, StoreSteps,
       StampStep
  <2>7. \A k \in Keys :
          \/ rows'[k].made = rows[k].made \/ rows'[k].made = 0
          \/ job[t].pc = "upsert" /\ rows'[k].made = job[t].made
    BY <2>2 DEF RowStep, SameMeaning, Written, Patched, NoRow
  <2>8. CASE attempts' = attempts /\ job'[t].made \in {0, job[t].made}
    BY <2>3, <2>4, <2>6, <2>7, <2>8 DEF Numbers, Storing
  <2>9. CASE /\ attempts' = attempts + 1 /\ job'[t].made = attempts + 1
             /\ rows' = rows
    BY <2>3, <2>4, <2>9 DEF Numbers, Storing
  <2> QED BY <2>1, <2>8, <2>9 DEF StampStep, SameStamp
<1>2. CASE UNCHANGED <<rows, job, attempts>>
  BY <1>2 DEF Numbers, Storing
<1> QED BY <1>1, <1>2 DEF Next, IndexLoads, Hide, vars

\* What a validator does to what it has yet to write back.
LEMMA ValidatorsAt ==
  ASSUME TypeOK, Shapes, NEW v \in Validators, ThreadStep(v),
         FixedJob(rows, rivals[v], job[v])
  PROVE  /\ FixedJob(rows, rivals'[v], job'[v])
         /\ job[v].pc = "patch" =>
              /\ job[v].key \notin job'[v].todo
              /\ job'[v].pc \in {"idle", "scan"}
<1> DEFINE j == job[v]
           k == job'[v]
<1>0. /\ v \in Threads /\ v \notin Workers
      /\ j \in Job /\ Shape(j) /\ ValidatorShape(j) /\ FixedJob(rows, rivals[v], j)
      /\ \A n : Turns(v, n) => k = n
  BY SetsAssumption
     DEF TypeOK, Shapes, JobShape, Proper, Turns, Threads
<1>1. j.pc \in ScanSteps \cup Flushing \cup {"idle", "mark"}
  BY <1>0 DEF ValidatorShape
<1>2. j.pc = "patch" => j.key \notin j.todo
  BY <1>0 DEF FixedJob
<1> HIDE DEF j, k
<1>r. ASSUME NEW i \in Job, NEW late,
             \A q \in i.todo : Unfixed(rows[q], i.scan[q], q \in late)
      PROVE  /\ FixedJob(rows, late, Rest(i)) /\ Rest(i).todo \subseteq i.todo
             /\ Rest(i).pc \in {"idle", "scan"}
  <2>1. Rest(i) = Idle \/ /\ Rest(i).todo = i.todo /\ Rest(i).scan = i.scan
                          /\ Rest(i).pc = "scan"
    BY DEF Rest, Idle
  <2>2. Idle.todo = {} /\ Idle.pc = "idle"
    BY DEF Idle
  <2> QED BY <1>r, <2>1, <2>2 DEF FixedJob, Flushing
<1>v. j.pc # "idle" => rivals'[v] = rivals[v]
  BY <1>0, RivalsAt DEF Shapes, At, j
<1>a. ASSUME k = Rest(j), j.pc # "idle"
      PROVE  /\ FixedJob(rows, rivals'[v], k)
             /\ j.pc = "patch" => /\ j.key \notin k.todo
                                 /\ k.pc \in {"idle", "scan"}
  BY <1>a, <1>r, <1>v, <1>0, <1>2 DEF FixedJob
<1>3. CASE Swap(v) \/ Merge(v) \/ MergeFails(v)
  <2>1. /\ j.pc \in Flushing
        /\ \/ k = Resumed(j)
           \/ k = [j EXCEPT !.pc = "merge", !.batch = pending]
    BY <1>0, <1>3, SwapTurns, PlainTurns DEF j, Flushing
  <2>2. j.back = "patch"
    BY <1>0, <2>1 DEF ValidatorShape
  <2>3. /\ k.key = j.key /\ k.todo = j.todo /\ k.seen = j.seen
        /\ k.scan = j.scan
    BY <1>0, <2>1, <2>2 DEF Resumed, Job
  <2>4. rivals'[v] = rivals[v]
    BY <1>v, <2>1 DEF Flushing
  <2> QED BY <1>0, <2>1, <2>3, <2>4 DEF FixedJob, Flushing, j, k
<1>4. CASE Scan(v)
  <2>1. PICK ks \in SUBSET Keys :
          /\ ks \subseteq Held
          /\ job' = [job EXCEPT ![v].pc = "scan", ![v].todo = ks,
                                ![v].scan = rows]
    BY <1>4 DEF Scan, Held
  <2>2. k.todo = ks /\ k.scan = rows /\ k.pc = "scan" /\ j.pc = "idle"
    <3>1. job' = [job EXCEPT ![v] = [job[v] EXCEPT !.pc = "scan", !.todo = ks,
                                                   !.scan = rows]]
      BY <1>0, <2>1, Deep DEF TypeOK
    <3>2. k = [j EXCEPT !.pc = "scan", !.todo = ks, !.scan = rows]
      BY <1>0, <3>1 DEF TypeOK, j, k
    <3> QED BY <1>0, <1>4, <3>2 DEF Job, Scan, At, j
  <2> QED BY <2>1, <2>2 DEF FixedJob, Unfixed, Held, Present, Flushing, j, k
<1>5. CASE Judge(v)
  <2>1. PICK q \in j.todo :
          \/ \E fix \in BOOLEAN : k = Verified(j, q, fix)
          \/ k = Condemned(j, q)
          \/ k = Passed(j, q)
    BY <1>0, <1>5, JudgeTurns DEF j
  <2>2. /\ j.pc = "scan" /\ rivals'[v] = rivals[v]
        /\ \A p \in j.todo : Unfixed(rows[p], j.scan[p], p \in rivals[v])
    BY <1>0, <1>5, <1>v DEF Judge, At, FixedJob, j
  <2>3. ASSUME NEW fix \in BOOLEAN, k = Verified(j, q, fix)
        PROVE  FixedJob(rows, rivals'[v], k)
    <3>1. /\ k.todo = j.todo \ {q} /\ k.key = q /\ k.seen = j.scan[q]
          /\ k.scan = j.scan
      BY <1>0, <2>3 DEF Verified, Job
    <3> QED BY <2>2, <3>1 DEF FixedJob
  <2>4. ASSUME k = Condemned(j, q) PROVE FixedJob(rows, rivals'[v], k)
    <3>1. k.todo = j.todo \ {q} /\ k.scan = j.scan /\ k.pc = "compareDelete"
      BY <1>0, <2>4 DEF Condemned, Job
    <3> QED BY <2>2, <3>1 DEF FixedJob, Flushing
  <2>5. ASSUME k = Passed(j, q) PROVE FixedJob(rows, rivals'[v], k)
    <3> DEFINE i == [j EXCEPT !.todo = @ \ {q}]
    <3>1. i \in Job /\ i.todo = j.todo \ {q} /\ i.scan = j.scan
      BY <1>0, VerdictTypes DEF Job
    <3> HIDE DEF i
    <3>2. FixedJob(rows, rivals'[v], Rest(i))
      BY <1>r, <2>2, <3>1
    <3> QED BY <2>5, <3>2 DEF Passed, i
  <2> QED BY <2>1, <2>2, <2>3, <2>4, <2>5 DEF j, k
<1>6. CASE Patch(v)
  <2>1. k = Rest(j) /\ j.pc # "idle"
    BY <1>0, <1>6, EndingTurns DEF j, Patch, At
  <2> QED BY <1>a, <2>1 DEF j, k
<1>7. CASE Mark(v) \/ CompareDelete(v)
  <2>1. /\ j.pc \in {"mark", "compareDelete"} /\ rivals'[v] = rivals[v]
        /\ k = Rest(j) \/ k = [j EXCEPT !.pc = "mark"]
    BY <1>0, <1>7, <1>v, EndingTurns DEF j
  <2>2. CASE k = [j EXCEPT !.pc = "mark"]
    <3>1. k.pc = "mark" /\ k.todo = j.todo /\ k.scan = j.scan
      BY <1>0, <2>2 DEF Job
    <3> QED BY <1>0, <2>1, <3>1 DEF FixedJob, Flushing, j, k
  <2> QED BY <1>a, <2>1, <2>2 DEF j, k
<1> QED
  BY <1>0, <1>1, <1>3, <1>4, <1>5, <1>6, <1>7
     DEF ThreadStep, ShutdownFlush, StoreBegin, Count, Trim, Check, Upsert,
         ReplayBegin, Hit, Verdict, Probe, Execute, ManualDelete, Delete,
         EntityFind, EntityMark, EntityDelete, FlushBegin, FlushCount, Wipe,
         Free, At, ScanSteps, Flushing, j
-----------------------------------------------------------------------------
LEMMA FixedInductive ==
  ASSUME TypeOK, Shapes, Numbers, Fixed, [Next]_vars
  PROVE  Fixed'
<1>1. ASSUME NEW t \in Threads, ThreadStep(t)
      PROVE  Fixed'
  <2>1. \A k \in Keys : RowStep(job[t], k, rows[k], rows'[k])
    BY <1>1, RowsAt
  <2>2. \A u \in Threads : u # t => job'[u] = job[u]
    BY <1>1, CopiesAt
  <2>3. job[t].pc = "patch" => t \in Validators
    BY DEF Shapes, JobShape, Proper, WorkerShape, ScanSteps, Threads
  <2>4. job[t].pc = "upsert" => job[t].made > 0
    BY DEF Shapes, JobShape, Proper, Shape, InStore, StoreSteps
  <2>5. /\ \A k \in Keys : rows[k].made \in Nat
        /\ job[t].made \in Nat /\ job[t].seen.made \in Nat
    BY DEF TypeOK, Row, Job
  <2>6. job[t].pc = "patch" => job[t].seen.made > 0
    BY <2>3 DEF Fixed, FixedJob, Unfixed
  <2>7. ASSUME NEW k \in Keys, rows'[k].made = 0
        PROVE  ~rows'[k].corrected
    <3>1. rows[k].made = 0 => ~rows[k].corrected
      BY DEF Fixed
    <3> QED BY <2>1, <2>4, <2>5, <2>6, <2>7, <3>1
        DEF RowStep, SameMeaning, Written, Patched, NoRow
  \* A row that t did not patch is no more corrected than it was.
  <2>8. ASSUME NEW k \in Keys, NEW c, NEW late, Unfixed(rows[k], c, late),
               job[t].pc = "patch" =>
                 job[t].key # k \/ rows[k].made # job[t].seen.made
        PROVE  Unfixed(rows'[k], c, late)
    BY <2>1, <2>5, <2>8 DEF RowStep, SameMeaning, Written, Patched, NoRow,
       Unfixed
  \* What t patches is written after the scan of every other validator.
  <2>9. ASSUME NEW v \in Validators, v # t, NEW k \in Keys, NEW c,
               Unfixed(rows[k], c, k \in rivals[v])
        PROVE  Unfixed(rows'[k], c, k \in rivals'[v])
    <3>1. /\ rivals[v] \subseteq rivals'[v]
          /\ job[t].pc = "patch" /\ rows[job[t].key].made = job[t].seen.made
             => job[t].key \in rivals'[v]
      BY <1>1, <2>9, RivalsAt DEF Shapes, At, Matches
    <3>2. Unfixed(rows[k], c, k \in rivals'[v])
      BY <2>9, <3>1 DEF Unfixed
    <3>3. CASE job[t].pc = "patch" =>
                 job[t].key # k \/ rows[k].made # job[t].seen.made
      BY <2>8, <3>2, <3>3
    <3>4. CASE k \in rivals'[v]
      BY <2>9, <3>4 DEF Unfixed
    <3> QED BY <3>1, <3>3, <3>4
  <2>10. ASSUME NEW v \in Validators
         PROVE  FixedJob(rows', rivals'[v], job'[v])
    <3>2. Shapes' /\ job'[v] \in Job
      BY <1>1, ShapesInductive, JobTyped DEF Shapes, Threads
    <3>3. job'[v].pc \in Flushing \cup {"patch"} => job'[v].key \in Keys
      BY <3>2 DEF Shapes, JobShape, Proper, Shape, ValidatorShape, NeedsKey,
         Flushing, Threads
    <3>4. job'[v].todo \subseteq Keys
      BY <3>2 DEF Job
    <3>5. CASE v = t
      <4>1. /\ FixedJob(rows, rivals'[v], job'[v])
            /\ job[t].pc = "patch" =>
                 /\ job[t].key \notin job'[v].todo
                 /\ job'[v].pc \in {"idle", "scan"}
        BY <1>1, <3>5, ValidatorsAt DEF Fixed
      <4> QED BY <2>8, <3>3, <3>4, <4>1 DEF FixedJob, Flushing
    <3>6. CASE v # t
      <4>1. job'[v] = job[v] /\ FixedJob(rows, rivals[v], job[v])
        BY <2>2, <3>6 DEF Fixed, Threads
      <4> QED BY <2>9, <3>3, <3>4, <3>6, <4>1 DEF FixedJob
    <3> QED BY <3>5, <3>6
  <2> QED BY <2>7, <2>10 DEF Fixed
<1>2. CASE UNCHANGED <<rows, job, rivals>>
  BY <1>2 DEF Fixed
<1> QED BY <1>1, <1>2 DEF Next, IndexLoads, Hide, vars, history

\* However many runs of the validator overlap, an answer that one corrected
\* is overwritten by an older copy in one way only: by a run that scanned the
\* row before the correction and writes its own verdict back after it; neither
\* by the queued statistics of a hit nor by a verdict on a row that was stored
\* anew (cache_validator.py run_once, sqlite_cache_store.py
\* patch_metadata_if_matches): no number is stored twice, and what a scan
\* copied is as corrected as the row, until another run writes the row.
THEOREM CorrectionsStick == Spec => CorrectionSticks
<1> DEFINE Step == \A k \in Keys :
             rows[k].corrected /\ rows'[k].made = rows[k].made =>
               rows'[k].corrected \/ \E v \in Validators : Overtaken(v, k)
<1>1. Init => Numbers /\ Fixed
  BY DEF Init, Numbers, Fixed, FixedJob, Storing, None, NoRow, Idle, Flushing,
     Threads
<1>2. TypeOK /\ Shapes /\ Numbers /\ Fixed /\ [Next]_vars => (Numbers /\ Fixed)'
  BY NumbersInductive, FixedInductive
<1>3. Spec => [](TypeOK /\ Shapes /\ Numbers /\ Fixed)
  BY <1>1, <1>2, ShapesAlways, PTL DEF Spec
<1>4. ASSUME TypeOK, Shapes, Numbers, Fixed, Next PROVE Step
  <2>1. ASSUME NEW t \in Threads, ThreadStep(t), NEW k \in Keys,
               rows[k].corrected, rows'[k].made = rows[k].made
        PROVE  rows'[k].corrected \/ \E v \in Validators : Overtaken(v, k)
    <3>1. RowStep(job[t], k, rows[k], rows'[k])
      BY <1>4, <2>1, RowsAt
    <3>2. rows[k].made # 0
      BY <1>4, <2>1 DEF Fixed
    <3>3. job[t].pc = "upsert" => job[t].made # rows[k].made
      BY <1>4 DEF Numbers, Storing, Shapes, JobShape, Proper, Shape, InStore,
         StoreSteps
    <3>4. ASSUME job[t].pc = "patch", job[t].key = k,
                 rows[k].made = job[t].seen.made
          PROVE  \/ job[t].seen.corrected
                 \/ \E v \in Validators : Overtaken(v, k)
      <4>1. t \in Validators
        BY <1>4, <3>4 DEF Shapes, JobShape, Proper, WorkerShape, ScanSteps,
           Threads
      <4>2. job[t].seen.corrected \/ k \in rivals[t]
        BY <1>4, <2>1, <3>4, <4>1 DEF Fixed, FixedJob, Unfixed
      <4> QED BY <3>4, <4>1, <4>2 DEF Overtaken, At
    <3> QED BY <2>1, <3>1, <3>2, <3>3, <3>4
        DEF RowStep, SameMeaning, Written, Patched, NoRow
  <2>2. ASSUME UNCHANGED rows PROVE Step
    BY <2>2
  <2> QED BY <1>4, <2>1, <2>2 DEF Next, IndexLoads, Hide
<1>5. TypeOK /\ Shapes /\ Numbers /\ Fixed /\ [Next]_vars => [Step]_vars
  BY <1>4
<1>6. [][Next]_vars /\ [](TypeOK /\ Shapes /\ Numbers /\ Fixed) => [][Step]_vars
  BY <1>5, PTL
<1> QED BY <1>3, <1>6, PTL DEF Spec, CorrectionSticks
-----------------------------------------------------------------------------
(* Stores and their tokens. *)

\* With a window that holds every key no mark is dropped.
LEMMA NoMarkLeaves ==
  ASSUME Cardinality(Keys) <= MarkWindow, NEW k \in Keys
  PROVE  Marked(k) = [keyMarks EXCEPT ![k] = keySequence + 1]
<1> DEFINE marks == [keyMarks EXCEPT ![k] = keySequence + 1]
           held == {j \in Keys : marks[j] > 0}
<1>1. /\ IsFiniteSet(held) /\ Cardinality(held) \in Nat
      /\ Cardinality(held) <= Cardinality(Keys) /\ Cardinality(Keys) \in Nat
  <2>1. held \subseteq Keys
    OBVIOUS
  <2> HIDE DEF held
  <2> QED BY <2>1, SetsAssumption, FS_Subset, FS_CardinalityType
<1>2. Marked(k) = IF Cardinality(held) <= MarkWindow THEN marks
                  ELSE [marks EXCEPT ![Oldest(marks)] = 0]
  BY DEF Marked
<1> HIDE DEF marks, held
<1>3. Cardinality(held) <= MarkWindow
  BY <1>1, NumbersAssumption
<1> QED BY <1>2, <1>3 DEF marks

\* What a step does to what a token is compared with.
LEMMA MarksAt ==
  ASSUME TypeOK, Shapes, NEW t \in Threads, ThreadStep(t)
  PROVE  \/ /\ UNCHANGED <<generation, keySequence, keyMarks>>
            /\ \/ /\ UNCHANGED voided
                  /\ job[t].pc \in {"check", "upsert"} => job'[t].made # 0
               \/ voided' = [voided EXCEPT ![t] = {}] /\ job'[t].made = 0
         \/ job[t].made = 0 /\ \E k \in Keys : InvalidateKey(k)
         \/ job[t].made = 0 /\ FlushBegin(t)
<1> USE DEF cacheState, history
<1> DEFINE j == job[t]
<1>0. /\ j \in Job /\ Shape(j) /\ Rest(j).made = 0
      /\ \A n : Turns(t, n) => job'[t] = n
  BY DEF TypeOK, Shapes, JobShape, Proper, Turns, Rest, Idle
<1>m. j.pc \notin StoreSteps \cup Flushing => j.made = 0
  BY <1>0 DEF Shape, InStore, Job
<1> HIDE DEF j
<1>1. CASE Check(t)
  <2>1. CASE TokenValid(t)
    <3>1. Turns(t, [j EXCEPT !.pc = "upsert"])
      BY <1>1, <2>1, GotoTurns DEF Check, TypeOK, Steps, j
    <3>2. job'[t].made = j.made /\ j.made # 0
      BY <1>0, <1>1, <3>1 DEF Check, At, Shape, InStore, StoreSteps, Job, j
    <3> QED BY <1>1, <2>1, <3>2 DEF Check, j
  <2>2. CASE ~TokenValid(t)
    <3>1. Turns(t, Rest(j))
      BY <1>1, <2>2, DoneTurns DEF Check, TypeOK, j
    <3> QED BY <1>0, <1>1, <2>2, <3>1 DEF Check, Settled
  <2> QED BY <2>1, <2>2
<1>2. CASE Upsert(t)
  BY <1>0, <1>2, EndingTurns DEF Upsert, Settled, j
<1>3. CASE Mark(t)
  <2>1. j.pc = "mark" /\ j.key \in Keys
    BY <1>0, <1>3 DEF Mark, At, Shape, NeedsKey, j
  <2> QED BY <1>3, <1>m, <2>1 DEF Mark, StoreSteps, Flushing, j
<1>4. CASE EntityMark(t)
  <2>1. PICK k \in j.todo : InvalidateKey(k)
    BY <1>4 DEF EntityMark, j
  <2>2. k \in Keys /\ j.pc = "markAll"
    BY <1>0, <1>4 DEF Job, EntityMark, At, j
  <2> QED BY <1>m, <2>1, <2>2 DEF StoreSteps, Flushing, j
<1>5. CASE FlushBegin(t)
  <2>1. j.pc = "idle"
    BY <1>5, PlainTurns DEF j
  <2> QED BY <1>m, <1>5, <2>1 DEF StoreSteps, Flushing, j
<1>6. CASE \/ Swap(t) \/ Merge(t) \/ MergeFails(t) \/ ShutdownFlush(t)
           \/ StoreBegin(t) \/ Count(t) \/ Trim(t) \/ ReplayBegin(t) \/ Hit(t)
           \/ Verdict(t) \/ Probe(t) \/ Execute(t) \/ ManualDelete(t)
  BY <1>6 DEF Swap, Merge, MergeFails, ShutdownFlush, StoreBegin, Count, Trim,
     ReplayBegin, Hit, Verdict, Probe, Execute, ManualDelete, Free, At
<1>7. CASE \/ Delete(t) \/ EntityFind(t) \/ EntityDelete(t) \/ FlushCount(t)
           \/ Wipe(t) \/ Scan(t) \/ Judge(t) \/ Patch(t) \/ CompareDelete(t)
  BY <1>7 DEF Delete, EntityFind, EntityDelete, FlushCount, Wipe, Scan, Judge,
     Patch, CompareDelete, Free, At
<1> QED BY <1>1, <1>2, <1>3, <1>4, <1>5, <1>6, <1>7 DEF ThreadStep

LEMMA TokensInductive ==
  ASSUME Cardinality(Keys) <= MarkWindow,
         TypeOK, Shapes, Tokens, [Next]_vars
  PROVE  Tokens'
<1>1. ASSUME NEW t \in Threads, ThreadStep(t)
      PROVE  Tokens'
  <2>0. /\ generation \in Nat /\ keySequence \in Nat /\ attempts \in Nat
        /\ keyMarks \in [Keys -> Nat]
        /\ voided \in [Threads -> SUBSET {"key", "tier"}]
        /\ \A u \in Threads : /\ job[u].made \in Nat /\ job[u].gen \in Nat
                              /\ job[u].seq \in Nat
                              /\ job[u].made > 0 => job[u].key \in Keys
        /\ \A u \in Threads : Token(u)
        /\ \A k \in Keys : keyMarks[k] <= keySequence
        /\ job[t].pc = "idle" => job[t].made = 0
    BY DEF TypeOK, Job, Shapes, JobShape, Proper, Shape, InStore, StoreSteps,
       Flushing, Tokens
  <2>1. StampStep(job[t], job'[t])
    BY <1>1, StampAt
  <2>2. \A u \in Threads : u # t => job'[u] = job[u]
    BY <1>1, CopiesAt
  <2>3. CASE /\ UNCHANGED <<generation, keySequence, keyMarks>>
             /\ \/ /\ UNCHANGED voided
                   /\ job[t].pc \in {"check", "upsert"} => job'[t].made # 0
                \/ voided' = [voided EXCEPT ![t] = {}] /\ job'[t].made = 0
    <3>1. \A k \in Keys : keyMarks'[k] <= keySequence'
      BY <2>0, <2>3
    <3>2. ASSUME NEW u \in Threads PROVE Token(u)'
      <4>1. CASE u # t
        <5>1. job'[u] = job[u] /\ voided'[u] = voided[u]
          BY <2>0, <2>2, <2>3, <4>1
        <5> QED BY <2>0, <2>3, <5>1 DEF Token, Storing
      <4>2. CASE u = t
        <5>1. CASE job'[t].made = 0
          <6>1. voided'[t] = {}
            BY <2>0, <2>1, <2>3, <4>2, <5>1
               DEF Token, Storing, StampStep, SameStamp
          <6> QED BY <4>2, <5>1, <6>1 DEF Token, Storing
        <5>2. CASE SameStamp(job[t], job'[t]) /\ job'[t].made # 0
          BY <2>0, <2>3, <4>2, <5>2 DEF Token, Storing, SameStamp
        <5>3. CASE /\ job[t].pc = "idle" /\ job'[t].made = attempts + 1
                   /\ job'[t].key \in Keys
                   /\ job'[t].gen = generation /\ job'[t].seq = keySequence
                   /\ voided' = voided
          BY <2>0, <2>3, <4>2, <5>3 DEF Token, Storing
        <5> QED BY <2>1, <5>1, <5>2, <5>3 DEF StampStep
      <4> QED BY <4>1, <4>2
    <3> QED BY <3>1, <3>2 DEF Tokens
  <2>4. ASSUME job[t].made = 0, NEW k \in Keys, InvalidateKey(k)
        PROVE  Tokens'
    <3>1. /\ keySequence' = keySequence + 1 /\ generation' = generation
          /\ keyMarks' = [keyMarks EXCEPT ![k] = keySequence + 1]
          /\ voided' = [u \in Threads |-> IF Storing(u) /\ job[u].key = k
                                  THEN voided[u] \cup {"key"} ELSE voided[u]]
      BY <2>4, Voids, NoMarkLeaves DEF InvalidateKey
    <3>2. job'[t].made = 0
      BY <2>0, <2>1, <2>4, <3>1 DEF StampStep, SameStamp
    <3>3. \A q \in Keys : keyMarks'[q] <= keySequence'
      BY <2>0, <3>1
    <3>4. ASSUME NEW u \in Threads PROVE Token(u)'
      <4>1. CASE u = t
        BY <2>0, <2>4, <3>1, <3>2, <4>1 DEF Token, Storing
      <4>2. CASE u # t /\ job[u].made = 0
        BY <2>0, <2>2, <3>1, <4>2 DEF Token, Storing
      <4>3. CASE u # t /\ job[u].made > 0 /\ job[u].key = k
        <5>1. /\ job'[u] = job[u] /\ voided'[u] = voided[u] \cup {"key"}
              /\ keyMarks'[job[u].key] = keySequence + 1
          BY <2>0, <2>2, <3>1, <4>3 DEF Storing
        <5> QED BY <2>0, <3>1, <4>3, <5>1 DEF Token, Storing
      <4>4. CASE u # t /\ job[u].made > 0 /\ job[u].key # k
        <5>1. /\ job'[u] = job[u] /\ voided'[u] = voided[u]
              /\ keyMarks'[job[u].key] = keyMarks[job[u].key]
          BY <2>0, <2>2, <3>1, <4>4 DEF Storing
        <5> QED BY <2>0, <3>1, <4>4, <5>1 DEF Token, Storing
      <4> QED BY <2>0, <4>1, <4>2, <4>3, <4>4
    <3> QED BY <3>3, <3>4 DEF Tokens
  <2>5. ASSUME job[t].made = 0, FlushBegin(t)
        PROVE  Tokens'
    <3>1. /\ generation' = generation + 1
          /\ UNCHANGED <<keySequence, keyMarks, attempts>>
          /\ voided' = [u \in Threads |-> IF Storing(u)
                                  THEN voided[u] \cup {"tier"} ELSE voided[u]]
      BY <2>5, Voids DEF FlushBegin
    <3>2. job'[t].made = 0
      BY <2>0, <2>1, <2>5, <3>1 DEF StampStep, SameStamp
    <3>3. ASSUME NEW u \in Threads PROVE Token(u)'
      <4>1. CASE u = t
        BY <2>0, <2>5, <3>1, <3>2, <4>1 DEF Token, Storing
      <4>2. CASE u # t /\ job[u].made = 0
        BY <2>0, <2>2, <3>1, <4>2 DEF Token, Storing
      <4>3. CASE u # t /\ job[u].made > 0
        <5>1. job'[u] = job[u] /\ voided'[u] = voided[u] \cup {"tier"}
          BY <2>0, <2>2, <3>1, <4>3 DEF Storing
        <5> QED BY <2>0, <3>1, <4>3, <5>1 DEF Token, Storing
      <4> QED BY <2>0, <4>1, <4>2, <4>3
    <3> QED BY <2>0, <3>1, <3>3 DEF Tokens
  <2> QED BY <1>1, <2>3, <2>4, <2>5, MarksAt
<1>2. CASE UNCHANGED <<generation, keySequence, keyMarks, voided, job>>
  BY <1>2 DEF Tokens, Token, Storing
<1> QED BY <1>1, <1>2 DEF Next, IndexLoads, Hide, vars, cacheState, history

\* At its check a store is given up exactly when what it read has been
\* invalidated since it took its token, the tier or its own key, and not for
\* an invalidation of other rows (cache/_state.py store_token_valid,
\* _base_cache.py store): as long as the window of marks holds every key.
THEOREM AbortsAreJust ==
  ASSUME Cardinality(Keys) <= MarkWindow
  PROVE  Spec => AbortIffInvalidated
<1> DEFINE Step == \A t \in Threads :
             At(t, "check") /\ job'[t].pc # "check" =>
               (job'[t].pc = "idle" <=> voided[t] \cap {"key", "tier"} # {})
<1>1. Init => Tokens
  BY DEF Init, Tokens, Token, Storing, Idle
<1>2. TypeOK /\ Shapes /\ Tokens /\ [Next]_vars => Tokens'
  BY TokensInductive
<1>3. Spec => [](TypeOK /\ Shapes /\ Tokens)
  BY <1>1, <1>2, ShapesAlways, PTL DEF Spec
<1>4. ASSUME TypeOK, Shapes, Tokens, Next PROVE Step
  <2>1. ASSUME NEW t \in Threads, At(t, "check"), job'[t].pc # "check"
        PROVE  job'[t].pc = "idle" <=> voided[t] \cap {"key", "tier"} # {}
    <3>1. PICK u \in Threads : ThreadStep(u)
      BY <1>4, <2>1 DEF Next, IndexLoads, Hide, At
    <3>2. u = t
      BY <1>4, <2>1, <3>1, CopiesAt DEF At
    <3>3. /\ job[t].made > 0 /\ job[t].todo = {} /\ job[t] \in Job
          /\ voided[t] \subseteq {"key", "tier"}
      BY <1>4, <2>1 DEF Shapes, JobShape, Proper, Shape, InStore, StoreSteps,
         TypeOK, At
    <3>4. Check(t)
      BY <2>1, <3>1, <3>2 DEF ThreadStep, At, Swap, Merge, MergeFails,
         ShutdownFlush, StoreBegin, Count, Trim, Upsert, ReplayBegin, Hit,
         Verdict, Probe, Execute, ManualDelete, Mark, Delete, EntityFind,
         EntityMark, EntityDelete, FlushBegin, FlushCount, Wipe, Scan, Judge,
         Patch, CompareDelete, Free
    <3>5. TokenValid(t) <=> voided[t] = {}
      BY <1>4, <3>3 DEF Tokens, Token, Storing, TokenValid, TypeOK
    <3>6. CASE TokenValid(t)
      <4>1. Turns(t, [job[t] EXCEPT !.pc = "upsert"])
        BY <1>4, <3>4, <3>6, GotoTurns DEF Check, TypeOK, Steps
      <4>2. job'[t].pc = "upsert"
        BY <3>3, <4>1 DEF Turns, Job
      <4> QED BY <3>5, <3>6, <4>2
    <3>7. CASE ~TokenValid(t)
      <4>1. Turns(t, Rest(job[t]))
        BY <1>4, <3>4, <3>7, DoneTurns DEF Check, TypeOK
      <4>2. job'[t].pc = "idle"
        BY <3>3, <4>1 DEF Turns, Rest, Idle
      <4> QED BY <3>3, <3>5, <3>7, <4>2
    <3> QED BY <3>6, <3>7
  <2> QED BY <2>1
<1>5. TypeOK /\ Shapes /\ Tokens /\ [Next]_vars => [Step]_vars
  BY <1>4
<1>6. [][Next]_vars /\ [](TypeOK /\ Shapes /\ Tokens) => [][Step]_vars
  BY <1>5, PTL
<1> QED BY <1>3, <1>6, PTL DEF Spec, AbortIffInvalidated

\* Every variable of the cache keeps its type, and every thread the shape of
\* its call.
THEOREM Typing == Spec => [](TypeOK /\ Shapes)
  BY ShapesAlways
=============================================================================
