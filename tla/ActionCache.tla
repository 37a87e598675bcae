----------------------------- MODULE ActionCache -----------------------------
(***************************************************************************)
(* The action tier of the cache: container/app/cache/_state.py,            *)
(* _base_cache.py, action_cache.py, cache_manager.py, cache_validator.py   *)
(* and the action_cache table of sqlite_cache_store.py.                    *)
(*                                                                         *)
(* Cache calls run on worker threads (asyncio.to_thread).  A method of     *)
(* _CacheState is atomic under the lock of the state, a method of          *)
(* SqliteCacheStore under the lock of the store; everything a thread does  *)
(* between two of them interleaves with the other threads.  Each action    *)
(* below is one such locked section, with the local code that follows it.  *)
(*                                                                         *)
(* A turn that executed an action stores it under the hash of its text; a  *)
(* later turn with the same text replays it.  Flushes, deletions, registry *)
(* events and the validator remove or correct rows in the meantime.        *)
(***************************************************************************)
EXTENDS Integers, FiniteSets

CONSTANTS
  Keys,             \* entry ids (hashes of text and language)
  Entities,         \* Home Assistant entities
  NoKey, NoEntity,  \* stand for None
  Workers,          \* worker threads of turns and of the admin API
  Validators,       \* runs of the cache validator
  Scenarios,        \* bound: what an instance does; one is chosen at first
  MaxHits,          \* bound: hit count of a row
  FlushInterval,    \* _flush_interval
  EvictionInterval, \* _eviction_interval
  LruTrigger,       \* int(max_entries * trigger_fraction)
  LruTarget,        \* int(max_entries * 0.9)
  MarkWindow        \* _MAX_KEY_INVALIDATIONS

AllOps == {"store", "replay", "forget", "entity", "flush", "shutdown",
           "validate", "fault"}

ASSUME SetsAssumption ==
  /\ IsFiniteSet(Keys) /\ NoKey \notin Keys /\ NoEntity \notin Entities
  /\ Workers \cap Validators = {}

\* ops: the kinds of call; stores: calls of store; invalidations: flushes, and
\* invalidations of single rows; busy: workers with a call at a time; passes:
\* runs of the validator at a time.
ASSUME ScenariosAssumption ==
  Scenarios \subseteq [ops : SUBSET AllOps, stores : Nat, invalidations : Nat,
                      busy : Nat, passes : Nat]

ASSUME NumbersAssumption ==
  /\ MaxHits \in Nat
  /\ LruTrigger \in Nat /\ LruTarget \in Nat
  /\ FlushInterval \in Nat \ {0} /\ EvictionInterval \in Nat \ {0}
  /\ MarkWindow \in Nat \ {0}

VARIABLES
  rows,           \* the table action_cache
  generation,     \* _invalidation_generation
  keySequence,    \* _key_sequence
  keyMarks,       \* _key_invalidations; 0: no mark
  pending,        \* _pending_updates: the metadata a hit left behind
  hitsSinceFlush, \* _hit_since_flush
  storeCount,     \* _store_count
  indexReady,     \* entity_index_ready: the index has loaded a snapshot
  hidden,         \* entities an agent may no longer see
  job,            \* what each thread is doing
  attempts,       \* calls of store so far; numbers the rows
  voided,         \* history: what was invalidated under a running store
  rivals,         \* history: rows written by others since a validator's scan
  bound           \* the scenario

cacheState == <<generation, keySequence, keyMarks, pending, hitsSinceFlush>>
world == <<indexReady, hidden, bound>>
history == <<voided, rivals>>
vars == <<rows, cacheState, storeCount, world, job, attempts, history>>

Threads == Workers \cup Validators

(* A row.  created_at is the time of the store call that wrote it, which   *)
(* nothing but its identity matters of: it is the number of that call.     *)
(* answer is the store call whose speech response_text holds or corrects.  *)
Row == [made : Nat, answer : Nat, entity : Entities \cup {NoEntity},
        corrected : BOOLEAN, validated : BOOLEAN, hits : Nat]

NoRow == [made |-> 0, answer |-> 0, entity |-> NoEntity,
          corrected |-> FALSE, validated |-> FALSE, hits |-> 0]

Present(row) == row.made > 0
None == [k \in Keys |-> NoRow]
Held == {k \in Keys : Present(rows[k])}
Without(ks) == [k \in Keys |-> IF k \in ks THEN NoRow ELSE rows[k]]

Steps == {"idle", "swap", "merge", "count", "trim", "check", "upsert",
          "hit", "verdict", "probe", "execute", "mark", "delete",
          "markAll", "deleteAll", "countAll", "wipe",
          "scan", "patch", "compareDelete"}

Job == [pc : Steps, back : Steps, key : Keys \cup {NoKey},
        entity : Entities \cup {NoEntity}, made : Nat, gen : Nat, seq : Nat,
        batch : [Keys -> Row], seen : Row, scan : [Keys -> Row],
        todo : SUBSET Keys, doomed : SUBSET Keys, over : Nat, fix : BOOLEAN]

Idle == [pc |-> "idle", back |-> "idle", key |-> NoKey, entity |-> NoEntity,
         made |-> 0, gen |-> 0, seq |-> 0, batch |-> None, seen |-> NoRow,
         scan |-> None, todo |-> {}, doomed |-> {}, over |-> 0, fix |-> FALSE]

TypeOK ==
  /\ rows \in [Keys -> Row] /\ pending \in [Keys -> Row]
  /\ generation \in Nat /\ keySequence \in Nat /\ keyMarks \in [Keys -> Nat]
  /\ hitsSinceFlush \in Nat /\ storeCount \in 0..EvictionInterval - 1
  /\ indexReady \in BOOLEAN /\ hidden \subseteq Entities
  /\ job \in [Threads -> Job] /\ attempts \in Nat
  /\ voided \in [Threads -> SUBSET {"key", "tier"}]
  /\ rivals \in [Validators -> SUBSET Keys] /\ bound \in Scenarios

Init ==
  /\ rows = None /\ pending = None
  /\ generation = 0 /\ keySequence = 0 /\ keyMarks = [k \in Keys |-> 0]
  /\ hitsSinceFlush = 0 /\ storeCount = 0
  /\ indexReady = FALSE /\ hidden = {}
  /\ job = [t \in Threads |-> Idle] /\ attempts = 0
  /\ voided = [t \in Threads |-> {}]
  /\ rivals = [v \in Validators |-> {}] /\ bound \in Scenarios

-----------------------------------------------------------------------------
(* Threads. *)

At(t, step) == job[t].pc = step
Free(t, op) ==
  /\ t \in Workers /\ At(t, "idle") /\ op \in bound.ops
  /\ Cardinality({u \in Workers : ~At(u, "idle")}) < bound.busy

Goto(t, step) == job' = [job EXCEPT ![t].pc = step]

\* The call returns; a validator goes on to the next row of its scan.
Done(t) ==
  job' = [job EXCEPT ![t] =
            IF @.todo = {} THEN Idle
            ELSE [Idle EXCEPT !.pc = "scan", !.scan = job[t].scan,
                              !.todo = job[t].todo]]

Resume(t) == IF job[t].back = "idle" THEN Done(t)
             ELSE job' = [job EXCEPT ![t].pc = job[t].back,
                                    ![t].batch = None]

\* A store from its token to the end of its upsert.
Storing(t) == job[t].made > 0

\* History: the stores an invalidation is meant for.
Void(what, Affects(_)) ==
  voided' = [t \in Threads |->
               IF Storing(t) /\ Affects(t) THEN voided[t] \cup {what}
               ELSE voided[t]]

Settled(t) == voided' = [voided EXCEPT ![t] = {}]

-----------------------------------------------------------------------------
(* _CacheState. *)

\* store_token_valid: neither a flush nor an invalidation of the key ran
\* since the token was taken; a mark that left the window counts as absent.
TokenValid(t) ==
  /\ job[t].gen = generation
  /\ keyMarks[job[t].key] <= job[t].seq

Oldest(marks) ==
  CHOOSE k \in Keys : /\ marks[k] > 0
                      /\ \A j \in Keys : marks[j] > 0 => marks[k] <= marks[j]

\* The marks after one for k: at most MarkWindow, the oldest leaves first.
Marked(k) ==
  LET marks == [keyMarks EXCEPT ![k] = keySequence + 1]
      held == {j \in Keys : marks[j] > 0}
  IN  IF Cardinality(held) <= MarkWindow THEN marks
      ELSE [marks EXCEPT ![Oldest(marks)] = 0]

\* (faulty) one row's invalidation aborts the stores of the whole tier
InvalidateKeyTierWide(k) ==
  /\ generation' = generation + 1
  /\ pending' = None /\ hitsSinceFlush' = 0
  /\ Void("key", LAMBDA t : job[t].key = k)
  /\ UNCHANGED <<keySequence, keyMarks>>

\* _CacheState.invalidate_key
InvalidateKey(k) ==
  /\ keySequence' = keySequence + 1
  /\ keyMarks' = Marked(k)
  /\ pending' = [pending EXCEPT ![k] = NoRow]
  /\ hitsSinceFlush' = IF Present(pending[k]) /\ hitsSinceFlush > 0
                       THEN hitsSinceFlush - 1 ELSE hitsSinceFlush
  /\ Void("key", LAMBDA t : job[t].key = k)
  /\ UNCHANGED generation

-----------------------------------------------------------------------------
(* _flush_pending_updates: take the queued hits, merge them into the rows. *)

Swap(t) ==
  /\ At(t, "swap")
  /\ pending' = None /\ hitsSinceFlush' = 0
  /\ IF pending = None THEN Resume(t)
     ELSE job' = [job EXCEPT ![t].pc = "merge", ![t].batch = pending]
  /\ UNCHANGED <<rows, generation, keySequence, keyMarks, storeCount, world,
                 attempts, history>>

\* (faulty) the whole metadata of the hit is written, not only its statistics
MergedWholesale(k, hit) ==
  IF Present(hit) /\ Present(rows[k]) THEN hit ELSE rows[k]

\* update_access_stats of one row: deleted rows stay deleted.
Merged(k, hit) ==
  IF Present(hit) /\ Present(rows[k]) THEN [rows[k] EXCEPT !.hits = hit.hits]
  ELSE rows[k]

Merge(t) ==
  /\ At(t, "merge")
  /\ rows' = [k \in Keys |-> Merged(k, job[t].batch[k])]
  /\ Resume(t)
  /\ UNCHANGED <<cacheState, storeCount, world, attempts, history>>

\* The statement fails: requeue_failed, unless a newer hit is queued.
MergeFails(t) ==
  /\ At(t, "merge") /\ "fault" \in bound.ops
  /\ pending' = [k \in Keys |-> IF Present(pending[k]) THEN pending[k]
                                ELSE job[t].batch[k]]
  /\ Resume(t)
  /\ UNCHANGED <<rows, generation, keySequence, keyMarks, hitsSinceFlush,
                 storeCount, world, attempts, history>>

\* CacheManager.flush_pending at shutdown.
ShutdownFlush(t) ==
  /\ Free(t, "shutdown")
  /\ job' = [job EXCEPT ![t].pc = "swap"]
  /\ UNCHANGED <<rows, cacheState, storeCount, world, attempts, history>>

-----------------------------------------------------------------------------
(* store: token, every so often an eviction, flush of the queued hits,     *)
(* check of the token, upsert.  record_store touches only its own counter, *)
(* so it is one step with store_token.                                     *)

StoreBegin(t) ==
  /\ Free(t, "store") /\ attempts < bound.stores
  /\ attempts' = attempts + 1
  /\ \E k \in Keys, e \in Entities :
       LET due == storeCount + 1 >= EvictionInterval IN
       /\ storeCount' = IF due THEN 0 ELSE storeCount + 1
       /\ job' = [job EXCEPT ![t] =
            [Idle EXCEPT !.pc = "swap", !.key = k, !.entity = e,
                         !.back = IF due THEN "count" ELSE "check",
                         !.made = attempts + 1,
                         !.gen = generation, !.seq = keySequence]]
  /\ UNCHANGED <<rows, cacheState, world, history>>

\* _enforce_lru: how many rows are too many ...
Count(t) ==
  /\ At(t, "count")
  /\ LET count == Cardinality(Held)
     IN  job' = [job EXCEPT
           ![t].pc = IF count > LruTrigger /\ count > LruTarget
                     THEN "trim" ELSE "swap",
           ![t].back = "check",
           ![t].over = IF count > LruTarget THEN count - LruTarget ELSE 0]
  /\ UNCHANGED <<rows, cacheState, storeCount, world, attempts, history>>

\* ... and delete_oldest.  Which rows are the oldest is not kept: any.
Trim(t) ==
  /\ At(t, "trim")
  /\ \E old \in SUBSET Held :
       /\ Cardinality(old) = job[t].over \/ old = Held
       /\ Cardinality(old) <= job[t].over
       /\ rows' = Without(old)
  /\ Goto(t, "swap")
  /\ UNCHANGED <<cacheState, storeCount, world, attempts, history>>

Check(t) ==
  /\ At(t, "check")
  /\ IF TokenValid(t) THEN Goto(t, "upsert") /\ UNCHANGED voided
     ELSE Done(t) /\ Settled(t)
  /\ UNCHANGED <<rows, cacheState, storeCount, world, attempts, rivals>>

Upsert(t) ==
  /\ At(t, "upsert")
  /\ rows' = [rows EXCEPT ![job[t].key] =
                [NoRow EXCEPT !.made = job[t].made, !.answer = job[t].made,
                              !.entity = job[t].entity]]
  /\ Done(t) /\ Settled(t)
  /\ UNCHANGED <<cacheState, storeCount, world, attempts, rivals>>

-----------------------------------------------------------------------------
(* try_replay_action. *)

\* The lookup reads the row ...
ReplayBegin(t) ==
  /\ Free(t, "replay")
  /\ \E k \in Held :
       /\ rows[k].hits < MaxHits
       /\ job' = [job EXCEPT ![t] = [Idle EXCEPT !.pc = "hit", !.key = k,
                                                 !.seen = rows[k]]]
  /\ UNCHANGED <<rows, cacheState, storeCount, world, attempts, history>>

\* ... and queues its metadata with the hit count raised.
Hit(t) ==
  /\ At(t, "hit")
  /\ pending' = [pending EXCEPT ![job[t].key] =
                   [job[t].seen EXCEPT !.hits = @ + 1]]
  /\ hitsSinceFlush' = hitsSinceFlush + 1
  /\ job' = [job EXCEPT
               ![t].pc = IF hitsSinceFlush' >= FlushInterval THEN "swap"
                         ELSE "verdict",
               ![t].back = "verdict"]
  /\ UNCHANGED <<rows, generation, keySequence, keyMarks, storeCount, world,
                 attempts, history>>

\* The rechecks of the turn: the agent is gone (delete), the origin does not
\* match (keep), the entity is not visible, or the row may be replayed.
\* Before its first snapshot the index may hold an entity or not.
Verdict(t) ==
  /\ At(t, "verdict")
  /\ \/ Goto(t, "mark")
     \/ Done(t)
     \/ (~indexReady \/ job[t].seen.entity \in hidden) /\ Goto(t, "probe")
     \/ (~indexReady \/ job[t].seen.entity \notin hidden) /\ Goto(t, "execute")
  /\ UNCHANGED <<rows, cacheState, storeCount, world, attempts, history>>

\* A row that failed the visibility check is deleted when the index is loaded.
Probe(t) ==
  /\ At(t, "probe")
  /\ IF indexReady THEN Goto(t, "mark") ELSE Done(t)
  /\ UNCHANGED <<rows, cacheState, storeCount, world, attempts, history>>

\* The service call returns or fails, or is refused as sensitive (delete).
Execute(t) ==
  /\ At(t, "execute")
  /\ Done(t) \/ Goto(t, "mark")
  /\ UNCHANGED <<rows, cacheState, storeCount, world, attempts, history>>

-----------------------------------------------------------------------------
(* Invalidations. *)

MayInvalidate == keySequence < bound.invalidations

\* invalidate_action of the admin API.
ManualDelete(t) ==
  /\ Free(t, "forget") /\ MayInvalidate
  /\ \E k \in Keys :
       job' = [job EXCEPT ![t] = [Idle EXCEPT !.pc = "mark", !.key = k]]
  /\ UNCHANGED <<rows, cacheState, storeCount, world, attempts, history>>

\* invalidate_by_entry_id marks the key and then deletes the row; the
\* validator has deleted it when it marks (invalidate_if_unchanged).
Mark(t) ==
  /\ At(t, "mark")
  /\ InvalidateKey(job[t].key)
  /\ IF t \in Validators THEN Done(t) ELSE Goto(t, "delete")
  /\ UNCHANGED <<rows, storeCount, world, attempts, rivals>>

Delete(t) ==
  /\ At(t, "delete")
  /\ rows' = Without({job[t].key})
  /\ Done(t)
  /\ UNCHANGED <<cacheState, storeCount, world, attempts, history>>

\* invalidate_by_entity_id: find the rows, mark them one by one, delete them.
EntityFind(t) ==
  /\ Free(t, "entity") /\ MayInvalidate
  /\ \E e \in Entities :
       LET found == {k \in Keys : rows[k].entity = e} IN
       /\ found # {}
       /\ job' = [job EXCEPT ![t].pc = "markAll", ![t].todo = found,
                             ![t].doomed = found]
  /\ UNCHANGED <<rows, cacheState, storeCount, world, attempts, history>>

EntityMark(t) ==
  /\ At(t, "markAll")
  /\ \E k \in job[t].todo :
       /\ InvalidateKey(k)
       /\ job' = [job EXCEPT
            ![t].todo = @ \ {k},
            ![t].pc = IF job[t].todo = {k} THEN "deleteAll" ELSE @]
  /\ UNCHANGED <<rows, storeCount, world, attempts, rivals>>

EntityDelete(t) ==
  /\ At(t, "deleteAll")
  /\ rows' = Without(job[t].doomed)
  /\ Done(t)
  /\ UNCHANGED <<cacheState, storeCount, world, attempts, history>>

\* flush: _CacheState.invalidate, count, delete_all when there is something.
FlushBegin(t) ==
  /\ Free(t, "flush") /\ generation < bound.invalidations
  /\ generation' = generation + 1
  /\ pending' = None /\ hitsSinceFlush' = 0
  /\ Void("tier", LAMBDA s : TRUE)
  /\ Goto(t, "countAll")
  /\ UNCHANGED <<rows, keySequence, keyMarks, storeCount, world, attempts,
                 rivals>>

FlushCount(t) ==
  /\ At(t, "countAll")
  /\ IF Held = {} THEN Done(t) ELSE Goto(t, "wipe")
  /\ UNCHANGED <<rows, cacheState, storeCount, world, attempts, history>>

Wipe(t) ==
  /\ At(t, "wipe")
  /\ rows' = None
  /\ Done(t)
  /\ UNCHANGED <<cacheState, storeCount, world, attempts, history>>

-----------------------------------------------------------------------------
(* ActionCacheValidator.run_once: a scan of the rows, then one verdict of  *)
(* the model per row that is not validated.  Nothing keeps the periodic    *)
(* run and one that the admin API starts from overlapping.                 *)

Scan(v) ==
  /\ v \in Validators /\ At(v, "idle") /\ "validate" \in bound.ops
  /\ Cardinality({u \in Validators : ~At(u, "idle")}) < bound.passes
  /\ rivals' = [rivals EXCEPT ![v] = {}]
  /\ LET open == {k \in Held : ~rows[k].validated} IN
     /\ open # {}
     /\ job' = [job EXCEPT ![v].pc = "scan", ![v].todo = open,
                           ![v].scan = rows]
  /\ UNCHANGED <<rows, cacheState, storeCount, world, attempts, voided>>

\* Consistent or corrected: write back; invalid: delete; no better text: keep.
Judge(v) ==
  /\ At(v, "scan")
  /\ \E k \in job[v].todo :
       LET work == [job[v] EXCEPT !.todo = @ \ {k}, !.key = k,
                                  !.seen = job[v].scan[k]]
           left == [Idle EXCEPT !.pc = "scan", !.scan = job[v].scan,
                                !.todo = job[v].todo \ {k}]
       IN  \/ \E fix \in BOOLEAN :
                job' = [job EXCEPT ![v] = [work EXCEPT !.pc = "swap",
                                             !.back = "patch", !.fix = fix]]
           \/ MayInvalidate /\
              job' = [job EXCEPT ![v] = [work EXCEPT !.pc = "compareDelete"]]
           \/ job' = [job EXCEPT ![v] = IF left.todo = {} THEN Idle ELSE left]
  /\ UNCHANGED <<rows, cacheState, storeCount, world, attempts, history>>

\* (faulty) the row is written by key alone
MatchesKey(v) == Present(rows[job[v].key])

\* _row_metadata_matches: the row still has the created_at of the scan.
Matches(v) == rows[job[v].key].made = job[v].seen.made

\* patch_metadata_if_matches
Patch(v) ==
  /\ At(v, "patch")
  /\ rows' = IF Matches(v)
             THEN [rows EXCEPT
                     ![job[v].key].answer = job[v].seen.answer,
                     ![job[v].key].corrected = job[v].fix \/ job[v].seen.corrected,
                     ![job[v].key].validated = TRUE]
             ELSE rows
  /\ Done(v)
  /\ rivals' = [u \in Validators |->
                  IF u = v \/ ~Matches(v) THEN rivals[u]
                  ELSE rivals[u] \cup {job[v].key}]
  /\ UNCHANGED <<cacheState, storeCount, world, attempts, voided>>

\* delete_if_metadata_matches
CompareDelete(v) ==
  /\ At(v, "compareDelete")
  /\ IF Matches(v)
     THEN /\ rows' = Without({job[v].key})
          /\ Goto(v, "mark")
     ELSE Done(v) /\ UNCHANGED rows
  /\ UNCHANGED <<cacheState, storeCount, world, attempts, history>>

-----------------------------------------------------------------------------
(* The world. *)

IndexLoads ==
  /\ ~indexReady /\ "replay" \in bound.ops
  /\ indexReady' = TRUE
  /\ UNCHANGED <<rows, cacheState, storeCount, hidden, bound, job, attempts,
                 history>>

Hide ==
  /\ "replay" \in bound.ops
  /\ \E e \in Entities \ hidden : hidden' = hidden \cup {e}
  /\ UNCHANGED <<rows, cacheState, storeCount, indexReady, bound, job,
                 attempts, history>>

ThreadStep(t) ==
  \/ Swap(t) \/ Merge(t) \/ MergeFails(t) \/ ShutdownFlush(t)
  \/ StoreBegin(t) \/ Count(t) \/ Trim(t) \/ Check(t) \/ Upsert(t)
  \/ ReplayBegin(t) \/ Hit(t) \/ Verdict(t) \/ Probe(t) \/ Execute(t)
  \/ ManualDelete(t) \/ Mark(t) \/ Delete(t)
  \/ EntityFind(t) \/ EntityMark(t) \/ EntityDelete(t)
  \/ FlushBegin(t) \/ FlushCount(t) \/ Wipe(t)
  \/ Scan(t) \/ Judge(t) \/ Patch(t) \/ CompareDelete(t)

Next == IndexLoads \/ Hide \/ \E t \in Threads : ThreadStep(t)

Spec == Init /\ [][Next]_vars

-----------------------------------------------------------------------------
(* Properties. *)

\* A row speaks only for the action it stores: response_text is the speech of
\* the turn that stored the row, or a correction the validator made of that
\* very speech, never of an earlier row under the same key.
AnswersStayWithTheirAction ==
  \A k \in Keys : rows[k].answer = rows[k].made

\* Only the upsert of a store makes a row appear or changes the row a key
\* stands for; a queued hit or a verdict of the validator, which both work on
\* an older copy, neither revive a deleted row nor bring back a replaced one.
NoRevival ==
  [][\A k \in Keys :
       Present(rows'[k]) /\ rows'[k].made # rows[k].made =>
         \E t \in Threads : /\ At(t, "upsert") /\ job[t].key = k
                            /\ job[t].made = rows'[k].made]_vars

\* Validator v writes back a row that another run wrote since v's scan.
Overtaken(v, k) == At(v, "patch") /\ job[v].key = k /\ k \in rivals[v]

\* A corrected answer stays corrected as long as the row exists: neither the
\* metadata a hit copied before the correction nor what a validator scanned
\* before is written over it, but by a run that another overtook.
\* (patch_if_unchanged, _base_cache.py:277, would have no exception: it merges
\* the result of a run only while the row is unchanged; but what it compares,
\* created_at, a correction does not change.)
CorrectionSticks ==
  [][\A k \in Keys :
       rows[k].corrected /\ rows'[k].made = rows[k].made =>
         rows'[k].corrected \/ \E v \in Validators : Overtaken(v, k)]_vars

\* At its check a store is given up exactly when the tier was flushed or its
\* own row was invalidated since the store began; the invalidation of another
\* row never costs it (as long as its mark is still in the window).
AbortIffInvalidated ==
  [][\A t \in Threads :
       At(t, "check") /\ job'[t].pc # "check" =>
         (job'[t].pc = "idle" <=> voided[t] \cap {"key", "tier"} # {})]_vars

=============================================================================
