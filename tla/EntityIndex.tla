----------------------------- MODULE EntityIndex ----------------------------
(***************************************************************************)
(* The entity index and its sync: container/app/entity/index.py, the       *)
(* tasks of container/app/bootstrap/_entity.py that feed it, and the       *)
(* registry cache of container/app/ha_client/rest.py.                      *)
(*                                                                         *)
(* The index has an entry per visible entity of Home Assistant, once in    *)
(* memory (primary) and once in a vector collection (stored).  Entries     *)
(* come from full snapshots, from state_changed pushes that a flush task   *)
(* writes in batches, and from registry events.  Entries of different      *)
(* entities do not meet, so the module follows one entity, the others are  *)
(* only there to keep a snapshot from being empty.                         *)
(*                                                                         *)
(* A name has two sources, read at different times: the friendly_name of   *)
(* the state and the entity's own name in the registry.  The index speaks  *)
(* the own name when both belong together and the friendly_name otherwise. *)
(* Both are numbered; they belong together when the numbers are equal.     *)
(*                                                                         *)
(* Index calls run in worker threads.  A write touches the collection      *)
(* first and the memory, with its mutation generation, second.             *)
(***************************************************************************)
EXTENDS Integers, Sequences, FiniteSets

CONSTANTS
  MaxEvents, \* bound: changes and pushes of the entity in Home Assistant
  Scenarios  \* bounds, one set of them per behaviour: what happens to the
             \* entity in Home Assistant, the syncs that take place, how many
             \* run at the same time, losses of the connection, fetches and
             \* builds that fail

Syncs == {"prime", "deferred", "periodic", "reconnect"}

Kinds == {"rename", "visibility", "remove", "create", "push"}

ASSUME EventBounds ==
  /\ MaxEvents \in Nat
  /\ Scenarios \subseteq [kinds : SUBSET Kinds, active : SUBSET Syncs,
                          overlap : Nat, drops : Nat, faults : Nat]

VARIABLES
  ha,      \* Home Assistant's own state machine and registry
  ver,     \* history: the events it emitted, a clock of information
  net,     \* the WebSocket is connected and subscribed
  wire,    \* events on their way
  cached,  \* registry in the TTL cache of the REST client
  last,    \* its last registry that was read successfully
  known,   \* app.state.hidden_entity_ids has the entity
  names,   \* app.state.entity_lookups: its own name, by number
  primary, \* the entry in memory
  stored,  \* the name in the vector collection
  loaded,  \* initial_snapshot_loaded
  queue,   \* entity_update_queue: the last update of the entity
  flush,   \* _flush_entity_updates
  recv,    \* the receive loop, while it awaits a removal
  tasks,   \* holder and waiters of registry_refresh_lock
  handler, \* the registry handler that holds it
  job,     \* the four snapshot syncs
  degraded, \* history: a snapshot was read without the hidden list
  drops, faults,
  bound    \* the scenario

haVars   == <<ha, ver, net, wire, drops, bound>>
regVars  == <<cached, last>>
appVars  == <<known, names, loaded, degraded>>
idxVars  == <<primary, stored>>
pushVars == <<queue, flush, recv>>
lockVars == <<tasks, handler>>

vars == <<ha, ver, net, wire, drops, cached, last, known, names, loaded,
          degraded, primary, stored, queue, flush, recv, tasks, handler, job,
          faults, bound>>

-----------------------------------------------------------------------------
Absent == <<0, FALSE>>
NoReg  == [hid |-> FALSE, own |-> 0]
Gone   == 0

\* choose_entity_name: the own name, if the friendly_name is built from it
NameOf(st, own) == <<st, st = own>>

Entry(name, at) == [name |-> name, at |-> at]
NoEntry == Entry(Absent, 0)

Names   == (0 .. MaxEvents + 1) \X BOOLEAN
Entries == [name : Names, at : 0 .. MaxEvents]
Regs    == [hid : BOOLEAN, own : 0 .. MaxEvents + 1]

\* parse_ha_states, state_to_entity_index_entry
Built(st, reg) ==
  IF st = Gone \/ reg.hid THEN Absent ELSE NameOf(st, reg.own)

IdleJob == [pc |-> "idle", st |-> Gone, at |-> 0, reg |-> NoReg,
            touched |-> FALSE, skip |-> FALSE, was |-> Absent,
            build |-> FALSE, passed |-> FALSE]
JobPcs == {"idle", "wait", "lock", "states", "registry", "publish", "hidden",
           "plan", "write", "install", "done"}

IdleHandler == [pc |-> "idle", st |-> Gone, at |-> 0, reg |-> NoReg]
IdleFlush   == [pc |-> "idle", entry |-> NoEntry]
IdleRecv    == [pc |-> "idle", at |-> 0]

Running(s) == job[s].pc \notin {"idle", "wait", "lock", "done"}

Truth == [hid |-> ha.hidden, own |-> ha.own]
Known == last # NoReg

\* What the index should hold.
Mirror == IF ha.live THEN Built(ha.st, Truth) ELSE Absent

Init ==
  /\ bound \in Scenarios
  /\ \E l, h \in BOOLEAN :
       /\ h => l
       /\ ha = [live |-> l, hidden |-> h, own |-> 1, st |-> 1]
  /\ ver = 0 /\ net = FALSE /\ wire = <<>>
  /\ cached = NoReg /\ last = NoReg /\ known = FALSE /\ names = 0
  /\ primary = NoEntry /\ stored = NameOf(1, 1)
  /\ loaded = FALSE /\ queue = NoEntry
  /\ flush = IdleFlush /\ recv = IdleRecv
  /\ tasks = <<>> /\ handler = IdleHandler
  /\ job = [s \in Syncs |->
              CASE s \notin bound.active -> [IdleJob EXCEPT !.pc = "done"]
                [] s = "prime"     -> [IdleJob EXCEPT !.pc = "wait"]
                [] OTHER           -> IdleJob]
  /\ degraded = FALSE
  /\ drops = 0 /\ faults = 0

-----------------------------------------------------------------------------
(* Home Assistant and the connection                                       *)

StateEvent(new, old) == [kind |-> "state", new |-> new, old |-> old,
                         at |-> ver']
RegEvent(kind) == [kind |-> kind, new |-> Gone, old |-> FALSE, at |-> ver']

Emit(events) ==
  /\ wire' = IF net THEN wire \o events ELSE <<>>
  /\ UNCHANGED <<net, drops, bound, regVars, appVars, idxVars, pushVars, lockVars,
                 job, faults>>

Change == ver < MaxEvents /\ ver' = ver + 1

\* The registry changes first, the entity writes its state after that.
Rename ==
  /\ "rename" \in bound.kinds /\ Change /\ ha.live /\ ha.st = ha.own
  /\ ha' = [ha EXCEPT !.own = ver' + 1]
  /\ Emit(<<RegEvent("event")>>)

WriteState ==
  /\ ha.live /\ ha.st # ha.own /\ UNCHANGED ver
  /\ ha' = [ha EXCEPT !.st = ha.own]
  /\ Emit(<<StateEvent(ha.own, TRUE)>>)

Visibility ==
  /\ "visibility" \in bound.kinds /\ Change /\ ha.live
  /\ ha' = [ha EXCEPT !.hidden = ~@]
  /\ Emit(<<RegEvent("event")>>)

Remove ==
  /\ "remove" \in bound.kinds /\ Change /\ ha.live
  /\ ha' = [ha EXCEPT !.live = FALSE]
  /\ Emit(<<RegEvent("event"), StateEvent(Gone, TRUE)>>)

Create ==
  /\ "create" \in bound.kinds /\ Change /\ ~ha.live
  /\ ha' = [live |-> TRUE, hidden |-> FALSE, own |-> ver' + 1, st |-> ver' + 1]
  /\ Emit(<<RegEvent("create"), StateEvent(ver' + 1, FALSE)>>)

\* A new brightness, say: the entity is the same.
Push ==
  /\ "push" \in bound.kinds /\ Change /\ ha.live /\ UNCHANGED ha
  /\ Emit(<<StateEvent(ha.st, TRUE)>>)

Drop ==
  /\ net /\ drops < bound.drops /\ drops' = drops + 1
  /\ net' = FALSE /\ wire' = <<>>
  /\ UNCHANGED <<ha, ver, bound, regVars, appVars, idxVars, pushVars, lockVars, job, faults>>

\* The first connection succeeds at once: no resync.
Connect ==
  /\ ~net /\ drops = 0 /\ net' = TRUE
  /\ UNCHANGED <<ha, ver, wire, drops, bound, regVars, appVars, idxVars, pushVars,
                 lockVars, job, faults>>

\* _reconnect_loop succeeds: on_ws_reconnected starts a resync unless one runs.
Reconnect ==
  /\ ~net /\ net' = TRUE
  /\ IF job["reconnect"].pc = "idle"
     THEN /\ job' = [job EXCEPT !["reconnect"].pc = "lock"]
          /\ tasks' = Append(tasks, "resync") /\ cached' = NoReg
     ELSE UNCHANGED <<job, tasks, cached>>
  /\ UNCHANGED <<ha, ver, wire, drops, bound, last, appVars, idxVars, pushVars,
                 handler, faults>>

-----------------------------------------------------------------------------
(* The registry of the REST client: get_entity_registry                    *)

Fetched ==
  IF cached # NoReg THEN cached ELSE IF net THEN Truth ELSE last

Fetch ==
  IF cached = NoReg /\ net THEN cached' = Truth /\ last' = Truth
                           ELSE UNCHANGED regVars

\* The end of the TTL (while the cache agrees with Home Assistant it makes no
\* difference and is left out)
Expire ==
  /\ cached \notin {NoReg, Truth} /\ cached' = NoReg
  /\ UNCHANGED <<haVars, last, appVars, idxVars, pushVars, lockVars, job, faults>>

-----------------------------------------------------------------------------
(* Writes to the index in memory                                           *)

\* (faulty) a removal does not count as a mutation
MutateUpsertsOnly(name, at) ==
  /\ primary' = Entry(name, at)
  /\ job' = [s \in Syncs |->
       IF name = Absent THEN job[s]
       ELSE [job[s] EXCEPT !.touched = Running(s)]]

\* _upsert_primary_locked, or the second half of remove: a sync that has read
\* the generation by now will find the entity mutated after it.
Mutate(name, at) ==
  /\ primary' = Entry(name, at)
  /\ job' = [s \in Syncs |-> [job[s] EXCEPT !.touched = Running(s)]]

-----------------------------------------------------------------------------
(* Events: on_state_changed, the flush task, the registry handlers         *)

Indexable == Known \/ loaded

\* A removal is awaited by the receive loop, an update is queued.
ReceiveState(e) ==
  /\ wire' = Tail(wire)
  /\ IF known \/ (Indexable /\ e.new = Gone)
     THEN /\ IF e.old
             THEN stored' = Absent /\ recv' = [pc |-> "pop", at |-> e.at]
             ELSE UNCHANGED <<stored, recv>>
          /\ UNCHANGED queue
     ELSE /\ queue' = IF Indexable THEN Entry(NameOf(e.new, names), e.at)
                                   ELSE queue
          /\ UNCHANGED <<stored, recv>>
  /\ UNCHANGED <<ha, ver, net, drops, bound, regVars, appVars, primary, flush,
                 lockVars, job, faults>>

ReceiveRegistry(e) ==
  /\ wire' = Tail(wire) /\ tasks' = Append(tasks, e.kind)
  /\ UNCHANGED <<ha, ver, net, drops, bound, regVars, appVars, idxVars, pushVars,
                 handler, job, faults>>

Receive ==
  /\ net /\ wire # <<>> /\ recv.pc = "idle"
  /\ IF Head(wire).kind = "state" THEN ReceiveState(Head(wire))
                                  ELSE ReceiveRegistry(Head(wire))

Removed ==
  /\ recv.pc = "pop" /\ recv' = IdleRecv
  /\ Mutate(Absent, recv.at)
  /\ UNCHANGED <<haVars, regVars, appVars, stored, queue, flush, lockVars, faults>>

\* batch_add keeps the last entry of an entity, so the queue holds no other.
FlushTake ==
  /\ flush.pc = "idle" /\ queue # NoEntry /\ queue' = NoEntry
  /\ flush' = [IdleFlush EXCEPT !.pc = "store", !.entry = queue]
  /\ UNCHANGED <<haVars, regVars, appVars, idxVars, recv, lockVars, job, faults>>

FlushStore ==
  /\ flush.pc = "store" /\ stored' = flush.entry.name
  /\ flush' = [flush EXCEPT !.pc = "primary"]
  /\ UNCHANGED <<haVars, regVars, appVars, primary, queue, recv, lockVars,
                 job, faults>>

FlushPrimary ==
  /\ flush.pc = "primary"
  /\ Mutate(flush.entry.name, flush.entry.at)
  /\ flush' = IdleFlush
  /\ UNCHANGED <<haVars, regVars, appVars, stored, queue, recv, lockVars, faults>>

\* A new entity only drops the registry cache.
HandleCreate ==
  /\ tasks # <<>> /\ Head(tasks) = "create" /\ tasks' = Tail(tasks)
  /\ cached' = NoReg
  /\ UNCHANGED <<haVars, last, appVars, idxVars, pushVars, handler, job, faults>>

HandleEvent ==
  /\ tasks # <<>> /\ Head(tasks) = "event" /\ handler.pc = "idle"
  /\ cached' = NoReg
  /\ handler' = [IdleHandler EXCEPT !.pc = "registry"]
  /\ UNCHANGED <<haVars, last, appVars, idxVars, pushVars, tasks, job, faults>>

HandlerRegistry ==
  /\ handler.pc = "registry" /\ Fetch
  /\ handler' = [handler EXCEPT !.pc = "state", !.reg = Fetched]
  /\ known' = Fetched.hid /\ degraded' = (degraded \/ Fetched = NoReg)
  /\ UNCHANGED <<haVars, names, loaded, idxVars, pushVars, tasks, job, faults>>

HandlerState ==
  /\ handler.pc = "state" /\ names' = handler.reg.own
  /\ handler' = [handler EXCEPT !.pc = "store", !.at = ver,
                                !.st = IF ha.live THEN ha.st ELSE Gone]
  /\ UNCHANGED <<haVars, regVars, known, loaded, degraded, idxVars, pushVars,
                 tasks, job, faults>>

\* The state cannot be read: the entity is left as it is.
HandlerFails ==
  /\ handler.pc = "state" /\ names' = handler.reg.own
  /\ faults < bound.faults /\ faults' = faults + 1
  /\ handler' = IdleHandler /\ tasks' = Tail(tasks)
  /\ UNCHANGED <<haVars, regVars, known, loaded, degraded, idxVars, pushVars,
                 job>>

HandlerStore ==
  /\ handler.pc = "store" /\ stored' = Built(handler.st, handler.reg)
  /\ handler' = [handler EXCEPT !.pc = "primary"]
  /\ UNCHANGED <<haVars, regVars, appVars, primary, pushVars, tasks, job, faults>>

\* The flag that the entity was renamed, which add returns, is not used.
HandlerPrimary ==
  /\ handler.pc = "primary"
  /\ Mutate(Built(handler.st, handler.reg), handler.at)
  /\ handler' = IdleHandler /\ tasks' = Tail(tasks)
  /\ UNCHANGED <<haVars, regVars, appVars, stored, pushVars, faults>>

-----------------------------------------------------------------------------
(* Snapshot syncs: _prime_entity_index, _deferred_hidden_entity_sync,      *)
(* _periodic_entity_sync, _resync_after_reconnect                          *)

Goes(s, pc) == job' = [job EXCEPT ![s].pc = pc]

Starts(s, reg) ==
  /\ Cardinality({t \in Syncs : Running(t)}) < bound.overlap
  /\ job' = [job EXCEPT ![s] = [IdleJob EXCEPT !.pc = "states", !.reg = reg]]

\* _registry_for_first_snapshot returns as soon as the registry was read
PrimeRegistry ==
  /\ job["prime"].pc = "wait" /\ (Known \/ net) /\ Fetch
  /\ Starts("prime", Fetched) /\ known' = Fetched.hid
  /\ UNCHANGED <<haVars, names, loaded, degraded, idxVars, pushVars, lockVars, faults>>

\* or after _FIRST_SNAPSHOT_HIDDEN_WAIT_SEC without it
PrimeGivesUp ==
  /\ job["prime"].pc = "wait" /\ ~Known /\ ~net
  /\ Starts("prime", NoReg) /\ known' = FALSE /\ degraded' = TRUE
  /\ UNCHANGED <<haVars, regVars, names, loaded, idxVars, pushVars, lockVars, faults>>

\* After the prime, with the registry read over the WebSocket itself.
DeferredStart ==
  /\ job["prime"].pc = "done" /\ job["deferred"].pc = "idle"
  /\ IF net /\ (Truth.hid # known \/ Truth.own # names)
     THEN Starts("deferred", Truth) /\ known' = Truth.hid
     ELSE Goes("deferred", "done") /\ UNCHANGED known
  /\ UNCHANGED <<haVars, regVars, names, loaded, degraded, idxVars, pushVars,
                 lockVars, faults>>

PeriodicStart ==
  /\ job["periodic"].pc = "idle" /\ Starts("periodic", NoReg)
  /\ UNCHANGED <<haVars, regVars, appVars, idxVars, pushVars, lockVars, faults>>

ReconnectStart ==
  /\ tasks # <<>> /\ Head(tasks) = "resync" /\ job["reconnect"].pc = "lock"
  /\ Starts("reconnect", NoReg)
  /\ UNCHANGED <<haVars, regVars, appVars, idxVars, pushVars, lockVars, faults>>

\* The prime fetches lookups next and publishes after that, the deferred sync
\* publishes at once, the others read the registry after the states.
ReadStates(s) ==
  /\ job[s].pc = "states"
  /\ job' = [job EXCEPT ![s].st = IF ha.live THEN ha.st ELSE Gone,
                        ![s].at = ver,
                        ![s].pc = CASE s = "prime"    -> "publish"
                                    [] s = "deferred" -> "plan"
                                    [] OTHER          -> "registry"]
  /\ names' = IF s = "deferred" THEN job[s].reg.own ELSE names
  /\ UNCHANGED <<haVars, regVars, known, loaded, degraded, idxVars, pushVars,
                 lockVars, faults>>

Publish(s) ==
  /\ job[s].pc = "publish" /\ names' = job[s].reg.own /\ Goes(s, "plan")
  /\ UNCHANGED <<haVars, regVars, known, loaded, degraded, idxVars, pushVars,
                 lockVars, faults>>

ReadRegistry(s) ==
  /\ job[s].pc = "registry" /\ Fetch /\ names' = Fetched.own
  /\ job' = [job EXCEPT ![s].pc = "hidden", ![s].reg = Fetched]
  /\ degraded' = (degraded \/ Fetched = NoReg)
  /\ UNCHANGED <<haVars, known, loaded, idxVars, pushVars, lockVars, faults>>

\* hidden_entity_ids is published after the device directory was awaited
PublishHidden(s) ==
  /\ job[s].pc = "hidden" /\ known' = job[s].reg.hid /\ Goes(s, "plan")
  /\ UNCHANGED <<haVars, regVars, names, loaded, degraded, idxVars, pushVars,
                 lockVars, faults>>

Snapshot(s) == Built(job[s].st, job[s].reg)

\* sync: entities mutated since the generation are left out of the diff
Plan(s) ==
  /\ job[s].pc = "plan"
  /\ job' = [job EXCEPT ![s].pc = "write", ![s].was = stored,
                        ![s].skip = job[s].touched]
  /\ UNCHANGED <<haVars, regVars, appVars, idxVars, pushVars, lockVars, faults>>

\* The prime drops the collection and populates it when it is empty, of another
\* schema or of another embedding model.
PlanBuild ==
  /\ job["prime"].pc = "plan" /\ stored' = Absent
  /\ job' = [job EXCEPT !["prime"].pc = "write", !["prime"].build = TRUE]
  /\ UNCHANGED <<haVars, regVars, appVars, primary, pushVars, lockVars, faults>>

\* (faulty) entities that are gone stay in the collection
WriteUpsertsOnly(s) ==
  LET j == job[s] IN
  /\ j.pc = "write"
  /\ stored' = IF j.skip \/ Snapshot(s) = Absent THEN stored ELSE Snapshot(s)
  /\ job' = [job EXCEPT ![s].pc = "install", ![s].was = Absent,
                        ![s].skip = FALSE, ![s].build = FALSE]
  /\ UNCHANGED <<haVars, regVars, appVars, primary, pushVars, lockVars, faults>>

Write(s) ==
  LET j == job[s] IN
  /\ j.pc = "write"
  /\ stored' = IF j.skip \/ j.was = Snapshot(s) THEN stored ELSE Snapshot(s)
  /\ job' = [job EXCEPT ![s].pc = "install", ![s].was = Absent,
                        ![s].skip = FALSE, ![s].build = FALSE]
  /\ UNCHANGED <<haVars, regVars, appVars, primary, pushVars, lockVars, faults>>

AfterSync(s) ==
  IF s \in {"prime", "deferred"} THEN [IdleJob EXCEPT !.pc = "done"]
                                 ELSE IdleJob

Ended(s) ==
  /\ job' = [job EXCEPT ![s] = AfterSync(s)]
  /\ tasks' = IF s = "reconnect" THEN Tail(tasks) ELSE tasks

Installed(s) ==
  /\ job' = [t \in Syncs |-> IF t = s THEN AfterSync(s)
               ELSE [job[t] EXCEPT !.passed = Running(t)]]
  /\ tasks' = IF s = "reconnect" THEN Tail(tasks) ELSE tasks

\* _install_snapshot, then _mark_snapshot_loaded
Install(s) ==
  /\ job[s].pc = "install" /\ Installed(s) /\ loaded' = TRUE
  /\ primary' = IF job[s].touched THEN primary
                ELSE Entry(Snapshot(s), job[s].at)
  /\ UNCHANGED <<haVars, regVars, known, names, degraded, stored, pushVars,
                 handler, faults>>

\* get_states raises
SyncFails(s) ==
  /\ job[s].pc = "states" /\ Ended(s)
  /\ faults < bound.faults /\ faults' = faults + 1
  /\ UNCHANGED <<haVars, regVars, appVars, idxVars, pushVars, handler>>

\* populate clears the memory when the collection fails
BuildFails ==
  /\ job["prime"].pc = "write" /\ job["prime"].build /\ Ended("prime")
  /\ faults < bound.faults /\ faults' = faults + 1
  /\ primary' = NoEntry
  /\ UNCHANGED <<haVars, regVars, appVars, stored, pushVars, handler>>

-----------------------------------------------------------------------------
Flusher == FlushTake \/ FlushStore \/ FlushPrimary

Handler == \/ HandleCreate \/ HandleEvent \/ HandlerRegistry \/ HandlerState
           \/ HandlerStore \/ HandlerPrimary

SyncStep(s) == \/ ReadStates(s) \/ Publish(s) \/ ReadRegistry(s)
               \/ PublishHidden(s) \/ Plan(s) \/ Write(s) \/ Install(s)

Starting == \/ PrimeRegistry \/ PrimeGivesUp \/ DeferredStart
            \/ PeriodicStart \/ ReconnectStart

Fault == HandlerFails \/ BuildFails \/ \E s \in Syncs : SyncFails(s)

Environment ==
  \/ Rename \/ WriteState \/ Visibility \/ Remove \/ Create \/ Push
  \/ Drop \/ Connect \/ Reconnect \/ Expire

Next ==
  \/ Receive \/ Removed \/ Flusher \/ Handler
  \/ Starting \/ PlanBuild \/ \E s \in Syncs : SyncStep(s)
  \/ Fault \/ Environment

Spec == Init /\ [][Next]_vars

\* The event loop and the worker threads run what can run, the interval of the
\* periodic sync elapses again and again, the TTL of the registry cache ends,
\* and the client reconnects (its losses are bounded).
Fairness ==
  /\ WF_vars(Receive \/ Removed) /\ WF_vars(Flusher)
  /\ WF_vars(Handler \/ ReconnectStart)
  /\ WF_vars(PeriodicStart) /\ WF_vars(\E s \in Syncs : SyncStep(s))
  /\ WF_vars(Expire) /\ WF_vars(Reconnect) /\ WF_vars(WriteState)

FairSpec == Spec /\ Fairness

-----------------------------------------------------------------------------
Numbers == 0 .. MaxEvents + 1
Times == 0 .. MaxEvents
Events == [kind : {"state", "event", "create"}, new : Numbers, old : BOOLEAN,
           at : Times]
Job == [pc : JobPcs, st : Numbers, at : Times, reg : Regs, touched : BOOLEAN,
        skip : BOOLEAN, was : Names, build : BOOLEAN, passed : BOOLEAN]

HaTypes ==
  /\ ha \in [live : BOOLEAN, hidden : BOOLEAN, own : Numbers \ {0},
             st : Numbers \ {0}]
  /\ ver \in Times /\ net \in BOOLEAN /\ wire \in Seq(Events)
  /\ bound \in Scenarios /\ drops \in 0 .. bound.drops
  /\ faults \in 0 .. bound.faults

AppTypes ==
  /\ cached \in Regs /\ last \in Regs
  /\ known \in BOOLEAN /\ names \in Numbers
  /\ loaded \in BOOLEAN /\ degraded \in BOOLEAN

IndexTypes == primary \in Entries /\ stored \in Names

TaskTypes ==
  /\ queue \in Entries
  /\ flush \in [pc : {"idle", "store", "primary"}, entry : Entries]
  /\ recv \in [pc : {"idle", "pop"}, at : Times]
  /\ tasks \in Seq({"event", "create", "resync"})
  /\ handler \in [pc : {"idle", "registry", "state", "store", "primary"},
                  st : Numbers, at : Times, reg : Regs]
  /\ job \in [Syncs -> Job]

\* The types of Home Assistant's end, the process, the index and its tasks.
TypeOK == HaTypes /\ AppTypes /\ IndexTypes /\ TaskTypes

\* After the last change in Home Assistant the index, in memory and in the
\* collection, ends up with the entity as it is there: shown under its name,
\* or not at all when it is gone or hidden; whatever was lost with the
\* connection, failed, or arrived in another order.  (The periodic sync is what
\* repairs it, an administrator can switch it off.)
EventuallyMirrors ==
  "periodic" \in bound.active =>
    <>[](primary.name = Mirror /\ stored = Mirror)

\* A snapshot never takes the index back to older information, unless another
\* one that was fetched meanwhile was installed before it.
SnapshotNeverOlder ==
  [][\A s \in Syncs :
       job[s].pc = "install" /\ job'[s].pc # "install" /\ ~job[s].passed
         => primary'.at >= primary.at]_vars

\* A hidden entity is not indexed before the hidden list is known.
HiddenStaysOut ==
  ha.hidden /\ ~degraded => primary.name = Absent
=============================================================================
