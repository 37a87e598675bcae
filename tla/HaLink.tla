------------------------------- MODULE HaLink -------------------------------
(***************************************************************************)
(* The WebSocket client of the container for Home Assistant                *)
(* (ha_client/websocket.py) and those that use it: its task (run), the     *)
(* administrator who changes the settings (drop_connection), the shutdown  *)
(* (disconnect and the cancellation of the task), and the users: service   *)
(* calls that watch for the new state (expect_state, the fall back of      *)
(* HARestClient.call_service to the WebSocket) and plain commands.         *)
(*                                                                         *)
(* asyncio.Lock is fair: `lock` is the queue of those who want _ws_lock,   *)
(* its head holds it or is being woken.  A teardown fails the state        *)
(* waiters before it asks for the lock and the pending commands when it    *)
(* has it.  A waiter is in _state_waiters exactly while it is "open"; an   *)
(* entry of _pending_responses that still matters is a command that is     *)
(* "open".  Left out: the contents of events and results, message ids, the *)
(* length of the backoff, and polling for the state after the wait.        *)
(***************************************************************************)
EXTENDS Naturals, Sequences, FiniteSets

CONSTANTS
  Users,       \* tasks that call a service or send a command, once each
  Calls,       \* those of them that call a service
  MaxSockets,  \* bound: sessions that are opened
  MaxEvents,   \* bound: state changes in Home Assistant
  MaxDrops     \* bound: changes of the settings

ASSUME HaLinkAssumption ==
  /\ Calls \subseteq Users
  /\ {"run", "admin", "stopper"} \cap Users = {}
  /\ MaxSockets \in Nat /\ MaxEvents \in Nat /\ MaxDrops \in Nat

Closers == {"run", "admin", "stopper"}  \* who calls _close_session
Sockets == 1..MaxSockets

VARIABLES
  run,       \* where the task of run() is
  first,     \* it has not finished its first attempt to connect
  running,   \* _running
  session,   \* _session, 0 for None
  attached,  \* _ws is the socket of _session, and not None
  sock,      \* the state of each session with its socket
  inbox,     \* what Home Assistant sent on it and the client did not read
  lock,      \* the holder of _ws_lock and those who wait for it, in order
  closer,    \* where each call of _close_session is
  pc,        \* where each user is
  cmd,       \* the future of its command
  sentOn,    \* the socket its command went out on
  asked,     \* users whose command Home Assistant has not answered
  waiter,    \* the future of its state waiter
  born,      \* the session it was registered for, 0 if a teardown waited
  missed,    \* an event was lost that no reconnect has announced
  events,    \* state changes so far
  drops      \* changes of the settings so far

link == <<run, first, running, session, attached, sock, inbox>>
users == <<pc, cmd, sentOn, asked, waiter, born>>
counts == <<missed, events, drops>>
vars == <<link, lock, closer, users, counts>>

-----------------------------------------------------------------------------

Init ==
  /\ run = "connect" /\ first = TRUE /\ running = TRUE
  /\ session = 0 /\ attached = FALSE
  /\ sock = [s \in Sockets |-> "new"]
  /\ inbox = [s \in Sockets |-> <<>>]
  /\ lock = <<>>
  /\ closer = [c \in Closers |-> "rest"]
  /\ pc = [u \in Users |-> "idle"]
  /\ cmd = [u \in Users |-> "none"]
  /\ sentOn = [u \in Users |-> 0]
  /\ asked = {}
  /\ waiter = [u \in Users |-> "none"]
  /\ born = [u \in Users |-> 0]
  /\ missed = FALSE /\ events = 0 /\ drops = 0

\* `_ws and not _ws.closed`, and is_connected.
Usable == attached /\ sock[session] # "dead"
IsConnected == running /\ Usable

HoldsEvent(s) == \E i \in 1..Len(inbox[s]) : inbox[s][i] = "event"

\* asyncio.Lock removes a waiter that is cancelled from the queue.
Without(queue, x) ==
  IF \E i \in DOMAIN queue : queue[i] = x
  THEN LET place == CHOOSE i \in DOMAIN queue : queue[i] = x
       IN  SubSeq(queue, 1, place - 1) \o SubSeq(queue, place + 1, Len(queue))
  ELSE queue

\* _cancel_all_state_waiters.
WaitersReset ==
  waiter' = [u \in Users |-> IF waiter[u] = "open" THEN "reset" ELSE waiter[u]]

\* _close_session_locked up to its first await, by c that has the lock: the
\* commands fail, the client lets go of the session, the socket is closing.
\* Without a session the lock is kept a step longer than in the code.
\* (faulty) only the commands that still wait for the lock are failed
TeardownUnsent(c, queue) ==
  /\ cmd' = [u \in Users |-> IF pc[u] = "queued" THEN "reset" ELSE cmd[u]]
  /\ session' = 0 /\ attached' = FALSE
  /\ sock' = [s \in Sockets |-> IF s = session THEN "closing" ELSE sock[s]]
  /\ inbox' = [s \in Sockets |-> IF s = session THEN <<>> ELSE inbox[s]]
  /\ missed' = (missed \/ (session # 0 /\ HoldsEvent(session)))
  /\ lock' = <<c>> \o queue

\* (faulty) the session of a socket that is closed already is forgotten
TeardownSkipsDead(c, queue) ==
  /\ cmd' = [u \in Users |-> IF cmd[u] = "open" THEN "reset" ELSE cmd[u]]
  /\ session' = 0 /\ attached' = FALSE
  /\ sock' = [s \in Sockets |-> IF s = session /\ sock[s] # "dead"
                                    THEN "closing" ELSE sock[s]]
  /\ inbox' = [s \in Sockets |-> IF s = session THEN <<>> ELSE inbox[s]]
  /\ missed' = (missed \/ (session # 0 /\ HoldsEvent(session)))
  /\ lock' = <<c>> \o queue

Teardown(c, queue) ==
  /\ cmd' = [u \in Users |-> IF cmd[u] = "open" THEN "reset" ELSE cmd[u]]
  /\ session' = 0 /\ attached' = FALSE
  /\ sock' = [s \in Sockets |-> IF s = session THEN "closing" ELSE sock[s]]
  /\ inbox' = [s \in Sockets |-> IF s = session THEN <<>> ELSE inbox[s]]
  /\ missed' = (missed \/ (session # 0 /\ HoldsEvent(session)))
  /\ lock' = <<c>> \o queue

\* _close_session, when `queue` has the lock or waits for it.  A free lock is
\* taken without an await.
CloseStarts(c, queue) ==
  /\ WaitersReset
  /\ IF queue = <<>>
     THEN /\ Teardown(c, <<>>)
          /\ closer' = [closer EXCEPT ![c] = "shutting"]
     ELSE /\ lock' = Append(queue, c)
          /\ closer' = [closer EXCEPT ![c] = "waiting"]
          /\ UNCHANGED <<cmd, session, attached, sock, inbox, missed>>

\* The sessions after ws.close() and session.close(), which closes the session
\* even when the task is cancelled meanwhile.
Shut == [s \in Sockets |-> IF sock[s] = "closing" THEN "shut" ELSE sock[s]]

\* After a failed attempt or a lost connection the loops go on while running.
Retrying == IF running THEN "backoff" ELSE "exit"

-----------------------------------------------------------------------------
(* The task of run(): connect, receive, reconnect.                         *)

\* connect, after the settings were read, takes the lock or waits for it.
OpensSession(queue) ==
  \E s \in Sockets :
    /\ sock[s] = "new" /\ \A r \in 1..(s - 1) : sock[r] # "new"
    /\ session' = s
    /\ sock' = [sock EXCEPT ![s] = "opening"]
    /\ lock' = <<"run">> \o queue
    /\ run' = "opening"

\* connect would tear down an earlier session here, but finds none.
Connect ==
  /\ run = "connect" /\ session = 0
  /\ \E s \in Sockets : sock[s] = "new"
  /\ IF lock = <<>>
     THEN OpensSession(<<>>)
     ELSE /\ lock' = Append(lock, "run")
          /\ run' = "queued"
          /\ UNCHANGED <<session, sock>>
  /\ UNCHANGED <<first, running, attached, inbox, closer, users, counts>>

ConnectGranted ==
  /\ run = "queued" /\ Head(lock) = "run" /\ session = 0
  /\ OpensSession(Tail(lock))
  /\ UNCHANGED <<first, running, attached, inbox, closer, users, counts>>

\* The URL or the token is not configured.
Unconfigured ==
  /\ run = "connect"
  /\ run' = Retrying /\ first' = FALSE
  /\ UNCHANGED <<running, session, attached, sock, inbox, lock, closer, users,
                 counts>>

\* ws_connect returns: _ws is there, and taken for connected by others.
Opened ==
  /\ run = "opening"
  /\ run' = "auth" /\ attached' = TRUE
  /\ sock' = [sock EXCEPT ![session] = "half"]
  /\ UNCHANGED <<first, running, session, inbox, lock, closer, users, counts>>

\* A reconnect calls the callbacks that read Home Assistant's state again.
\* (faulty) a reconnect is taken for a first connection
AnnouncesNothing == UNCHANGED missed

Announces == missed' = FALSE

\* The handshake succeeds and the events are subscribed.  A first connection
\* is not announced: the snapshot of the startup, which waits for it, stands
\* for what happened before.  (It waits for 30 seconds, bootstrap/_entity.py
\* 384-412; one that gave up may have read the states before a connection that
\* came later, and what it missed by then is not counted here.)
Connected ==
  /\ run = "auth" /\ sock[session] = "half"
  /\ sock' = [sock EXCEPT ![session] = "open"]
  /\ lock' = Tail(lock)
  /\ run' = IF running THEN "receive" ELSE "exit"
  /\ first' = FALSE
  /\ IF first THEN missed' = FALSE ELSE Announces
  /\ UNCHANGED <<running, session, attached, inbox, closer, users, events,
                 drops>>

\* The handshake is refused or takes too long: torn down under the lock.
\* (faulty) with _close_session, which waits for the lock held here
RefusedRelocks ==
  /\ run = "auth"
  /\ run' = "closing" /\ first' = FALSE
  /\ CloseStarts("run", lock)
  /\ UNCHANGED <<running, pc, sentOn, asked, born, events, drops>>

Refused ==
  /\ run = "auth"
  /\ run' = "refused" /\ first' = FALSE
  /\ WaitersReset
  /\ Teardown("run", Tail(lock))
  /\ UNCHANGED <<running, closer, pc, sentOn, asked, born, events, drops>>

RefusedEnds ==
  /\ run = "refused"
  /\ sock' = Shut /\ lock' = Tail(lock) /\ run' = Retrying
  /\ UNCHANGED <<first, running, session, attached, inbox, closer, users,
                 counts>>

\* ws_connect, the handshake or a subscription raises: the lock is released
\* with the session half open, then _close_session asks for it again.
ConnectRaises ==
  /\ run \in {"opening", "auth"}
  /\ run' = "closing" /\ first' = FALSE
  /\ CloseStarts("run", Tail(lock))
  /\ UNCHANGED <<running, pc, sentOn, asked, born, events, drops>>

\* The sleep of _reconnect_loop; connect follows even if the client was
\* stopped meanwhile.
BackoffEnds ==
  /\ run = "backoff"
  /\ run' = "connect"
  /\ UNCHANGED <<first, running, session, attached, sock, inbox, lock, closer,
                 users, counts>>

\* One message of the receive loop: a state_changed event resolves the waiters
\* that expect its state, a result the command it answers.
Deliver ==
  /\ run = "receive" /\ attached /\ sock[session] \in {"open", "lost"}
  /\ inbox[session] # <<>>
  /\ inbox' = [inbox EXCEPT ![session] = Tail(@)]
  /\ \/ /\ Head(inbox[session]) = "event"
        /\ \E hit \in SUBSET {u \in Users : waiter[u] = "open"} :
             waiter' = [u \in Users |-> IF u \in hit THEN "hit" ELSE waiter[u]]
        /\ UNCHANGED cmd
     \/ \E u \in Users :
          /\ Head(inbox[session]) = u
          /\ cmd' = [cmd EXCEPT ![u] = IF @ = "open" THEN "ok" ELSE @]
          /\ UNCHANGED waiter
  /\ run' = IF running THEN "receive" ELSE "exit"
  /\ UNCHANGED <<first, running, session, attached, sock, lock, closer, pc,
                 sentOn, asked, born, counts>>

\* The loop ends with its socket.  The client that still runs closes it and
\* reconnects.
ReceiveEnds ==
  /\ run = "receive" /\ ~Usable
  /\ IF running
     THEN /\ run' = "closing" /\ CloseStarts("run", lock)
     ELSE /\ run' = "exit"
          /\ UNCHANGED <<session, attached, sock, inbox, lock, closer, cmd,
                         waiter, missed>>
  /\ UNCHANGED <<first, running, pc, sentOn, asked, born, events, drops>>

\* The `finally` of run(): a connection made after a disconnect is torn down.
Exit ==
  /\ run = "exit"
  /\ IF session # 0
     THEN run' = "closing" /\ CloseStarts("run", lock)
     ELSE /\ run' = "over"
          /\ UNCHANGED <<session, attached, sock, inbox, lock, closer, cmd,
                         waiter, missed>>
  /\ UNCHANGED <<first, running, pc, sentOn, asked, born, events, drops>>

-----------------------------------------------------------------------------
(* Teardowns: _close_session of the task, of drop_connection, of           *)
(* disconnect.                                                             *)

CloseGranted(c) ==
  /\ closer[c] = "waiting" /\ Head(lock) = c
  /\ Teardown(c, Tail(lock))
  /\ closer' = [closer EXCEPT ![c] = "shutting"]
  /\ UNCHANGED <<run, first, running, pc, sentOn, asked, waiter, born, events,
                 drops>>

RunCloses ==
  /\ closer["run"] = "shutting"
  /\ closer' = [closer EXCEPT !["run"] = "rest"]
  /\ sock' = Shut /\ lock' = Tail(lock) /\ run' = Retrying
  /\ UNCHANGED <<first, running, session, attached, inbox, users, counts>>

\* The settings were changed.
DropConnection ==
  /\ running /\ drops < MaxDrops /\ closer["admin"] = "rest"
  /\ drops' = drops + 1
  /\ CloseStarts("admin", lock)
  /\ UNCHANGED <<run, first, running, pc, sentOn, asked, born, events>>

DropEnds ==
  /\ closer["admin"] = "shutting"
  /\ closer' = [closer EXCEPT !["admin"] = "rest"]
  /\ sock' = Shut /\ lock' = Tail(lock)
  /\ UNCHANGED <<run, first, running, session, attached, inbox, users, counts>>

\* The shutdown disconnects.
Disconnect ==
  /\ closer["stopper"] = "rest"
  /\ running' = FALSE
  /\ CloseStarts("stopper", lock)
  /\ UNCHANGED <<run, first, pc, sentOn, asked, born, events, drops>>

\* disconnect returns and the task of run() is cancelled where it is: it
\* leaves the queue, and one that was connecting calls _close_session.
DisconnectEnds ==
  /\ closer["stopper"] = "shutting"
  /\ sock' = Shut
  /\ run' = IF run = "over" THEN "over" ELSE "exit"
  /\ lock' = Without(Tail(lock), "run")
  /\ closer' = [closer EXCEPT !["stopper"] = "over", !["run"] = "rest"]
  /\ IF run = "queued" THEN WaitersReset ELSE UNCHANGED waiter
  /\ UNCHANGED <<first, running, session, attached, inbox, pc, cmd, sentOn,
                 asked, born, counts>>

-----------------------------------------------------------------------------
(* The users: call_service of HARestClient inside expect_state, and        *)
(* send_command.                                                           *)

Ends(u) == pc' = [pc EXCEPT ![u] = "done"]
WaiterGone(u) ==
  waiter' = [waiter EXCEPT ![u] = "none"] /\ born' = [born EXCEPT ![u] = 0]

\* send_json by u, which has the lock.
Transmits(u) ==
  /\ pc' = [pc EXCEPT ![u] = "sending"]
  /\ sentOn' = [sentOn EXCEPT ![u] = session]
  /\ asked' = asked \cup {u}

\* send_command: the future is registered, then the lock is asked for.
SendCommand(u) ==
  /\ cmd' = [cmd EXCEPT ![u] = "open"]
  /\ lock' = Append(lock, u)
  /\ IF lock = <<>>
     THEN Transmits(u)
     ELSE pc' = [pc EXCEPT ![u] = "queued"] /\ UNCHANGED <<sentOn, asked>>

\* A command of its own, such as the list of the registry.
Query(u) ==
  /\ u \notin Calls /\ pc[u] = "idle"
  /\ IF Usable THEN SendCommand(u)
               ELSE Ends(u) /\ UNCHANGED <<cmd, lock, sentOn, asked>>
  /\ UNCHANGED <<link, closer, waiter, born, counts>>

\* expect_state registers the waiter before the request goes out.
CallService(u) ==
  /\ u \in Calls /\ pc[u] = "idle"
  /\ pc' = [pc EXCEPT ![u] = "calling"]
  /\ waiter' = [waiter EXCEPT ![u] = IF IsConnected THEN "open" ELSE "none"]
  /\ born' = [born EXCEPT ![u] =
       IF \E c \in Closers : closer[c] = "waiting" THEN 0 ELSE session]
  /\ UNCHANGED <<link, lock, closer, cmd, sentOn, asked, counts>>

\* What follows a service call that Home Assistant took.
Watches(u) ==
  pc' = [pc EXCEPT ![u] = IF waiter[u] = "none" THEN "done" ELSE "watching"]

RestReturns(u) ==
  /\ pc[u] = "calling"
  /\ Watches(u)
  /\ UNCHANGED <<link, lock, closer, cmd, sentOn, asked, waiter, born, counts>>

\* The request fails and may have run: no second attempt.
RestFails(u) ==
  /\ pc[u] = "calling"
  /\ Ends(u) /\ WaiterGone(u)
  /\ UNCHANGED <<link, lock, closer, cmd, sentOn, asked, counts>>

\* The request was never sent: the WebSocket, if it is connected.
RestUnsent(u) ==
  /\ pc[u] = "calling" /\ IsConnected
  /\ SendCommand(u)
  /\ UNCHANGED <<link, closer, waiter, born, counts>>

\* The lock is granted; _ws may be None or closed by now.
SendGranted(u) ==
  /\ pc[u] = "queued" /\ Head(lock) = u
  /\ IF Usable
     THEN Transmits(u) /\ UNCHANGED <<cmd, lock, waiter, born>>
     ELSE /\ Ends(u) /\ WaiterGone(u)
          /\ cmd' = [cmd EXCEPT ![u] = "none"]
          /\ lock' = Tail(lock)
          /\ UNCHANGED <<sentOn, asked>>
  /\ UNCHANGED <<link, closer, counts>>

Sent(u) ==
  /\ pc[u] = "sending"
  /\ lock' = Tail(lock)
  /\ pc' = [pc EXCEPT ![u] = "awaiting"]
  /\ UNCHANGED <<link, closer, cmd, sentOn, asked, waiter, born, counts>>

\* The command fails: its socket dies while it is sent, it is reset, its
\* answer is an error or does not come in time.
CommandFails(u) ==
  /\ \/ pc[u] = "sending" /\ sock[sentOn[u]] = "dead" /\ lock' = Tail(lock)
     \/ pc[u] = "awaiting" /\ UNCHANGED lock
  /\ Ends(u) /\ WaiterGone(u)
  /\ cmd' = [cmd EXCEPT ![u] = "none"]
  /\ UNCHANGED <<link, closer, sentOn, asked, counts>>

CommandSucceeds(u) ==
  /\ pc[u] = "awaiting" /\ cmd[u] = "ok"
  /\ Watches(u)
  /\ UNCHANGED <<link, lock, closer, cmd, sentOn, asked, waiter, born, counts>>

\* The state was seen, the waiter was reset or its time is over.
WatchEnds(u) ==
  /\ pc[u] = "watching"
  /\ Ends(u) /\ WaiterGone(u)
  /\ UNCHANGED <<link, lock, closer, cmd, sentOn, asked, counts>>

\* The user's task is cancelled at any of its awaits.
CancelUser(u) ==
  /\ pc[u] \notin {"idle", "done"}
  /\ Ends(u) /\ WaiterGone(u)
  /\ cmd' = [cmd EXCEPT ![u] = "none"]
  /\ lock' = Without(lock, u)
  /\ UNCHANGED <<link, closer, sentOn, asked, counts>>

-----------------------------------------------------------------------------
(* Home Assistant and the network.                                         *)

\* Home Assistant answers a command that reached it on a working connection.
Answer(u) ==
  /\ u \in asked /\ sock[sentOn[u]] = "open"
  /\ asked' = asked \ {u}
  /\ inbox' = [inbox EXCEPT ![sentOn[u]] = Append(@, u)]
  /\ UNCHANGED <<run, first, running, session, attached, sock, lock, closer,
                 pc, cmd, sentOn, waiter, born, counts>>

\* A state changes: sent to a subscriber, or lost.
StateChanges ==
  /\ events < MaxEvents
  /\ events' = events + 1
  /\ \/ \E s \in Sockets :
          /\ sock[s] = "open"
          /\ inbox' = [inbox EXCEPT ![s] = Append(@, "event")]
          /\ UNCHANGED missed
     \/ /\ \A s \in Sockets : sock[s] # "open"
        /\ missed' = TRUE
        /\ UNCHANGED inbox
  /\ UNCHANGED <<run, first, running, session, attached, sock, lock, closer,
                 users, drops>>

\* The connection breaks; what was not read may be gone.
Breaks(s) ==
  /\ sock[s] \in {"half", "open"}
  /\ sock' = [sock EXCEPT ![s] = "lost"]
  /\ UNCHANGED <<run, first, running, session, attached, inbox, lock, closer,
                 users, counts>>

\* The heartbeat notices and closes the socket: nothing is read from it.
Noticed(s) ==
  /\ sock[s] = "lost"
  /\ sock' = [sock EXCEPT ![s] = "dead"]
  /\ inbox' = [inbox EXCEPT ![s] = <<>>]
  /\ missed' = (missed \/ HoldsEvent(s))
  /\ UNCHANGED <<run, first, running, session, attached, lock, closer, users,
                 events, drops>>

-----------------------------------------------------------------------------

RunStep ==
  \/ Connect \/ ConnectGranted \/ Unconfigured \/ Opened \/ Connected
  \/ Refused \/ RefusedEnds \/ ConnectRaises \/ BackoffEnds \/ Deliver
  \/ ReceiveEnds \/ Exit \/ RunCloses \/ CloseGranted("run")

AdminStep == DropEnds \/ CloseGranted("admin")
StopStep == DisconnectEnds \/ CloseGranted("stopper")

UserStep(u) ==
  \/ RestReturns(u) \/ RestFails(u) \/ RestUnsent(u)
  \/ SendGranted(u) \/ Sent(u) \/ CommandFails(u) \/ CommandSucceeds(u)
  \/ WatchEnds(u)

Environment ==
  \/ DropConnection \/ Disconnect \/ StateChanges
  \/ \E u \in Users : Query(u) \/ CallService(u) \/ CancelUser(u) \/ Answer(u)
  \/ \E s \in Sockets : Breaks(s) \/ Noticed(s)

Next ==
  \/ RunStep \/ AdminStep \/ StopStep
  \/ \E u \in Users : UserStep(u)
  \/ Environment

Spec == Init /\ [][Next]_vars

\* Each wait of the client and of its users has a timeout of its own; the
\* heartbeat bounds a send, and ws.close() and ws_connect have timeouts.
FairSpec ==
  /\ Spec
  /\ WF_vars(RunStep) /\ WF_vars(AdminStep) /\ WF_vars(StopStep)
  /\ \A u \in Users : WF_vars(UserStep(u))

-----------------------------------------------------------------------------

TypeOK ==
  /\ run \in {"connect", "queued", "opening", "auth", "refused", "receive",
              "backoff", "closing", "exit", "over"}
  /\ first \in BOOLEAN /\ running \in BOOLEAN
  /\ session \in 0..MaxSockets
  /\ attached \in BOOLEAN /\ (attached => session # 0)
  /\ sock \in [Sockets -> {"new", "opening", "half", "open", "lost", "dead",
                           "closing", "shut"}]
  /\ inbox \in [Sockets -> Seq(Users \cup {"event"})]
  /\ lock \in Seq(Users \cup Closers)
  /\ closer \in [Closers -> {"rest", "waiting", "shutting", "over"}]
  /\ pc \in [Users -> {"idle", "calling", "queued", "sending", "awaiting",
                       "watching", "done"}]
  /\ cmd \in [Users -> {"none", "open", "ok", "reset"}]
  /\ sentOn \in [Users -> 0..MaxSockets]
  /\ asked \subseteq Users
  /\ waiter \in [Users -> {"none", "open", "hit", "reset"}]
  /\ born \in [Users -> 0..MaxSockets]
  /\ missed \in BOOLEAN /\ events \in 0..MaxEvents /\ drops \in 0..MaxDrops

\* At most one session is open at any time, and none when the client was
\* stopped and its task has ended; connect never finds an earlier one.  A
\* connection made while the client is being stopped is not left behind
\* (websocket.py 138-142, 309-313).
OneConnection ==
  LET opened == {s \in Sockets : sock[s] \notin {"new", "shut"}} IN
  /\ Cardinality(opened) <= 1
  /\ run \in {"connect", "queued"} => session = 0
  /\ run = "over" /\ closer["stopper"] = "over" => opened = {}

\* A command goes out only while its caller waits for the answer, and a caller
\* that waits does so on the socket the client has: the teardown of that
\* socket fails it (websocket.py 217-224, 434-443).  It rests on the order of
\* the lock: a command registered before a teardown is never sent on the
\* connection made after it.
CommandsFollowTheirSocket ==
  \A u \in Users :
    /\ pc[u] = "sending" => cmd[u] \in {"open", "ok"}
    /\ pc[u] \in {"sending", "awaiting"} /\ cmd[u] = "open" =>
         attached /\ session = sentOn[u]

\* Once a socket is gone no state waiter that was registered for it is left:
\* each was reset, except one registered while the teardown waited for the
\* lock (websocket.py 202-209, 237-254).
WaitersFallWithTheirSocket ==
  \A u \in Users :
    waiter[u] = "open" /\ born[u] # 0 => attached /\ session = born[u]

\* What a user waits for never outlives the socket it was to come from.
UsersFollowTheirSocket ==
  CommandsFollowTheirSocket /\ WaitersFallWithTheirSocket

\* When the client receives again on a working connection, every event lost
\* since its first one was announced as a reconnect, so that the mirrors of Home
\* Assistant were told to read its state again (websocket.py 303-308, 527-545).
NoSilentGap ==
  run = "receive" /\ attached /\ sock[session] = "open" => ~missed

\* Every service call and command comes back, whatever the connection does,
\* and a shutdown ends the task of the client.
EveryOperationEnds ==
  []<>(/\ \A u \in Users : pc[u] \in {"idle", "done"}
       /\ closer["stopper"] # "rest" => run = "over")

=============================================================================
