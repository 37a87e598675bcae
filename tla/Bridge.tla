------------------------------- MODULE Bridge -------------------------------
(***************************************************************************)
(* The bridge in Home Assistant that carries the turns of its pipelines to *)
(* the container: custom_components/ha_agenthub/conversation.py, and the   *)
(* end of its WebSocket in container/app/api/routes/conversation.py.       *)
(*                                                                         *)
(* Calls with the same conversation and text that come at nearly the same  *)
(* time share one request, a task of the bridge.  A request takes the      *)
(* shared socket out of idle reading, or connects, sends itself and reads  *)
(* its answer from a socket that nobody else uses; without a socket it     *)
(* goes over REST.  A lock covers the socket until the request is sent.    *)
(*                                                                         *)
(* Time is not modelled: a deadline passes at any moment at which it runs. *)
(***************************************************************************)
EXTENDS Naturals, Sequences

CONSTANTS
  Callers,    \* calls of the pipeline
  Keys,       \* what two calls share that are the same: conversation, text
  Requests,   \* bound: the tasks the bridge may start
  Sockets,    \* bound: the connections it may make
  None

ASSUME NoneAssumption == None \notin Requests \cup Sockets

VARIABLES
  caller,    \* the calls
  req,       \* the requests, and how often the container worked on each
  inflight,  \* _inflight_bridge: the request a new call may share
  sock,      \* the sockets and the container's end of them
  shared,    \* _ws
  reader,    \* _idle_reader_ws: the socket that is read while idle
  loop,      \* the reconnect loop
  life       \* the entity, which may be removed

vars == <<caller, req, inflight, sock, shared, reader, loop, life>>

-----------------------------------------------------------------------------
Stages == {"none", "lock", "probing", "connecting", "sending", "reading",
           "reuse", "rest", "rested", "done"}
Results == {"none", "text", "cancelled"}   \* an answer or a fixed sentence

Frame == [of : Requests, kind : {"token", "done"}]

Request == [at : Stages, key : Keys \cup {None},
            young : BOOLEAN,                \* within the window
            sock : Sockets \cup {None},
            got : BOOLEAN,                  \* a frame of its answer came
            lost : BOOLEAN,                 \* the socket failed before one
            work : 0 .. 2, result : Results]

\* dropped: the other end is gone, and the bridge has not noticed.
Socket == [at : {"none", "open", "dropped", "closed"},
           inbox : Seq(Requests), serving : Requests \cup {None},
           told : BOOLEAN, outbox : Seq(Frame)]

\* The states have the types above.
TypeOK ==
  /\ caller \in [Callers -> [at : {"idle", "waiting", "left", "returned"},
                             on : Requests \cup {None}, result : Results]]
  /\ req \in [Requests -> Request]
  /\ inflight \in [Keys -> Requests \cup {None}]
  /\ sock \in [Sockets -> Socket]
  /\ shared \in Sockets \cup {None} /\ reader \in Sockets \cup {None}
  /\ loop \in {"waiting", "connecting", "gone"}
  /\ life \in {"up", "closing", "draining", "removed"}

NewRequest == [at |-> "none", key |-> None, young |-> TRUE, sock |-> None,
               got |-> FALSE, lost |-> FALSE, work |-> 0, result |-> "none"]

NewSocket == [at |-> "none", inbox |-> <<>>, serving |-> None,
              told |-> FALSE, outbox |-> <<>>]

Init ==
  /\ caller = [c \in Callers |-> [at |-> "idle", on |-> None,
                                  result |-> "none"]]
  /\ req = [r \in Requests |-> NewRequest]
  /\ inflight = [k \in Keys |-> None]
  /\ sock = [s \in Sockets |-> NewSocket]
  /\ shared = None /\ reader = None /\ loop = "waiting" /\ life = "up"

Active == {r \in Requests : req[r].at \notin {"none", "done"}}
Waiters(r) == {c \in Callers : caller[c].at = "waiting" /\ caller[c].on = r}
Live(s) == sock[s].at \in {"open", "dropped"}
Usable == shared # None /\ Live(shared)

\* The socket lock is held by whoever probes, connects or sends.
Holding == {"probing", "connecting", "sending"}
LockFree == loop # "connecting" /\ \A r \in Requests : req[r].at \notin Holding

\* The sockets of S are closed by the bridge: what was sent may still arrive,
\* and what the container says of it is lost.
Closing(S) ==
  [s \in Sockets |->
     IF s \in S THEN [sock[s] EXCEPT !.at = "closed", !.outbox = <<>>,
                                     !.serving = None, !.told = FALSE]
     ELSE sock[s]]

\* The requests in R give up their entries, not those of their successors.
Popped(R) == [k \in Keys |-> IF inflight[k] \in R THEN None ELSE inflight[k]]

Answered(t) == [t EXCEPT !.at = "done", !.sock = None, !.got = FALSE,
                         !.young = FALSE, !.result = "text"]

Finished(r) == [req EXCEPT ![r] = Answered(@)]

\* The requests in R are cancelled where they stand.  One that is about to
\* give its socket back waits for the lock, and loses the socket.
Cancelled(R) ==
  [r \in Requests |->
     IF r \notin R THEN req[r]
     ELSE [req[r] EXCEPT !.at = "done", !.result = "cancelled",
             !.young = FALSE, !.got = FALSE,
             !.sock = IF req[r].at = "reuse" THEN @ ELSE None]]

Dropped(R) ==
  {s \in Sockets :
     \E r \in R : req[r].sock = s /\ req[r].at \in {"sending", "reading"}}

-----------------------------------------------------------------------------
(* The calls                                                               *)

Join(c, r) ==
  caller' = [caller EXCEPT ![c].at = "waiting", ![c].on = r]

Joinable(k) == inflight[k] # None /\ req[inflight[k]].young

\* A call shares the request of its key, or starts one.
Call(c, k) ==
  /\ caller[c].at = "idle" /\ life = "up"
  /\ \/ /\ Joinable(k)
        /\ Join(c, inflight[k]) /\ UNCHANGED <<req, inflight>>
     \/ /\ ~Joinable(k)
        /\ \E r \in Requests :
             /\ req[r].at = "none"
             /\ req' = [req EXCEPT ![r].at = "lock", ![r].key = k]
             /\ inflight' = [inflight EXCEPT ![k] = r]
             /\ Join(c, r)
  /\ UNCHANGED <<sock, shared, reader, loop, life>>

Refused(c) ==
  /\ caller[c].at = "idle" /\ life # "up"
  /\ caller' = [caller EXCEPT ![c].at = "returned", ![c].result = "cancelled"]
  /\ UNCHANGED <<req, inflight, sock, shared, reader, loop, life>>

\* The window of a request passes: a call with its text is a new one.
Ages(r) ==
  /\ r \in Active /\ req[r].young
  /\ req' = [req EXCEPT ![r].young = FALSE]
  /\ UNCHANGED <<caller, inflight, sock, shared, reader, loop, life>>

\* (faulty) the request is cancelled with any call that waits for it
UnwatchedAny(c) == Active \cap {caller[c].on}

\* The requests nobody waits for once c has left.
Unwatched(c) == {r \in Active : Waiters(r) = {c}}

\* The pipeline cancels its call; the last one takes the request along.
Leaves(c) ==
  /\ caller[c].at = "waiting"
  /\ caller' = [caller EXCEPT ![c].at = "left", ![c].on = None]
  /\ req' = Cancelled(Unwatched(c))
  /\ sock' = Closing(Dropped(Unwatched(c)))
  /\ inflight' = Popped(Unwatched(c))
  /\ UNCHANGED <<shared, reader, loop, life>>

Returns(c) ==
  /\ caller[c].at = "waiting" /\ req[caller[c].on].at = "done"
  /\ caller' = [caller EXCEPT ![c] =
                  [at |-> "returned", on |-> None,
                   result |-> req[caller[c].on].result]]
  /\ UNCHANGED <<req, inflight, sock, shared, reader, loop, life>>

-----------------------------------------------------------------------------
(* A request                                                               *)

\* A text the container would reject is answered at once.
TooLong(r) ==
  /\ req[r].at = "lock"
  /\ req' = Finished(r) /\ inflight' = Popped({r})
  /\ UNCHANGED <<caller, sock, shared, reader, loop, life>>

\* With the lock, the socket is taken out of idle reading.
Acquire(r) ==
  /\ req[r].at = "lock" /\ LockFree
  /\ req' = [req EXCEPT ![r].at =
               IF shared = None THEN "connecting" ELSE "probing"]
  /\ reader' = None
  /\ UNCHANGED <<caller, inflight, sock, shared, loop, life>>

\* (faulty) the socket a request sends on stays the shared one
ProbeKeeping(r) ==
  /\ req[r].at = "probing"
  /\ \/ /\ Live(shared)
        /\ req' = [req EXCEPT ![r].at = "sending", ![r].sock = shared]
        /\ UNCHANGED <<sock, shared>>
     \/ /\ req' = [req EXCEPT ![r].at = "connecting"]
        /\ sock' = Closing({shared}) /\ shared' = None
  /\ UNCHANGED <<caller, inflight, reader, loop, life>>

\* The socket is used, unless it is closed or does not answer a ping.
Probe(r) ==
  /\ req[r].at = "probing"
  /\ \/ /\ Live(shared)
        /\ req' = [req EXCEPT ![r].at = "sending", ![r].sock = shared]
        /\ UNCHANGED sock
     \/ /\ req' = [req EXCEPT ![r].at = "connecting"]
        /\ sock' = Closing({shared})
  /\ shared' = None
  /\ UNCHANGED <<caller, inflight, reader, loop, life>>

ConnectEnds(r) ==
  /\ req[r].at = "connecting"
  /\ \/ \E s \in Sockets :
          /\ sock[s].at = "none"
          /\ sock' = [sock EXCEPT ![s].at = "open"]
          /\ req' = [req EXCEPT ![r].at = "sending", ![r].sock = s]
     \/ req' = [req EXCEPT ![r].at = "rest"] /\ UNCHANGED sock
  /\ UNCHANGED <<caller, inflight, shared, reader, loop, life>>

\* What is written to a dropped socket is lost.
Sends(r) ==
  /\ req[r].at = "sending" /\ Live(req[r].sock)
  /\ req' = [req EXCEPT ![r].at = "reading"]
  /\ sock' = [sock EXCEPT ![req[r].sock].inbox =
                IF sock[req[r].sock].at = "open" THEN Append(@, r) ELSE @]
  /\ UNCHANGED <<caller, inflight, shared, reader, loop, life>>

\* The write fails, perhaps after the container got it all.
SendFails(r) ==
  /\ req[r].at = "sending"
  /\ \E arrives \in BOOLEAN :
       LET s == req[r].sock IN
       /\ arrives => sock[s].at = "open"
       /\ sock' = [Closing({s}) EXCEPT ![s].inbox =
                     IF arrives THEN Append(@, r) ELSE @]
  /\ req' = [req EXCEPT ![r].at = "rest", ![r].sock = None, ![r].lost = TRUE]
  /\ UNCHANGED <<caller, inflight, shared, reader, loop, life>>

Read(r) ==
  LET s == req[r].sock IN
  /\ req[r].at = "reading" /\ sock[s].outbox # <<>>
  /\ sock' = [sock EXCEPT ![s].outbox = Tail(@)]
  /\ req' = [req EXCEPT ![r].got = TRUE,
               ![r].at = IF Head(sock[s].outbox).kind = "done" THEN "reuse"
                         ELSE "reading"]
  /\ UNCHANGED <<caller, inflight, shared, reader, loop, life>>

\* (faulty) the request goes over REST even if its answer has begun
FindsClosedAnswered(r) ==
  LET s == req[r].sock IN
  /\ req[r].at = "reading" /\ sock[s].at # "open" /\ sock[s].outbox = <<>>
  /\ sock' = Closing({s})
  /\ req' = [req EXCEPT ![r].at = "rest", ![r].sock = None,
                        ![r].lost = ~req[r].got]
  /\ UNCHANGED <<caller, inflight, shared, reader, loop, life>>

\* The socket is found closed.  Before the first frame the request counts
\* as undelivered and goes over REST; after it, it does not.
FindsClosed(r) ==
  LET s == req[r].sock IN
  /\ req[r].at = "reading" /\ sock[s].at # "open" /\ sock[s].outbox = <<>>
  /\ sock' = Closing({s})
  /\ IF req[r].got
     THEN req' = Finished(r) /\ inflight' = Popped({r})
     ELSE /\ req' = [req EXCEPT ![r].at = "rest", ![r].sock = None,
                                ![r].lost = TRUE]
          /\ UNCHANGED inflight
  /\ UNCHANGED <<caller, shared, reader, loop, life>>

\* (faulty) the deadline runs from the first frame on
GivesUpAnswered(r) ==
  /\ req[r].at = "reading" /\ req[r].got
  /\ sock' = Closing({req[r].sock})
  /\ req' = Finished(r) /\ inflight' = Popped({r})
  /\ UNCHANGED <<caller, shared, reader, loop, life>>

\* (faulty) a request that timed out gives its socket back
GivesUpKeeping(r) ==
  /\ req[r].at = "reading"
  /\ IF shared = None THEN shared' = req[r].sock /\ UNCHANGED sock
     ELSE sock' = Closing({req[r].sock}) /\ UNCHANGED shared
  /\ req' = Finished(r) /\ inflight' = Popped({r})
  /\ UNCHANGED <<caller, reader, loop, life>>

\* The next frame does not come in time, or the chat log fails.
GivesUp(r) ==
  /\ req[r].at = "reading"
  /\ sock' = Closing({req[r].sock})
  /\ req' = Finished(r) /\ inflight' = Popped({r})
  /\ UNCHANGED <<caller, shared, reader, loop, life>>

\* (faulty) a finished request leaves its socket where it is
ReuseForgets(r) ==
  /\ req[r].at = "reuse" /\ LockFree
  /\ shared' = IF shared = None THEN req[r].sock ELSE shared
  /\ req' = Finished(r) /\ inflight' = Popped({r})
  /\ UNCHANGED <<caller, sock, reader, loop, life>>

\* After its last frame a request offers its socket as the shared one.
Reuse(r) ==
  LET s == req[r].sock IN
  /\ req[r].at = "reuse" /\ LockFree
  /\ IF shared = None /\ Live(s)
     THEN /\ shared' = s /\ reader' = (IF life = "up" THEN s ELSE None)
          /\ UNCHANGED sock
     ELSE sock' = Closing({s}) /\ UNCHANGED <<shared, reader>>
  /\ req' = Finished(r) /\ inflight' = Popped({r})
  /\ UNCHANGED <<caller, loop, life>>

RestArrives(r) ==
  /\ req[r].at = "rest"
  /\ req' = [req EXCEPT ![r].at = "rested", ![r].work = @ + 1]
  /\ UNCHANGED <<caller, inflight, sock, shared, reader, loop, life>>

\* The response comes, or an error or the deadline.
RestEnds(r) ==
  /\ req[r].at \in {"rest", "rested"}
  /\ req' = Finished(r) /\ inflight' = Popped({r})
  /\ UNCHANGED <<caller, sock, shared, reader, loop, life>>

-----------------------------------------------------------------------------
(* The idle socket, and the reconnect loop                                 *)

\* Whatever the reader gets ends the socket.
ReaderWakes ==
  /\ reader # None
  /\ sock[reader].at # "open" \/ sock[reader].outbox # <<>>
  /\ sock' = Closing({reader}) /\ reader' = None
  /\ shared' = IF shared = reader THEN None ELSE shared
  /\ UNCHANGED <<caller, req, inflight, loop, life>>

LoopConnects ==
  /\ loop = "waiting" /\ LockFree
  /\ ~Usable
  /\ loop' = "connecting" /\ shared' = None /\ reader' = None
  /\ UNCHANGED <<caller, req, inflight, sock, life>>

LoopConnected ==
  /\ loop = "connecting" /\ loop' = "waiting"
  /\ \/ \E s \in Sockets :
          /\ sock[s].at = "none"
          /\ sock' = [sock EXCEPT ![s].at = "open"]
          /\ shared' = s /\ reader' = s
     \/ UNCHANGED <<sock, shared, reader>>
  /\ UNCHANGED <<caller, req, inflight, life>>

EnsureReader ==
  /\ loop = "waiting" /\ LockFree
  /\ Usable /\ reader = None
  /\ reader' = shared
  /\ UNCHANGED <<caller, req, inflight, sock, shared, loop, life>>

-----------------------------------------------------------------------------
(* The container, and the network                                          *)

\* The container takes one turn after the other from a socket.
Receives(s) ==
  /\ sock[s].inbox # <<>> /\ sock[s].serving = None
  /\ sock' = [sock EXCEPT ![s].inbox = Tail(@), ![s].serving =
                 IF sock[s].at = "open" THEN Head(sock[s].inbox) ELSE None]
  /\ req' = [req EXCEPT ![Head(sock[s].inbox)].work = @ + 1]
  /\ UNCHANGED <<caller, inflight, shared, reader, loop, life>>

Says(s, kind) == [of |-> sock[s].serving, kind |-> kind]

\* One frame stands for all before the last.
Tells(s) ==
  /\ sock[s].serving # None /\ ~sock[s].told /\ sock[s].at = "open"
  /\ sock' = [sock EXCEPT ![s].told = TRUE,
                          ![s].outbox = Append(@, Says(s, "token"))]
  /\ UNCHANGED <<caller, req, inflight, shared, reader, loop, life>>

EndsTurn(s) ==
  /\ sock[s].serving # None
  /\ sock' = [sock EXCEPT ![s].serving = None, ![s].told = FALSE,
                          ![s].outbox = Append(@, Says(s, "done"))]
  /\ UNCHANGED <<caller, req, inflight, shared, reader, loop, life>>

\* The connection is lost, and with it some of what was on its way.
Drops(s) ==
  /\ sock[s].at = "open"
  /\ \E n \in 0 .. Len(sock[s].outbox), arrives \in BOOLEAN :
       sock' = [sock EXCEPT ![s].at = "dropped",
                  ![s].outbox = SubSeq(@, 1, n),
                  ![s].serving = None, ![s].told = FALSE,
                  ![s].inbox = IF arrives THEN @ ELSE <<>>]
  /\ UNCHANGED <<caller, req, inflight, shared, reader, loop, life>>

\* The heartbeat of the bridge finds out.
Noticed(s) ==
  /\ sock[s].at = "dropped"
  /\ sock' = [sock EXCEPT ![s].at = "closed"]
  /\ UNCHANGED <<caller, req, inflight, shared, reader, loop, life>>

-----------------------------------------------------------------------------
(* The removal of the entity                                               *)

RemoveStarts ==
  /\ life = "up" /\ life' = "closing" /\ loop' = "gone"
  /\ UNCHANGED <<caller, req, inflight, sock, shared, reader>>

\* _bridge_tasks: every request, replaced ones too.
ToCancel == Active

RemoveCancels ==
  /\ life = "closing" /\ life' = "draining"
  /\ req' = Cancelled(ToCancel) /\ sock' = Closing(Dropped(ToCancel))
  /\ inflight' = [k \in Keys |-> None]
  /\ UNCHANGED <<caller, shared, reader, loop>>

RemoveCloses ==
  /\ life = "draining" /\ LockFree /\ life' = "removed"
  /\ sock' = Closing({shared} \cap Sockets) /\ shared' = None /\ reader' = None
  /\ UNCHANGED <<caller, req, inflight, loop>>

-----------------------------------------------------------------------------
Progress(r) ==
  \/ Probe(r) \/ ConnectEnds(r) \/ Sends(r) \/ SendFails(r)
  \/ Read(r) \/ FindsClosed(r) \/ GivesUp(r) \/ RestEnds(r)

Next ==
  \/ \E c \in Callers :
       Refused(c) \/ Leaves(c) \/ Returns(c) \/ \E k \in Keys : Call(c, k)
  \/ \E r \in Requests :
       \/ Ages(r) \/ TooLong(r) \/ Acquire(r) \/ Reuse(r) \/ RestArrives(r)
       \/ Progress(r)
  \/ ReaderWakes \/ LoopConnects \/ LoopConnected \/ EnsureReader
  \/ \E s \in Sockets :
       Receives(s) \/ Tells(s) \/ EndsTurn(s) \/ Drops(s) \/ Noticed(s)
  \/ RemoveStarts \/ RemoveCancels \/ RemoveCloses

\* Every wait of a request has a deadline, and the lock goes to somebody who
\* waits for it.  The container may hang, and the network may fail for ever.
Spec ==
  /\ Init /\ [][Next]_vars
  /\ WF_vars(\E r \in Requests : Progress(r))
  /\ SF_vars(\E r \in Requests : Acquire(r) \/ Reuse(r))
  /\ WF_vars(\E c \in Callers : Returns(c)) /\ WF_vars(LoopConnected)

-----------------------------------------------------------------------------
(* Properties                                                              *)

\* A socket is read by one: the idle reader reads the shared socket and no
\* other, and a request shares its socket neither with it nor with another
\* request.  (aiohttp raises if two tasks receive at once.)
OneReader ==
  /\ reader \in {None, shared}
  /\ \A r \in Active : req[r].sock # None =>
       /\ req[r].sock # shared
       /\ \A q \in Active : req[q].sock = req[r].sock => q = r

\* A request reads the frames of its own answer: nothing of another turn is
\* on the socket it uses, and nothing at all on the shared one.
OwnFrames ==
  /\ \A r \in Active : req[r].sock # None =>
       LET s == sock[req[r].sock] IN
       /\ \A i \in DOMAIN s.outbox : s.outbox[i].of = r
       /\ \A i \in DOMAIN s.inbox : s.inbox[i] = r
       /\ s.serving \in {None, r}
  /\ (shared # None) =>
       LET s == sock[shared] IN
       s.outbox = <<>> /\ s.inbox = <<>> /\ s.serving = None

\* The container works twice on a request only if its socket failed before
\* a frame of the answer arrived: never after a timeout, and never once the
\* answer began.
WorkRepeatsAfterLoss ==
  \A r \in Requests :
    /\ req[r].work <= 2
    /\ req[r].work = 2 => req[r].lost

\* A socket that is not closed is the shared one or belongs to a request;
\* only a request that was cancelled while it waited to give its socket back
\* leaves one behind.
SocketsAccounted ==
  \A s \in Sockets : Live(s) =>
    \/ s = shared
    \/ \E r \in Requests :
         req[r].sock = s /\ (r \in Active \/ req[r].result = "cancelled")

\* A call whose pipeline did not cancel it is not cancelled with another one
\* that shares its request.
CancelSparesOthers ==
  \A c \in Callers :
    (caller[c].at = "returned" /\ caller[c].result = "cancelled") =>
      life # "up"

\* Every call comes back, though the container may never answer.
EveryCallReturns ==
  \A c \in Callers : caller[c].at = "waiting" ~> caller[c].at # "waiting"
=============================================================================
