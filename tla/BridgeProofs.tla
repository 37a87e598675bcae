---------------------------- MODULE BridgeProofs ----------------------------
(* The safety of Bridge, for any number of calls, keys, requests and       *)
(* sockets: who reads a socket, what is on it, whose it is, how often the  *)
(* container works on a request, and who is cancelled.  Each invariant has *)
(* its own section; all rest on IInv and Known.                            *)
EXTENDS Bridge, TLAPS

Turns == [at : Stages, key : Keys \cup {None}, young : BOOLEAN,
          sock : Sockets \cup {None}, got : BOOLEAN, lost : BOOLEAN,
          work : Nat, result : Results]

\* Records have the fields the actions assign, and ids are ids.
Shape ==
  /\ req \in [Requests -> Turns]
  /\ DOMAIN sock = Sockets /\ \A s \in Sockets : "at" \in DOMAIN sock[s]
  /\ shared \in Sockets \cup {None}

\* A request that is not started has no socket.
FreshHaveNone == \A r \in Requests : req[r].at = "none" => req[r].sock = None

\* A socket that is shared or belongs to a request has been made: a new
\* connection is nobody's yet.
OwnedAreMade ==
  /\ shared # None => sock[shared].at # "none"
  /\ \A r \in Requests : req[r].sock # None => sock[req[r].sock].at # "none"

\* The lock has one holder, and nobody reads the shared socket while it is
\* taken for a request.
LockHeldOnce ==
  \A r \in Requests : req[r].at \in Holding =>
    /\ loop # "connecting"
    /\ \A q \in Requests : req[q].at \in Holding => q = r
    /\ req[r].at = "probing" => reader = None

Owners == Shape /\ FreshHaveNone /\ OwnedAreMade /\ OneReader

IInv == Owners /\ LockHeldOnce

-----------------------------------------------------------------------------
(* What the actions have in common.                                        *)

\* A step in which no request gets a socket, and none becomes active with one.
NoNewOwner ==
  \A r \in Requests :
    (req'[r].at \notin {"none", "done"} /\ req'[r].sock # None) =>
      req[r].at \notin {"none", "done"} /\ req'[r].sock = req[r].sock

LEMMA NoNewOwnerKeeps ==
  ASSUME OneReader, NoNewOwner, shared' \in {shared, None},
         reader' \in {None, shared'}
  PROVE  OneReader'
  BY NoneAssumption DEF OneReader, NoNewOwner, Active

\* Sockets stay made.
SocketsStay ==
  /\ DOMAIN sock' = Sockets
  /\ \A s \in Sockets : "at" \in DOMAIN sock'[s]
  /\ \A s \in Sockets : sock[s].at # "none" => sock'[s].at # "none"

LEMMA ClosingKeeps ==
  ASSUME Shape, NEW S, sock' = Closing(S)
  PROVE  SocketsStay
  BY DEF Shape, SocketsStay, Closing

LEMMA UnchangedKeeps ==
  ASSUME Shape, UNCHANGED sock
  PROVE  SocketsStay
  BY DEF Shape, SocketsStay

\* The requests have their fields, and none that is not started has a socket.
RequestsStay ==
  /\ req' \in [Requests -> Turns]
  /\ \A r \in Requests : req'[r].at = "none" => req'[r].sock = None

LEMMA FinishedKeeps ==
  ASSUME Shape, FreshHaveNone, NEW r \in Requests, req' = Finished(r)
  PROVE  /\ RequestsStay /\ NoNewOwner
         /\ \A q \in Requests : /\ req'[q].sock \in {req[q].sock, None}
                                 /\ req'[q].at \in {req[q].at, "done"}
<1>1. \A q \in Requests : q # r => req'[q] = req[q]
  BY DEF Finished, Shape
<1>2. /\ req'[r].at = "done" /\ req'[r].sock = None
      /\ req'[r] \in Turns
  <2>1. req[r] \in Turns /\ req'[r] = Answered(req[r])
    BY DEF Finished, Shape
  <2> QED BY <2>1 DEF Answered, Turns, Stages, Results
<1>3. req' \in [Requests -> Turns]
  BY <1>1, <1>2 DEF Finished, Shape
<1> QED BY <1>1, <1>2, <1>3 DEF Shape, FreshHaveNone, RequestsStay, NoNewOwner

LEMMA CancelledKeeps ==
  ASSUME Shape, FreshHaveNone, NEW R \in SUBSET Requests,
         req' = Cancelled(R)
  PROVE  /\ RequestsStay /\ NoNewOwner
         /\ \A q \in Requests : /\ req'[q].sock \in {req[q].sock, None}
                                 /\ req'[q].at \in {req[q].at, "done"}
<1>1. ASSUME NEW q \in Requests, q \notin R
      PROVE  req'[q] = req[q]
  BY <1>1 DEF Cancelled, Shape
<1>2. ASSUME NEW q \in Requests, q \in R
      PROVE  /\ req'[q].at = "done" /\ req'[q].sock \in {req[q].sock, None}
             /\ req'[q] \in Turns
  BY <1>2 DEF Cancelled, Shape, Turns, Stages, Results
<1>3. req' \in [Requests -> Turns]
  BY <1>1, <1>2 DEF Cancelled, Shape
<1> QED BY <1>1, <1>2, <1>3 DEF Shape, FreshHaveNone, RequestsStay, NoNewOwner

\* A step without a new owner keeps the invariant.
LEMMA OwnersKept ==
  ASSUME Owners, SocketsStay, RequestsStay, NoNewOwner,
         \A q \in Requests : req'[q].sock \in {req[q].sock, None},
         shared' \in {shared, None}, reader' \in {None, shared'}
  PROVE  Owners'
<1>1. OneReader'
  BY NoNewOwnerKeeps DEF Owners
<1>2. Shape' /\ FreshHaveNone'
  BY DEF Owners, Shape, SocketsStay, RequestsStay, FreshHaveNone
<1>3. OwnedAreMade'
  <2>1. ASSUME NEW r \in Requests, req'[r].sock # None
        PROVE  sock'[req'[r].sock].at # "none"
    <3>1. req'[r].sock = req[r].sock /\ req[r].sock \in Sockets
      BY <2>1 DEF Owners, Shape, Turns
    <3>2. sock[req[r].sock].at # "none"
      BY <2>1, <3>1 DEF Owners, OwnedAreMade
    <3> QED BY <3>1, <3>2 DEF SocketsStay
  <2>2. shared' # None => sock'[shared'].at # "none"
    BY DEF Owners, Shape, OwnedAreMade, SocketsStay
  <2> QED BY <2>1, <2>2 DEF OwnedAreMade
<1> QED BY <1>1, <1>2, <1>3 DEF Owners

-----------------------------------------------------------------------------
(* The steps.                                                              *)

\* A step in which nobody takes the lock, and no reader starts.
NoNewHolder ==
  /\ \A r \in Requests : req'[r].at \in Holding =>
       /\ req[r].at \in Holding
       /\ req'[r].at = "probing" => req[r].at = "probing"
  /\ loop' = "connecting" => loop = "connecting"
  /\ reader' \in {reader, None}

LEMMA HoldersKept ==
  ASSUME LockHeldOnce, NoNewHolder
  PROVE  LockHeldOnce'
  BY DEF LockHeldOnce, NoNewHolder, Holding

\* A step that changes one request where it stands.
LEMMA OneChanges ==
  ASSUME Shape, FreshHaveNone, NEW r \in Requests, NEW t \in Turns,
         req' = [req EXCEPT ![r] = t],
         req[r].at \notin {"none", "done"}, t.at # "none",
         t.sock \in {req[r].sock, None}
  PROVE  /\ RequestsStay /\ NoNewOwner
         /\ \A q \in Requests : req'[q].sock \in {req[q].sock, None}
<1>1. /\ req'[r] = t /\ \A q \in Requests : q # r => req'[q] = req[q]
      /\ req' \in [Requests -> Turns]
  BY DEF Shape
<1> QED BY <1>1 DEF Shape, FreshHaveNone, RequestsStay, NoNewOwner

LEMMA SameRequests ==
  ASSUME Shape, FreshHaveNone, UNCHANGED req
  PROVE  /\ RequestsStay /\ NoNewOwner
         /\ \A q \in Requests : req'[q].sock \in {req[q].sock, None}
  BY DEF Shape, FreshHaveNone, RequestsStay, NoNewOwner

\* A step that changes nothing the invariant speaks of.
LEMMA Untouched ==
  ASSUME IInv, UNCHANGED <<req, sock, shared, reader>>,
         loop' = "connecting" => loop = "connecting"
  PROVE  IInv'
<1>1. SocketsStay
  BY UnchangedKeeps DEF IInv, Owners
<1>2. /\ RequestsStay /\ NoNewOwner
      /\ \A q \in Requests : req'[q].sock \in {req[q].sock, None}
  BY SameRequests DEF IInv, Owners
<1>3. reader' \in {None, shared'}
  BY DEF IInv, Owners, OneReader
<1>4. Owners'
  BY <1>1, <1>2, <1>3, OwnersKept DEF IInv
<1>5. NoNewHolder
  BY DEF NoNewHolder
<1> QED BY <1>4, <1>5, HoldersKept DEF IInv

\* The step of a request that is under way: it stays without the lock, or
\* holds it and does not start over, and it keeps its socket or gives it up.
LEMMA RequestSteps ==
  ASSUME IInv, NEW r \in Requests, NEW t \in Turns,
         req' = [req EXCEPT ![r] = t],
         req[r].at \notin {"none", "done"}, t.at # "none",
         t.at \in Holding => req[r].at \in Holding,
         t.at = "probing" => req[r].at = "probing",
         t.sock \in {req[r].sock, None}, SocketsStay,
         UNCHANGED <<shared, reader, loop>>
  PROVE  IInv'
<1>1. /\ RequestsStay /\ NoNewOwner
      /\ \A q \in Requests : req'[q].sock \in {req[q].sock, None}
  BY OneChanges DEF IInv, Owners
<1>2. reader' \in {None, shared'}
  BY DEF IInv, Owners, OneReader
<1>3. Owners'
  BY <1>1, <1>2, OwnersKept DEF IInv
<1>4. NoNewHolder
  BY DEF NoNewHolder, IInv, Owners, Shape
<1> QED BY <1>3, <1>4, HoldersKept DEF IInv

\* The invariant is inductive.
LEMMA IInvInductive ==
  ASSUME IInv, [Next]_vars
  PROVE  IInv'
<1> USE DEF IInv, Owners
<1>1. ASSUME NEW c \in Callers, NEW k \in Keys, Call(c, k) PROVE IInv'
  <2>1. CASE UNCHANGED req
    BY <1>1, <2>1, Untouched DEF Call
  <2>2. ASSUME NEW r \in Requests, req[r].at = "none",
               req' = [req EXCEPT ![r].at = "lock", ![r].key = k]
        PROVE  IInv'
    <3>1. /\ req'[r].at = "lock" /\ req'[r].sock = None /\ req'[r] \in Turns
          /\ \A q \in Requests : q # r => req'[q] = req[q]
      BY <2>2 DEF Shape, FreshHaveNone, Turns, Stages
    <3>2. req' \in [Requests -> Turns]
      BY <2>2, <3>1 DEF Shape
    <3>3. RequestsStay /\ NoNewOwner
      BY <3>1, <3>2 DEF RequestsStay, NoNewOwner, FreshHaveNone
    <3>4. \A q \in Requests : req'[q].sock \in {req[q].sock, None}
      BY <3>1
    <3>5. SocketsStay
      BY <1>1, UnchangedKeeps DEF Call
    <3>6. Owners'
      BY <1>1, <3>3, <3>4, <3>5, OwnersKept DEF Call, OneReader
    <3>7. NoNewHolder
      BY <1>1, <3>1 DEF Call, NoNewHolder, Holding
    <3> QED BY <3>6, <3>7, HoldersKept
  <2> QED BY <1>1, <2>1, <2>2 DEF Call
<1>2. ASSUME NEW c \in Callers, Refused(c) \/ Returns(c) PROVE IInv'
  BY <1>2, Untouched DEF Refused, Returns
<1>3. ASSUME NEW c \in Callers, Leaves(c) PROVE IInv'
  <2>1. Unwatched(c) \in SUBSET Requests
    BY DEF Unwatched, Active
  <2>2. /\ RequestsStay /\ NoNewOwner
        /\ \A q \in Requests : /\ req'[q].sock \in {req[q].sock, None}
                                /\ req'[q].at \in {req[q].at, "done"}
    BY <1>3, <2>1, CancelledKeeps DEF Leaves
  <2>3. SocketsStay
    BY <1>3, ClosingKeeps DEF Leaves
  <2>4. Owners'
    BY <1>3, <2>2, <2>3, OwnersKept DEF Leaves, OneReader
  <2>5. NoNewHolder
    BY <1>3, <2>2 DEF Leaves, NoNewHolder, Holding
  <2> QED BY <2>4, <2>5, HoldersKept
<1>4. ASSUME NEW r \in Requests, Ages(r) PROVE IInv'
  <2> DEFINE t == [req[r] EXCEPT !.young = FALSE]
  <2>1. req[r] \in Turns
    BY DEF Shape
  <2>2. /\ req' = [req EXCEPT ![r] = t]
        /\ req[r].at \notin {"none", "done"}
        /\ UNCHANGED <<shared, reader, loop>>
    BY <1>4, <2>1 DEF Ages, Active
  <2>3. /\ t \in Turns /\ t.at # "none" /\ t.sock \in {req[r].sock, None}
        /\ t.at \in Holding => req[r].at \in Holding
        /\ t.at = "probing" => req[r].at = "probing"
    BY <1>4, <2>1 DEF Ages, Active, Turns, Stages, Results, Holding
  <2>4. SocketsStay
    BY <1>4, UnchangedKeeps DEF Ages
  <2> QED BY <2>2, <2>3, <2>4, RequestSteps
<1>5. ASSUME NEW r \in Requests, TooLong(r) PROVE IInv'
  <2> DEFINE t == Answered(req[r])
  <2>1. req[r] \in Turns
    BY DEF Shape
  <2>2. /\ req' = [req EXCEPT ![r] = t]
        /\ req[r].at \notin {"none", "done"}
        /\ UNCHANGED <<shared, reader, loop>>
    BY <1>5, <2>1 DEF TooLong, Finished, Answered
  <2>3. /\ t \in Turns /\ t.at # "none" /\ t.sock \in {req[r].sock, None}
        /\ t.at \in Holding => req[r].at \in Holding
        /\ t.at = "probing" => req[r].at = "probing"
    BY <1>5, <2>1
       DEF TooLong, Finished, Answered, Turns, Stages, Results, Holding
  <2>4. SocketsStay
    BY <1>5, UnchangedKeeps DEF TooLong
  <2> QED BY <2>2, <2>3, <2>4, RequestSteps
<1>6. ASSUME NEW r \in Requests, Sends(r) PROVE IInv'
  <2> DEFINE t == [req[r] EXCEPT !.at = "reading"]
  <2>1. req[r] \in Turns
    BY DEF Shape
  <2>2. /\ req' = [req EXCEPT ![r] = t]
        /\ req[r].at \notin {"none", "done"}
        /\ UNCHANGED <<shared, reader, loop>>
    BY <1>6, <2>1 DEF Sends
  <2>3. /\ t \in Turns /\ t.at # "none" /\ t.sock \in {req[r].sock, None}
        /\ t.at \in Holding => req[r].at \in Holding
        /\ t.at = "probing" => req[r].at = "probing"
    BY <1>6, <2>1 DEF Sends, Turns, Stages, Results, Holding
  <2>4. SocketsStay
    BY <1>6 DEF Sends, SocketsStay, Shape
  <2> QED BY <2>2, <2>3, <2>4, RequestSteps
<1>7. ASSUME NEW r \in Requests, SendFails(r) PROVE IInv'
  <2> DEFINE t == [req[r] EXCEPT !.at = "rest", !.sock = None, !.lost = TRUE]
  <2>1. req[r] \in Turns
    BY DEF Shape
  <2>2. /\ req' = [req EXCEPT ![r] = t]
        /\ req[r].at \notin {"none", "done"}
        /\ UNCHANGED <<shared, reader, loop>>
    BY <1>7, <2>1 DEF SendFails
  <2>3. /\ t \in Turns /\ t.at # "none" /\ t.sock \in {req[r].sock, None}
        /\ t.at \in Holding => req[r].at \in Holding
        /\ t.at = "probing" => req[r].at = "probing"
    BY <1>7, <2>1 DEF SendFails, Turns, Stages, Results, Holding
  <2>4. SocketsStay
    <3> DEFINE C == Closing({req[r].sock})
    <3>1. /\ DOMAIN C = Sockets /\ \A q \in Sockets : "at" \in DOMAIN C[q]
          /\ \A q \in Sockets : sock[q].at # "none" => C[q].at # "none"
      BY DEF Closing, Shape
    <3>2. \E a : sock' = [C EXCEPT ![req[r].sock].inbox = a]
      BY <1>7 DEF SendFails
    <3> HIDE DEF C
    <3> QED BY <3>1, <3>2 DEF SocketsStay
  <2> QED BY <2>2, <2>3, <2>4, RequestSteps
<1>8. ASSUME NEW r \in Requests, GivesUp(r) PROVE IInv'
  <2> DEFINE t == Answered(req[r])
  <2>1. req[r] \in Turns
    BY DEF Shape
  <2>2. /\ req' = [req EXCEPT ![r] = t]
        /\ req[r].at \notin {"none", "done"}
        /\ UNCHANGED <<shared, reader, loop>>
    BY <1>8, <2>1 DEF GivesUp, Finished, Answered
  <2>3. /\ t \in Turns /\ t.at # "none" /\ t.sock \in {req[r].sock, None}
        /\ t.at \in Holding => req[r].at \in Holding
        /\ t.at = "probing" => req[r].at = "probing"
    BY <1>8, <2>1
       DEF GivesUp, Finished, Answered, Turns, Stages, Results, Holding
  <2>4. SocketsStay
    BY <1>8, ClosingKeeps DEF GivesUp
  <2> QED BY <2>2, <2>3, <2>4, RequestSteps
<1>9. ASSUME NEW r \in Requests, RestArrives(r) PROVE IInv'
  <2> DEFINE t == [req[r] EXCEPT !.at = "rested", !.work = @ + 1]
  <2>1. req[r] \in Turns
    BY DEF Shape
  <2>2. /\ req' = [req EXCEPT ![r] = t]
        /\ req[r].at \notin {"none", "done"}
        /\ UNCHANGED <<shared, reader, loop>>
    BY <1>9, <2>1 DEF RestArrives
  <2>3. /\ t \in Turns /\ t.at # "none" /\ t.sock \in {req[r].sock, None}
        /\ t.at \in Holding => req[r].at \in Holding
        /\ t.at = "probing" => req[r].at = "probing"
    <3>1. req[r].work + 1 \in Nat
      BY <2>1 DEF Turns
    <3> QED BY <1>9, <2>1, <3>1 DEF RestArrives, Turns, Stages, Holding
  <2>4. SocketsStay
    BY <1>9, UnchangedKeeps DEF RestArrives
  <2> QED BY <2>2, <2>3, <2>4, RequestSteps
<1>10. ASSUME NEW r \in Requests, RestEnds(r) PROVE IInv'
  <2> DEFINE t == Answered(req[r])
  <2>1. req[r] \in Turns
    BY DEF Shape
  <2>2. /\ req' = [req EXCEPT ![r] = t]
        /\ req[r].at \notin {"none", "done"}
        /\ UNCHANGED <<shared, reader, loop>>
    BY <1>10, <2>1 DEF RestEnds, Finished, Answered
  <2>3. /\ t \in Turns /\ t.at # "none" /\ t.sock \in {req[r].sock, None}
        /\ t.at \in Holding => req[r].at \in Holding
        /\ t.at = "probing" => req[r].at = "probing"
    BY <1>10, <2>1
       DEF RestEnds, Finished, Answered, Turns, Stages, Results, Holding
  <2>4. SocketsStay
    BY <1>10, UnchangedKeeps DEF RestEnds
  <2> QED BY <2>2, <2>3, <2>4, RequestSteps
<1>11. ASSUME NEW r \in Requests, Read(r) PROVE IInv'
  <2> DEFINE last == Head(sock[req[r].sock].outbox).kind = "done"
             t == [req[r] EXCEPT !.got = TRUE,
                     !.at = IF last THEN "reuse" ELSE "reading"]
  <2>1. req[r] \in Turns
    BY DEF Shape
  <2>2. /\ req' = [req EXCEPT ![r] = t]
        /\ req[r].at \notin {"none", "done"}
        /\ UNCHANGED <<shared, reader, loop>>
    BY <1>11, <2>1 DEF Read
  <2>3. /\ t \in Turns /\ t.at # "none" /\ t.sock \in {req[r].sock, None}
        /\ t.at \in Holding => req[r].at \in Holding
        /\ t.at = "probing" => req[r].at = "probing"
    BY <1>11, <2>1 DEF Read, Turns, Stages, Results, Holding
  <2>4. SocketsStay
    BY <1>11 DEF Read, SocketsStay, Shape
  <2> QED BY <2>2, <2>3, <2>4, RequestSteps
<1>12. ASSUME NEW r \in Requests, FindsClosed(r) PROVE IInv'
  <2> DEFINE t == IF req[r].got THEN Answered(req[r])
                  ELSE [req[r] EXCEPT !.at = "rest", !.sock = None,
                          !.lost = TRUE]
  <2>1. req[r] \in Turns
    BY DEF Shape
  <2>2. /\ req' = [req EXCEPT ![r] = t]
        /\ req[r].at \notin {"none", "done"}
        /\ UNCHANGED <<shared, reader, loop>>
    BY <1>12, <2>1 DEF FindsClosed, Finished, Answered
  <2>3. /\ t \in Turns /\ t.at # "none" /\ t.sock \in {req[r].sock, None}
        /\ t.at \in Holding => req[r].at \in Holding
        /\ t.at = "probing" => req[r].at = "probing"
    BY <1>12, <2>1
       DEF FindsClosed, Finished, Answered, Turns, Stages, Results, Holding
  <2>4. SocketsStay
    BY <1>12, ClosingKeeps DEF FindsClosed
  <2> QED BY <2>2, <2>3, <2>4, RequestSteps
<1>13. ASSUME NEW r \in Requests, Acquire(r) PROVE IInv'
  <2> DEFINE t == [req[r] EXCEPT !.at =
                     IF shared = None THEN "connecting" ELSE "probing"]
  <2>1. /\ t \in Turns /\ req' = [req EXCEPT ![r] = t] /\ t.sock = req[r].sock
        /\ t.at \in {"connecting", "probing"}
    BY <1>13 DEF Acquire, Shape, Turns, Stages
  <2>2. /\ RequestsStay /\ NoNewOwner
        /\ \A q \in Requests : req'[q].sock \in {req[q].sock, None}
    BY <1>13, <2>1, OneChanges DEF Acquire
  <2>3. SocketsStay
    BY <1>13, UnchangedKeeps DEF Acquire
  <2>4. Owners'
    BY <1>13, <2>2, <2>3, OwnersKept DEF Acquire
  <2>5. \A q \in Requests : req'[q].at \in Holding => q = r
    BY <1>13, <2>1 DEF Acquire, LockFree, Shape
  <2> QED BY <1>13, <2>4, <2>5 DEF Acquire, LockFree, LockHeldOnce
<1>14. ASSUME NEW r \in Requests, Probe(r) PROVE IInv'
  <2>1. reader = None
    BY <1>14 DEF Probe, LockHeldOnce, Holding
  <2>2. SocketsStay
    BY <1>14, UnchangedKeeps, ClosingKeeps DEF Probe
  <2>3. CASE req' = [req EXCEPT ![r].at = "connecting"]
    <3> DEFINE t == [req[r] EXCEPT !.at = "connecting"]
    <3>1. t \in Turns /\ req' = [req EXCEPT ![r] = t]
      BY <2>3 DEF Shape, Turns, Stages
    <3>2. /\ RequestsStay /\ NoNewOwner
          /\ \A q \in Requests : req'[q].sock \in {req[q].sock, None}
      BY <1>14, <3>1, OneChanges DEF Probe, Turns, Shape
    <3>3. Owners'
      BY <1>14, <2>1, <2>2, <3>2, OwnersKept DEF Probe
    <3>4. NoNewHolder
      BY <1>14, <3>1 DEF Probe, NoNewHolder, Holding, Shape
    <3> QED BY <3>3, <3>4, HoldersKept
  <2>4. CASE /\ Live(shared) /\ UNCHANGED sock
             /\ req' = [req EXCEPT ![r].at = "sending", ![r].sock = shared]
    <3>1. /\ req'[r] \in Turns /\ req'[r].at = "sending"
          /\ req'[r].sock = shared
          /\ \A q \in Requests : q # r => req'[q] = req[q]
          /\ req' \in [Requests -> Turns]
      <4> DEFINE t == [req[r] EXCEPT !.at = "sending", !.sock = shared]
      <4>1. t \in Turns /\ t.at = "sending" /\ t.sock = shared
        BY DEF Shape, Turns, Stages
      <4>2. req' = [req EXCEPT ![r] = t]
        BY <2>4 DEF Shape
      <4> HIDE DEF t
      <4> QED BY <4>1, <4>2 DEF Shape
    <3>2. Shape' /\ FreshHaveNone' /\ OwnedAreMade'
      BY <1>14, <2>4, <3>1 DEF Probe, Shape, FreshHaveNone, OwnedAreMade
    <3>3. OneReader'
      BY <1>14, <2>1, <3>1 DEF Probe, OneReader, Active
    <3>4. NoNewHolder
      BY <1>14, <3>1 DEF Probe, NoNewHolder, Holding
    <3> QED BY <3>2, <3>3, <3>4, HoldersKept
  <2> QED BY <1>14, <2>3, <2>4 DEF Probe
<1>15. ASSUME NEW r \in Requests, ConnectEnds(r) PROVE IInv'
  <2>1. CASE req' = [req EXCEPT ![r].at = "rest"] /\ UNCHANGED sock
    <3> DEFINE t == [req[r] EXCEPT !.at = "rest"]
    <3>1. /\ t \in Turns /\ req' = [req EXCEPT ![r] = t]
          /\ t.at = "rest" /\ t.sock = req[r].sock
      BY <2>1 DEF Shape, Turns, Stages
    <3>2. SocketsStay
      BY <2>1, UnchangedKeeps
    <3> QED BY <1>15, <3>1, <3>2, RequestSteps DEF ConnectEnds, Holding
  <2>2. ASSUME NEW s \in Sockets, sock[s].at = "none",
               sock' = [sock EXCEPT ![s].at = "open"],
               req' = [req EXCEPT ![r].at = "sending", ![r].sock = s]
        PROVE  IInv'
    <3>1. /\ req'[r] \in Turns /\ req'[r].at = "sending" /\ req'[r].sock = s
          /\ \A q \in Requests : q # r => req'[q] = req[q]
          /\ req' \in [Requests -> Turns]
      <4> DEFINE t == [req[r] EXCEPT !.at = "sending", !.sock = s]
      <4>1. t \in Turns /\ t.at = "sending" /\ t.sock = s
        BY DEF Shape, Turns, Stages
      <4>2. req' = [req EXCEPT ![r] = t]
        BY <2>2 DEF Shape
      <4> HIDE DEF t
      <4> QED BY <4>1, <4>2 DEF Shape
    <3>2. SocketsStay /\ sock'[s].at = "open"
      BY <2>2 DEF SocketsStay, Shape
    <3>3. Shape' /\ FreshHaveNone'
      BY <1>15, <3>1, <3>2 DEF ConnectEnds, Shape, FreshHaveNone, SocketsStay
    <3>4. shared # s /\ \A q \in Requests : req[q].sock # s
      BY <2>2, NoneAssumption DEF OwnedAreMade
    <3>5. OwnedAreMade'
      <4>1. ASSUME NEW q \in Requests, req'[q].sock # None
            PROVE  sock'[req'[q].sock].at # "none"
        <5>1. req[q].sock \in Sockets \cup {None}
          BY DEF Shape, Turns
        <5> QED BY <3>1, <3>2, <4>1, <5>1 DEF OwnedAreMade, SocketsStay
      <4> QED BY <1>15, <3>2, <4>1
              DEF ConnectEnds, OwnedAreMade, SocketsStay, Shape
    <3>6. OneReader'
      BY <1>15, <3>1, <3>4 DEF ConnectEnds, OneReader, Active
    <3>7. NoNewHolder
      BY <1>15, <3>1 DEF ConnectEnds, NoNewHolder, Holding
    <3> QED BY <3>3, <3>5, <3>6, <3>7, HoldersKept
  <2> QED BY <1>15, <2>1, <2>2 DEF ConnectEnds
<1>16. ASSUME NEW r \in Requests, Reuse(r) PROVE IInv'
  <2>1. /\ RequestsStay /\ NoNewOwner
        /\ \A q \in Requests : /\ req'[q].sock \in {req[q].sock, None}
                                /\ req'[q].at \in {req[q].at, "done"}
    BY <1>16, FinishedKeeps DEF Reuse
  <2>2. LockHeldOnce'
    <3>1. \A q \in Requests : req'[q].at \notin Holding
      BY <1>16, <2>1 DEF Reuse, LockFree, Holding
    <3> QED BY <3>1 DEF LockHeldOnce
  <2> DEFINE s == req[r].sock
  <2>3. s \in Sockets \cup {None} /\ req'[r].sock = None
        /\ req'[r].at = "done"
    BY <1>16 DEF Reuse, Finished, Answered, Shape, Turns
  <2>4. CASE s = None \/ (UNCHANGED <<shared, reader>> /\ sock' = Closing({s}))
    <3>1. SocketsStay
      BY <1>16, UnchangedKeeps, ClosingKeeps DEF Reuse
    <3>2. shared' \in {shared, None} /\ reader' \in {None, shared'}
      BY <1>16, <2>4 DEF Reuse, OneReader
    <3> QED BY <2>1, <2>2, <3>1, <3>2, OwnersKept
  <2>5. CASE s \in Sockets /\ shared' = s /\ reader' \in {s, None}
             /\ UNCHANGED sock
    <3>1. sock[s].at # "none"
      BY <2>5, NoneAssumption DEF OwnedAreMade
    <3>2. Shape' /\ FreshHaveNone'
      BY <2>1, <2>5 DEF Shape, FreshHaveNone, RequestsStay
    <3>3. OwnedAreMade'
      BY <2>1, <2>5, <3>1 DEF OwnedAreMade
    <3>4. OneReader'
      <4>1. ASSUME NEW q \in Requests, req'[q].at \notin {"none", "done"},
                   req'[q].sock # None
            PROVE  /\ q # r /\ req'[q].sock = req[q].sock
                   /\ req[q].at \notin {"none", "done"}
        BY <2>1, <2>3, <4>1 DEF NoNewOwner
      <4>2. r \in Active
        BY <1>16 DEF Reuse, Active
      <4> QED BY <2>5, <4>1, <4>2 DEF OneReader, Active
    <3> QED BY <2>2, <3>2, <3>3, <3>4
  <2> QED BY <1>16, <2>3, <2>4, <2>5 DEF Reuse
<1>17. CASE ReaderWakes
  <2>1. /\ RequestsStay /\ NoNewOwner
        /\ \A q \in Requests : req'[q].sock \in {req[q].sock, None}
    BY <1>17, SameRequests DEF ReaderWakes
  <2>2. SocketsStay
    BY <1>17, ClosingKeeps DEF ReaderWakes
  <2>3. Owners'
    BY <1>17, <2>1, <2>2, OwnersKept DEF ReaderWakes
  <2> QED BY <1>17, <2>3, HoldersKept DEF ReaderWakes, NoNewHolder
<1>18. CASE LoopConnects
  <2>1. /\ RequestsStay /\ NoNewOwner
        /\ \A q \in Requests : req'[q].sock \in {req[q].sock, None}
    BY <1>18, SameRequests DEF LoopConnects
  <2>2. SocketsStay
    BY <1>18, UnchangedKeeps DEF LoopConnects
  <2>3. Owners'
    BY <1>18, <2>1, <2>2, OwnersKept DEF LoopConnects
  <2> QED BY <1>18, <2>3 DEF LoopConnects, LockFree, LockHeldOnce
<1>19. CASE LoopConnected
  <2>1. LockHeldOnce'
    BY <1>19 DEF LoopConnected, LockHeldOnce
  <2>2. CASE UNCHANGED <<sock, shared, reader>>
    BY <1>19, <2>2, Untouched DEF LoopConnected
  <2>3. ASSUME NEW s \in Sockets, sock[s].at = "none",
               sock' = [sock EXCEPT ![s].at = "open"],
               shared' = s, reader' = s, UNCHANGED req
        PROVE  Owners'
    <3>1. SocketsStay /\ sock'[s].at = "open"
      BY <2>3 DEF SocketsStay, Shape
    <3>2. \A q \in Requests : req[q].sock # s
      BY <2>3, NoneAssumption DEF OwnedAreMade
    <3>3. Shape' /\ FreshHaveNone'
      BY <2>3, <3>1 DEF Shape, FreshHaveNone, SocketsStay
    <3>4. OwnedAreMade'
      <4>1. \A q \in Requests : req[q].sock \in Sockets \cup {None}
        BY DEF Shape, Turns
      <4> QED BY <2>3, <3>1, <4>1 DEF OwnedAreMade, SocketsStay
    <3>5. OneReader'
      BY <2>3, <3>2 DEF OneReader, Active
    <3> QED BY <3>3, <3>4, <3>5
  <2> QED BY <1>19, <2>1, <2>2, <2>3 DEF LoopConnected
<1>20. CASE EnsureReader
  <2>1. Owners'
    BY <1>20 DEF EnsureReader, Shape, FreshHaveNone, OwnedAreMade, OneReader,
                 Active
  <2> QED BY <1>20, <2>1 DEF EnsureReader, LockFree, LockHeldOnce
<1>21. ASSUME NEW s \in Sockets, Receives(s) PROVE IInv'
  <2> DEFINE h == Head(sock[s].inbox)
  <2>1. /\ req' \in [Requests -> Turns]
        /\ \A q \in Requests :
             req'[q].at = req[q].at /\ req'[q].sock = req[q].sock
    <3> DEFINE t == [req[h] EXCEPT !.work = @ + 1]
    <3>1. req' = [req EXCEPT ![h] = t]
      BY <1>21 DEF Receives
    <3>2. ASSUME h \in Requests
          PROVE  t \in Turns /\ t.at = req[h].at /\ t.sock = req[h].sock
      <4>1. req[h] \in Turns
        BY <3>2 DEF Shape
      <4>2. req[h].work + 1 \in Nat
        BY <4>1 DEF Turns
      <4> QED BY <4>1, <4>2 DEF Turns
    <3> HIDE DEF t, h
    <3> QED BY <3>1, <3>2 DEF Shape
  <2>2. SocketsStay
    BY <1>21 DEF Receives, SocketsStay, Shape
  <2>3. RequestsStay /\ NoNewOwner
    BY <2>1 DEF RequestsStay, NoNewOwner, FreshHaveNone
  <2>4. Owners'
    BY <1>21, <2>1, <2>2, <2>3, OwnersKept DEF Receives, OneReader
  <2>5. NoNewHolder
    BY <1>21, <2>1 DEF Receives, NoNewHolder
  <2> QED BY <2>4, <2>5, HoldersKept
<1>22. ASSUME NEW s \in Sockets,
              Tells(s) \/ EndsTurn(s) \/ Drops(s) \/ Noticed(s)
       PROVE  IInv'
  <2>1. SocketsStay
    <3>1. CASE Tells(s)
      BY <3>1 DEF Tells, SocketsStay, Shape
    <3>2. CASE EndsTurn(s)
      BY <3>2 DEF EndsTurn, SocketsStay, Shape
    <3>3. CASE Drops(s)
      BY <3>3 DEF Drops, SocketsStay, Shape
    <3>4. CASE Noticed(s)
      BY <3>4 DEF Noticed, SocketsStay, Shape
    <3> QED BY <1>22, <3>1, <3>2, <3>3, <3>4
  <2>2. UNCHANGED <<req, shared, reader, loop>>
    BY <1>22 DEF Tells, EndsTurn, Drops, Noticed
  <2>3. /\ RequestsStay /\ NoNewOwner
        /\ \A q \in Requests : req'[q].sock \in {req[q].sock, None}
    BY <2>2, SameRequests
  <2>4. Owners'
    BY <2>1, <2>2, <2>3, OwnersKept DEF OneReader
  <2>5. NoNewHolder
    BY <2>2 DEF NoNewHolder
  <2> QED BY <2>4, <2>5, HoldersKept
<1>23. CASE RemoveStarts
  BY <1>23, Untouched DEF RemoveStarts
<1>24. CASE RemoveCancels
  <2>1. ToCancel \in SUBSET Requests
    BY DEF ToCancel, Active
  <2>2. /\ RequestsStay /\ NoNewOwner
        /\ \A q \in Requests : /\ req'[q].sock \in {req[q].sock, None}
                                /\ req'[q].at \in {req[q].at, "done"}
    BY <1>24, <2>1, CancelledKeeps DEF RemoveCancels
  <2>3. SocketsStay
    BY <1>24, ClosingKeeps DEF RemoveCancels
  <2>4. Owners'
    BY <1>24, <2>2, <2>3, OwnersKept DEF RemoveCancels, OneReader
  <2>5. NoNewHolder
    BY <1>24, <2>2 DEF RemoveCancels, NoNewHolder, Holding
  <2> QED BY <2>4, <2>5, HoldersKept
<1>25. CASE RemoveCloses
  <2>1. /\ RequestsStay /\ NoNewOwner
        /\ \A q \in Requests : req'[q].sock \in {req[q].sock, None}
    BY <1>25, SameRequests DEF RemoveCloses
  <2>2. SocketsStay
    BY <1>25, ClosingKeeps DEF RemoveCloses
  <2>3. Owners'
    BY <1>25, <2>1, <2>2, OwnersKept DEF RemoveCloses
  <2> QED BY <1>25, <2>3, HoldersKept DEF RemoveCloses, NoNewHolder
<1>26. CASE UNCHANGED vars
  BY <1>26, Untouched DEF vars
<1> QED
  BY <1>1, <1>2, <1>3, <1>4, <1>5, <1>6, <1>7, <1>8, <1>9, <1>10, <1>11, <1>12,
     <1>13, <1>14, <1>15, <1>16, <1>17, <1>18, <1>19, <1>20, <1>21, <1>22,
     <1>23, <1>24, <1>25, <1>26
  DEF Next, Progress

LEMMA IInvInit ==
  ASSUME Init
  PROVE  IInv
<1>1. NewRequest \in Turns /\ NewRequest.at = "none" /\ NewRequest.sock = None
  BY DEF NewRequest, Turns, Stages, Results
<1>2. Shape
  BY <1>1 DEF Init, Shape, NewSocket
<1> QED BY <1>1, <1>2 DEF Init, IInv, Owners, FreshHaveNone, OwnedAreMade,
                          OneReader, LockHeldOnce, Active, Holding

\* A socket is read by one task at a time, however many calls, requests and
\* connections there are: by the idle reader while it is shared, by one
\* request while it is not.  For _ensure_connected_locked, _ws_send_locked and
\* _reuse_shared_ws.
THEOREM OneReaderAlways == Spec => []OneReader
<1>1. Init => IInv
  BY IInvInit
<1>2. IInv /\ [Next]_vars => IInv'
  BY IInvInductive
<1>3. IInv => OneReader
  BY DEF IInv, Owners
<1> QED BY <1>1, <1>2, <1>3, PTL DEF Spec

-----------------------------------------------------------------------------
(* What the steps do, field by field.                                     *)

Types ==
  /\ sock \in [Sockets -> Socket]
  /\ caller \in [Callers -> [at : {"idle", "waiting", "left", "returned"},
                             on : Requests \cup {None}, result : Results]]
  /\ inflight \in [Keys -> Requests \cup {None}]
  /\ reader \in Sockets \cup {None}
  /\ loop \in {"waiting", "connecting", "gone"}
  /\ life \in {"up", "closing", "draining", "removed"}

\* A request has a socket from the moment it may send to the moment it has
\* given the socket back, and there is one to probe.
HaveSockets ==
  \A r \in Requests :
    /\ req[r].at = "probing" => shared # None
    /\ req[r].at \in {"sending", "reading", "reuse"} => req[r].sock # None
    /\ (req[r].sock # None /\ req[r].at # "done") =>
         req[r].at \in {"sending", "reading", "reuse"}

\* A call that waits does so for a request.
CallsWait ==
  \A c \in Callers : caller[c].at = "waiting" => caller[c].on # None

Known == IInv /\ Types /\ HaveSockets /\ CallsWait

LEMMA SocketFields ==
  /\ \A k \in Socket :
       /\ k.at \in {"none", "open", "dropped", "closed"}
       /\ k.inbox \in Seq(Requests) /\ k.serving \in Requests \cup {None}
       /\ k.told \in BOOLEAN /\ k.outbox \in Seq(Frame)
  /\ \A k \in {"token", "done"}, r \in Requests : [of |-> r, kind |-> k] \in Frame
  BY DEF Socket, Frame

\* What becomes of a socket that is closed.
Shut(k) == [k EXCEPT !.at = "closed", !.outbox = <<>>, !.serving = None,
                     !.told = FALSE]

LEMMA SocketUpdates ==
  ASSUME NEW k \in Socket
  PROVE  /\ Shut(k) \in Socket
         /\ \A a \in {"none", "open", "dropped", "closed"} :
              [k EXCEPT !.at = a] \in Socket
         /\ \A i \in Seq(Requests) :
              /\ [k EXCEPT !.inbox = i] \in Socket
              /\ [Shut(k) EXCEPT !.inbox = i] \in Socket
              /\ \A v \in Requests \cup {None} :
                   [k EXCEPT !.inbox = i, !.serving = v] \in Socket
         /\ \A o \in Seq(Frame) :
              /\ [k EXCEPT !.outbox = o] \in Socket
              /\ [k EXCEPT !.told = TRUE, !.outbox = o] \in Socket
              /\ [k EXCEPT !.serving = None, !.told = FALSE, !.outbox = o]
                   \in Socket
              /\ \A i \in Seq(Requests) :
                   [k EXCEPT !.at = "dropped", !.outbox = o, !.serving = None,
                             !.told = FALSE, !.inbox = i] \in Socket
<1>1. <<>> \in Seq(Frame)
  OBVIOUS
<1>2. Shut(k) \in Socket
  BY <1>1 DEF Socket, Shut
<1>3. \A i \in Seq(Requests) : [Shut(k) EXCEPT !.inbox = i] \in Socket
  BY <1>2 DEF Socket
<1>4. \A i \in Seq(Requests), v \in Requests \cup {None} :
        [k EXCEPT !.inbox = i, !.serving = v] \in Socket
  BY DEF Socket
<1>5. \A o \in Seq(Frame) :
        /\ [k EXCEPT !.outbox = o] \in Socket
        /\ [k EXCEPT !.told = TRUE, !.outbox = o] \in Socket
        /\ [k EXCEPT !.serving = None, !.told = FALSE, !.outbox = o]
             \in Socket
  BY DEF Socket
<1>6. \A o \in Seq(Frame), i \in Seq(Requests) :
        [k EXCEPT !.at = "dropped", !.outbox = o, !.serving = None,
                  !.told = FALSE, !.inbox = i] \in Socket
  BY DEF Socket
<1>7. /\ \A a \in {"none", "open", "dropped", "closed"} :
           [k EXCEPT !.at = a] \in Socket
      /\ \A i \in Seq(Requests) : [k EXCEPT !.inbox = i] \in Socket
  BY DEF Socket
<1> QED BY <1>2, <1>3, <1>4, <1>5, <1>6, <1>7

LEMMA Closes ==
  ASSUME sock \in [Sockets -> Socket], NEW S
  PROVE  /\ Closing(S) \in [Sockets -> Socket]
         /\ \A s \in Sockets :
              /\ s \notin S => Closing(S)[s] = sock[s]
              /\ s \in S => Closing(S)[s] = Shut(sock[s])
              /\ Closing(S)[s].inbox = sock[s].inbox
              /\ s \in S => /\ Closing(S)[s].at = "closed"
                            /\ Closing(S)[s].outbox = <<>>
                            /\ Closing(S)[s].serving = None
<1>1. \A s \in Sockets :
        Closing(S)[s] = IF s \in S THEN Shut(sock[s]) ELSE sock[s]
  BY DEF Closing, Shut
<1>2. \A s \in Sockets : sock[s] \in Socket /\ Closing(S)[s] \in Socket
  BY <1>1, SocketUpdates
<1>3. Closing(S) \in [Sockets -> Socket]
  BY <1>2 DEF Closing
<1>4. ASSUME NEW s \in Sockets
      PROVE  /\ Closing(S)[s].inbox = sock[s].inbox
             /\ s \in S => /\ Closing(S)[s].at = "closed"
                           /\ Closing(S)[s].outbox = <<>>
                           /\ Closing(S)[s].serving = None
  <2>1. sock[s] \in Socket
    OBVIOUS
  <2> QED BY <1>1, <2>1 DEF Socket, Shut
<1> HIDE DEF Closing
<1> QED BY <1>1, <1>3, <1>4

LEMMA ClosesType ==
  ASSUME sock \in [Sockets -> Socket]
  PROVE  \A S : Closing(S) \in [Sockets -> Socket]
  BY Closes

\* What a request is known to be.
LEMMA RequestFacts ==
  ASSUME Known, NEW r \in Requests
  PROVE  /\ req[r] \in Turns /\ req[r].at \in Stages
         /\ req[r].key \in Keys \cup {None} /\ req[r].young \in BOOLEAN
         /\ req[r].sock \in Sockets \cup {None}
         /\ req[r].got \in BOOLEAN /\ req[r].lost \in BOOLEAN
         /\ req[r].work \in Nat /\ req[r].result \in Results
         /\ req[r].at \in {"sending", "reading", "reuse"} =>
              req[r].sock \in Sockets
         /\ req[r].at = "probing" => shared \in Sockets
<1>1. req[r] \in Turns /\ shared \in Sockets \cup {None}
  BY DEF Known, IInv, Owners, Shape
<1> QED BY <1>1 DEF Known, HaveSockets, Turns

\* The sockets but s are what they were.
Only(s) ==
  /\ sock' \in [Sockets -> Socket]
  /\ \A u \in Sockets : u # s => sock'[u] = sock[u]

LEMMA OneSocket ==
  ASSUME Types, NEW s \in Sockets, NEW k \in Socket,
         sock' = [sock EXCEPT ![s] = k]
  PROVE  Only(s) /\ sock'[s] = k
  BY DEF Types, Only

LEMMA SendsEffect ==
  ASSUME Known, NEW r \in Requests, Sends(r)
  PROVE  /\ req[r].sock \in Sockets /\ Only(req[r].sock)
         /\ sock'[req[r].sock].inbox \in
              {sock[req[r].sock].inbox, Append(sock[req[r].sock].inbox, r)}
         /\ sock'[req[r].sock].at = sock[req[r].sock].at
         /\ sock'[req[r].sock].outbox = sock[req[r].sock].outbox
         /\ sock'[req[r].sock].serving = sock[req[r].sock].serving
<1> DEFINE s == req[r].sock
           i == IF sock[s].at = "open" THEN Append(sock[s].inbox, r)
                ELSE sock[s].inbox
           k == [sock[s] EXCEPT !.inbox = i]
<1>1. s \in Sockets
  BY RequestFacts DEF Sends
<1>2. sock[s] \in Socket
  BY <1>1 DEF Known, Types
<1>3. sock[s].inbox \in Seq(Requests)
  BY <1>2, SocketFields
<1>4. i \in Seq(Requests)
  BY <1>3
<1>5. k \in Socket
  BY <1>2, <1>4, SocketUpdates
<1>6. sock' = [sock EXCEPT ![s] = k]
  BY DEF Sends
<1>7. /\ k.inbox = i /\ k.at = sock[s].at /\ k.outbox = sock[s].outbox
      /\ k.serving = sock[s].serving
  BY <1>2 DEF Socket
<1> HIDE DEF k
<1>8. Only(s) /\ sock'[s] = k
  BY <1>1, <1>5, <1>6, OneSocket DEF Known
<1> QED BY <1>1, <1>7, <1>8

LEMMA SendFailsEffect ==
  ASSUME Known, NEW r \in Requests, SendFails(r)
  PROVE  /\ req[r].sock \in Sockets /\ Only(req[r].sock)
         /\ sock'[req[r].sock].inbox \in
              {sock[req[r].sock].inbox, Append(sock[req[r].sock].inbox, r)}
         /\ sock'[req[r].sock].at = "closed"
         /\ sock'[req[r].sock].outbox = <<>>
         /\ sock'[req[r].sock].serving = None
<1> DEFINE s == req[r].sock
<1>1. s \in Sockets
  BY RequestFacts DEF SendFails
<1>2. sock[s] \in Socket /\ Shut(sock[s]) \in Socket
  BY <1>1, SocketUpdates DEF Known, Types
<1>3. sock[s].inbox \in Seq(Requests)
  BY <1>2, SocketFields
<1>4. PICK a \in BOOLEAN :
        sock' = [Closing({s}) EXCEPT ![s].inbox =
                   IF a THEN Append(@, r) ELSE @]
  BY DEF SendFails
<1> DEFINE C == Closing({s})
           i == IF a THEN Append(C[s].inbox, r) ELSE C[s].inbox
           k == [C[s] EXCEPT !.inbox = i]
<1>5. /\ C \in [Sockets -> Socket] /\ C[s] = Shut(sock[s])
      /\ C[s].inbox = sock[s].inbox
      /\ \A u \in Sockets : u # s => C[u] = sock[u]
  BY <1>1, Closes DEF Known, Types
<1>6. sock' = [C EXCEPT ![s] = k]
  BY <1>4
<1>7. C[s] \in Socket
  BY <1>1, <1>5
<1>8. C[s].at = "closed" /\ C[s].outbox = <<>> /\ C[s].serving = None
  BY <1>1, Closes DEF Known, Types
<1> HIDE DEF C
<1>9. i \in Seq(Requests) /\ i \in {sock[s].inbox, Append(sock[s].inbox, r)}
  BY <1>3, <1>5
<1> HIDE DEF i
<1>10. k \in Socket
  BY <1>7, <1>9, SocketUpdates
<1>11. /\ k.inbox = i /\ k.at = C[s].at
       /\ k.outbox = C[s].outbox /\ k.serving = C[s].serving
  BY <1>7 DEF Socket
<1> HIDE DEF k
<1>12. Only(s) /\ sock'[s] = k
  BY <1>1, <1>5, <1>6, <1>10 DEF Only
<1> QED BY <1>1, <1>8, <1>9, <1>11, <1>12

LEMMA ReadEffect ==
  ASSUME Known, NEW r \in Requests, Read(r)
  PROVE  /\ req[r].sock \in Sockets /\ Only(req[r].sock)
         /\ sock'[req[r].sock].inbox = sock[req[r].sock].inbox
         /\ sock'[req[r].sock].at = sock[req[r].sock].at
         /\ sock'[req[r].sock].outbox = Tail(sock[req[r].sock].outbox)
         /\ sock'[req[r].sock].serving = sock[req[r].sock].serving
<1> DEFINE s == req[r].sock
           k == [sock[s] EXCEPT !.outbox = Tail(sock[s].outbox)]
<1>1. s \in Sockets
  BY RequestFacts DEF Read
<1>2. sock[s] \in Socket
  BY <1>1 DEF Known, Types
<1>3. sock[s].outbox \in Seq(Frame) /\ sock[s].outbox # <<>>
  BY <1>2, SocketFields DEF Read
<1>4. Tail(sock[s].outbox) \in Seq(Frame)
  BY <1>3
<1>5. k \in Socket
  BY <1>2, <1>4, SocketUpdates
<1>6. sock' = [sock EXCEPT ![s] = k]
  BY DEF Read
<1>7. /\ k.inbox = sock[s].inbox /\ k.at = sock[s].at
      /\ k.outbox = Tail(sock[s].outbox) /\ k.serving = sock[s].serving
  BY <1>2 DEF Socket
<1> HIDE DEF k
<1>8. Only(s) /\ sock'[s] = k
  BY <1>1, <1>5, <1>6, OneSocket DEF Known
<1> QED BY <1>1, <1>7, <1>8

\* A connection is made: the socket is new, and nothing was sent on it.
LEMMA OpenEffect ==
  ASSUME Known, NEW s \in Sockets, sock' = [sock EXCEPT ![s].at = "open"]
  PROVE  /\ Only(s) /\ sock'[s].at = "open"
         /\ sock'[s].inbox = sock[s].inbox
         /\ sock'[s].outbox = sock[s].outbox
         /\ sock'[s].serving = sock[s].serving
<1> DEFINE k == [sock[s] EXCEPT !.at = "open"]
<1>1. sock[s] \in Socket
  BY DEF Known, Types
<1>2. k \in Socket
  BY <1>1, SocketUpdates
<1>3. sock' = [sock EXCEPT ![s] = k]
  OBVIOUS
<1>4. /\ k.inbox = sock[s].inbox /\ k.at = "open"
      /\ k.outbox = sock[s].outbox /\ k.serving = sock[s].serving
  BY <1>1 DEF Socket
<1> HIDE DEF k
<1>5. Only(s) /\ sock'[s] = k
  BY <1>2, <1>3, OneSocket DEF Known
<1> QED BY <1>4, <1>5

LEMMA ReceivesEffect ==
  ASSUME Known, NEW s \in Sockets, Receives(s)
  PROVE  /\ Only(s) /\ sock'[s].inbox = Tail(sock[s].inbox)
         /\ sock'[s].at = sock[s].at /\ sock'[s].outbox = sock[s].outbox
         /\ sock'[s].serving \in {None, Head(sock[s].inbox)}
         /\ sock[s].inbox \in Seq(Requests) /\ sock[s].inbox # <<>>
         /\ Head(sock[s].inbox) \in Requests
<1> DEFINE v == IF sock[s].at = "open" THEN Head(sock[s].inbox) ELSE None
           k == [sock[s] EXCEPT !.inbox = Tail(sock[s].inbox), !.serving = v]
<1>1. sock[s] \in Socket
  BY DEF Known, Types
<1>2. sock[s].inbox \in Seq(Requests) /\ sock[s].inbox # <<>>
  BY <1>1, SocketFields DEF Receives
<1>3. Tail(sock[s].inbox) \in Seq(Requests) /\ Head(sock[s].inbox) \in Requests
  BY <1>2
<1>4. v \in Requests \cup {None}
  BY <1>3
<1>5. k \in Socket
  BY <1>1, <1>3, <1>4, SocketUpdates
<1>6. sock' = [sock EXCEPT ![s] = k]
  BY DEF Receives
<1>7. /\ k.inbox = Tail(sock[s].inbox) /\ k.at = sock[s].at
      /\ k.outbox = sock[s].outbox /\ k.serving = v
  BY <1>1 DEF Socket
<1> HIDE DEF k
<1>8. Only(s) /\ sock'[s] = k
  BY <1>5, <1>6, OneSocket DEF Known
<1> QED BY <1>2, <1>3, <1>7, <1>8

LEMMA TellsEffect ==
  ASSUME Known, NEW s \in Sockets, Tells(s)
  PROVE  /\ Only(s) /\ sock'[s].inbox = sock[s].inbox
         /\ sock'[s].at = sock[s].at /\ sock'[s].serving = sock[s].serving
         /\ sock[s].outbox \in Seq(Frame)
         /\ sock'[s].outbox =
              Append(sock[s].outbox, [of |-> sock[s].serving, kind |-> "token"])
         /\ sock[s].serving \in Requests
<1> DEFINE o == Append(sock[s].outbox,
                       [of |-> sock[s].serving, kind |-> "token"])
           k == [sock[s] EXCEPT !.told = TRUE, !.outbox = o]
<1>1. sock[s] \in Socket
  BY DEF Known, Types
<1>2. sock[s].outbox \in Seq(Frame) /\ sock[s].serving \in Requests
  BY <1>1, SocketFields DEF Tells
<1>3. [of |-> sock[s].serving, kind |-> "token"] \in Frame
  BY <1>2, SocketFields
<1>4. o \in Seq(Frame)
  BY <1>2, <1>3
<1>5. k \in Socket
  BY <1>1, <1>4, SocketUpdates
<1>6. sock' = [sock EXCEPT ![s] = k]
  BY DEF Tells, Says
<1>7. /\ k.inbox = sock[s].inbox /\ k.at = sock[s].at
      /\ k.outbox = o /\ k.serving = sock[s].serving
  BY <1>1 DEF Socket
<1> HIDE DEF k
<1>8. Only(s) /\ sock'[s] = k
  BY <1>5, <1>6, OneSocket DEF Known
<1> QED BY <1>2, <1>7, <1>8

LEMMA EndsTurnEffect ==
  ASSUME Known, NEW s \in Sockets, EndsTurn(s)
  PROVE  /\ Only(s) /\ sock'[s].inbox = sock[s].inbox
         /\ sock'[s].at = sock[s].at /\ sock'[s].serving = None
         /\ sock[s].outbox \in Seq(Frame)
         /\ sock'[s].outbox =
              Append(sock[s].outbox, [of |-> sock[s].serving, kind |-> "done"])
         /\ sock[s].serving \in Requests
<1> DEFINE o == Append(sock[s].outbox,
                       [of |-> sock[s].serving, kind |-> "done"])
           k == [sock[s] EXCEPT !.serving = None, !.told = FALSE, !.outbox = o]
<1>1. sock[s] \in Socket
  BY DEF Known, Types
<1>2. sock[s].outbox \in Seq(Frame) /\ sock[s].serving \in Requests
  BY <1>1, SocketFields DEF EndsTurn
<1>3. [of |-> sock[s].serving, kind |-> "done"] \in Frame
  BY <1>2, SocketFields
<1>4. o \in Seq(Frame)
  BY <1>2, <1>3
<1>5. k \in Socket
  BY <1>1, <1>4, SocketUpdates
<1>6. sock' = [sock EXCEPT ![s] = k]
  BY DEF EndsTurn, Says
<1>7. /\ k.inbox = sock[s].inbox /\ k.at = sock[s].at
      /\ k.outbox = o /\ k.serving = None
  BY <1>1 DEF Socket
<1> HIDE DEF k
<1>8. Only(s) /\ sock'[s] = k
  BY <1>5, <1>6, OneSocket DEF Known
<1> QED BY <1>2, <1>7, <1>8

LEMMA DropsEffect ==
  ASSUME Known, NEW s \in Sockets, Drops(s)
  PROVE  /\ Only(s) /\ sock'[s].inbox \in {sock[s].inbox, <<>>}
         /\ sock'[s].at = "dropped" /\ sock'[s].serving = None
         /\ sock[s].outbox \in Seq(Frame)
         /\ \E n \in 0 .. Len(sock[s].outbox) :
              sock'[s].outbox = SubSeq(sock[s].outbox, 1, n)
<1>1. PICK n \in 0 .. Len(sock[s].outbox), a \in BOOLEAN :
        sock' = [sock EXCEPT ![s].at = "dropped",
                   ![s].outbox = SubSeq(@, 1, n),
                   ![s].serving = None, ![s].told = FALSE,
                   ![s].inbox = IF a THEN @ ELSE <<>>]
  BY DEF Drops
<1> DEFINE o == SubSeq(sock[s].outbox, 1, n)
           i == IF a THEN sock[s].inbox ELSE <<>>
           k == [sock[s] EXCEPT !.at = "dropped", !.outbox = o,
                   !.serving = None, !.told = FALSE, !.inbox = i]
<1>2. sock[s] \in Socket
  BY DEF Known, Types
<1>3. sock[s].outbox \in Seq(Frame) /\ sock[s].inbox \in Seq(Requests)
  BY <1>2, SocketFields
<1>4. o \in Seq(Frame)
  BY <1>3
<1>5. i \in Seq(Requests) /\ i \in {sock[s].inbox, <<>>}
  BY <1>3
<1>6. k \in Socket
  BY <1>2, <1>4, <1>5, SocketUpdates
<1>7. sock' = [sock EXCEPT ![s] = k]
  BY <1>1
<1>8. /\ k.inbox = i /\ k.at = "dropped" /\ k.outbox = o /\ k.serving = None
  BY <1>2 DEF Socket
<1> HIDE DEF k
<1>9. Only(s) /\ sock'[s] = k
  BY <1>6, <1>7, OneSocket DEF Known
<1> QED BY <1>3, <1>5, <1>8, <1>9

LEMMA NoticedEffect ==
  ASSUME Known, NEW s \in Sockets, Noticed(s)
  PROVE  /\ Only(s) /\ sock'[s].inbox = sock[s].inbox
         /\ sock'[s].at = "closed" /\ sock'[s].outbox = sock[s].outbox
         /\ sock'[s].serving = sock[s].serving
<1> DEFINE k == [sock[s] EXCEPT !.at = "closed"]
<1>1. sock[s] \in Socket
  BY DEF Known, Types
<1>2. k \in Socket
  BY <1>1, SocketUpdates
<1>3. sock' = [sock EXCEPT ![s] = k]
  BY DEF Noticed
<1>4. /\ k.inbox = sock[s].inbox /\ k.at = "closed"
      /\ k.outbox = sock[s].outbox /\ k.serving = sock[s].serving
  BY <1>1 DEF Socket
<1> HIDE DEF k
<1>5. Only(s) /\ sock'[s] = k
  BY <1>2, <1>3, OneSocket DEF Known
<1> QED BY <1>4, <1>5

\* The requests but r are what they were.
Alone(r) == \A q \in Requests : q # r => req'[q] = req[q]

\* The parts of a request the invariants speak of.
Kept(r) ==
  /\ req'[r].work = req[r].work /\ req'[r].lost = req[r].lost
  /\ req'[r].young = req[r].young /\ req'[r].result = req[r].result

LEMMA StageEffect ==
  ASSUME Known, NEW r \in Requests, NEW a, req' = [req EXCEPT ![r].at = a]
  PROVE  /\ Alone(r) /\ req'[r].at = a /\ req'[r].sock = req[r].sock
         /\ Kept(r)
  BY DEF Known, IInv, Owners, Shape, Turns, Alone, Kept

LEMMA SendingEffect ==
  ASSUME Known, NEW r \in Requests, NEW s,
         req' = [req EXCEPT ![r].at = "sending", ![r].sock = s]
  PROVE  /\ Alone(r) /\ req'[r].at = "sending" /\ req'[r].sock = s
         /\ Kept(r)
  BY DEF Known, IInv, Owners, Shape, Turns, Alone, Kept

LEMMA LostEffect ==
  ASSUME Known, NEW r \in Requests,
         req' = [req EXCEPT ![r].at = "rest", ![r].sock = None,
                            ![r].lost = TRUE]
  PROVE  /\ Alone(r) /\ req'[r].at = "rest" /\ req'[r].sock = None
         /\ req'[r].lost = TRUE /\ req'[r].work = req[r].work
         /\ req'[r].young = req[r].young /\ req'[r].result = req[r].result
  BY DEF Known, IInv, Owners, Shape, Turns, Alone

LEMMA CallEffect ==
  ASSUME Known, NEW r \in Requests, NEW k,
         req' = [req EXCEPT ![r].at = "lock", ![r].key = k]
  PROVE  /\ Alone(r) /\ req'[r].at = "lock" /\ req'[r].sock = req[r].sock
         /\ Kept(r)
  BY DEF Known, IInv, Owners, Shape, Turns, Alone, Kept

LEMMA AgesEffect ==
  ASSUME Known, NEW r \in Requests, req' = [req EXCEPT ![r].young = FALSE]
  PROVE  /\ Alone(r) /\ req'[r].at = req[r].at /\ req'[r].sock = req[r].sock
         /\ req'[r].work = req[r].work /\ req'[r].lost = req[r].lost
         /\ req'[r].young = FALSE /\ req'[r].result = req[r].result
  BY DEF Known, IInv, Owners, Shape, Turns, Alone

LEMMA RestArrivesEffect ==
  ASSUME Known, NEW r \in Requests, RestArrives(r)
  PROVE  /\ Alone(r) /\ req'[r].at = "rested" /\ req'[r].sock = req[r].sock
         /\ req'[r].work = req[r].work + 1 /\ req'[r].lost = req[r].lost
         /\ req'[r].young = req[r].young /\ req'[r].result = req[r].result
  BY DEF Known, IInv, Owners, Shape, Turns, Alone, RestArrives

LEMMA ReadRequestEffect ==
  ASSUME Known, NEW r \in Requests, Read(r)
  PROVE  /\ Alone(r) /\ req'[r].sock = req[r].sock /\ Kept(r)
         /\ req'[r].at = IF Head(sock[req[r].sock].outbox).kind = "done"
                         THEN "reuse" ELSE "reading"
  BY DEF Known, IInv, Owners, Shape, Turns, Alone, Read, Kept

LEMMA WorkEffect ==
  ASSUME Known, NEW r \in Requests, req' = [req EXCEPT ![r].work = @ + 1]
  PROVE  /\ Alone(r) /\ req'[r].at = req[r].at /\ req'[r].sock = req[r].sock
         /\ req'[r].work = req[r].work + 1 /\ req'[r].lost = req[r].lost
         /\ req'[r].young = req[r].young /\ req'[r].result = req[r].result
  BY DEF Known, IInv, Owners, Shape, Turns, Alone

LEMMA FinishedEffect ==
  ASSUME Known, NEW r \in Requests, req' = Finished(r)
  PROVE  /\ Alone(r) /\ req'[r].at = "done" /\ req'[r].sock = None
         /\ req'[r].work = req[r].work /\ req'[r].lost = req[r].lost
         /\ req'[r].young = FALSE /\ req'[r].result = "text"
<1>1. req[r] \in Turns /\ DOMAIN req = Requests
  BY DEF Known, IInv, Owners, Shape
<1>2. req' = [req EXCEPT ![r] = Answered(req[r])]
  BY DEF Finished
<1>3. /\ Answered(req[r]).at = "done" /\ Answered(req[r]).sock = None
      /\ Answered(req[r]).work = req[r].work
      /\ Answered(req[r]).lost = req[r].lost
      /\ Answered(req[r]).young = FALSE /\ Answered(req[r]).result = "text"
  BY <1>1 DEF Turns, Answered
<1> QED BY <1>1, <1>2, <1>3 DEF Alone

LEMMA CancelledEffect ==
  ASSUME Known, NEW R \in SUBSET Requests, req' = Cancelled(R)
  PROVE  /\ \A q \in Requests \ R : req'[q] = req[q]
         /\ \A q \in R :
              /\ req'[q].at = "done" /\ req'[q].result = "cancelled"
              /\ req'[q].work = req[q].work /\ req'[q].lost = req[q].lost
              /\ req'[q].young = FALSE
              /\ req'[q].sock = IF req[q].at = "reuse" THEN req[q].sock
                                ELSE None
<1>1. \A q \in Requests \ R : req'[q] = req[q]
  BY DEF Cancelled
<1>2. ASSUME NEW q \in R
      PROVE  /\ req'[q].at = "done" /\ req'[q].result = "cancelled"
             /\ req'[q].work = req[q].work /\ req'[q].lost = req[q].lost
             /\ req'[q].young = FALSE
             /\ req'[q].sock = IF req[q].at = "reuse" THEN req[q].sock
                               ELSE None
  <2>1. req[q] \in Turns /\ q \in Requests
    BY DEF Known, IInv, Owners, Shape
  <2> QED BY <2>1 DEF Turns, Cancelled
<1> QED BY <1>1, <1>2

Calls == [at : {"idle", "waiting", "left", "returned"},
          on : Requests \cup {None}, result : Results]

\* The call of c becomes k.
LEMMA CallerEffect ==
  ASSUME Types, NEW c \in Callers, NEW k \in Calls,
         caller' = [caller EXCEPT ![c] = k]
  PROVE  /\ caller' \in [Callers -> Calls] /\ caller'[c] = k
         /\ \A d \in Callers : d # c => caller'[d] = caller[d]
  BY DEF Types, Calls

LEMMA JoinEffect ==
  ASSUME Types, NEW c \in Callers, NEW r \in Requests, Join(c, r)
  PROVE  /\ caller' \in [Callers -> Calls]
         /\ \A d \in Callers : d # c => caller'[d] = caller[d]
         /\ caller'[c].at = "waiting" /\ caller'[c].on = r
         /\ caller'[c].result = caller[c].result
<1> DEFINE k == [caller[c] EXCEPT !.at = "waiting", !.on = r]
<1>1. caller[c] \in Calls
  BY DEF Types, Calls
<1>2. k \in Calls
  BY <1>1 DEF Calls
<1>3. caller' = [caller EXCEPT ![c] = k]
  BY DEF Join
<1>4. k.at = "waiting" /\ k.on = r /\ k.result = caller[c].result
  BY <1>1 DEF Calls
<1> HIDE DEF k
<1> QED BY <1>2, <1>3, <1>4, CallerEffect

LEMMA RefusedEffect ==
  ASSUME Types, NEW c \in Callers, Refused(c)
  PROVE  /\ caller' \in [Callers -> Calls]
         /\ \A d \in Callers : d # c => caller'[d] = caller[d]
         /\ caller'[c].at = "returned" /\ caller'[c].on = caller[c].on
         /\ caller'[c].result = "cancelled"
<1> DEFINE k == [caller[c] EXCEPT !.at = "returned", !.result = "cancelled"]
<1>1. caller[c] \in Calls
  BY DEF Types, Calls
<1>2. k \in Calls
  BY <1>1 DEF Calls, Results
<1>3. caller' = [caller EXCEPT ![c] = k]
  BY DEF Refused
<1>4. k.at = "returned" /\ k.on = caller[c].on /\ k.result = "cancelled"
  BY <1>1 DEF Calls
<1> HIDE DEF k
<1> QED BY <1>2, <1>3, <1>4, CallerEffect

LEMMA LeavesEffect ==
  ASSUME Types, NEW c \in Callers, Leaves(c)
  PROVE  /\ caller' \in [Callers -> Calls]
         /\ \A d \in Callers : d # c => caller'[d] = caller[d]
         /\ caller'[c].at = "left"
<1> DEFINE k == [caller[c] EXCEPT !.at = "left", !.on = None]
<1>1. caller[c] \in Calls
  BY DEF Types, Calls
<1>2. k \in Calls
  BY <1>1 DEF Calls
<1>3. caller' = [caller EXCEPT ![c] = k]
  BY DEF Leaves
<1>4. k.at = "left"
  BY <1>1 DEF Calls
<1> HIDE DEF k
<1> QED BY <1>2, <1>3, <1>4, CallerEffect

LEMMA ReturnsEffect ==
  ASSUME Known, NEW c \in Callers, Returns(c)
  PROVE  /\ caller' \in [Callers -> Calls]
         /\ \A d \in Callers : d # c => caller'[d] = caller[d]
         /\ caller[c].on \in Requests /\ caller'[c].at = "returned"
         /\ caller'[c].result = req[caller[c].on].result
<1> DEFINE k == [at |-> "returned", on |-> None,
                 result |-> req[caller[c].on].result]
<1>1. caller[c] \in Calls
  BY DEF Known, Types, Calls
<1>2. caller[c].on \in Requests
  BY <1>1 DEF Calls, Known, CallsWait, Returns
<1>3. req[caller[c].on].result \in Results
  BY <1>2, RequestFacts
<1>4. k \in Calls
  BY <1>3 DEF Calls
<1>5. caller' = [caller EXCEPT ![c] = k]
  BY DEF Returns
<1>6. k.at = "returned" /\ k.result = req[caller[c].on].result
  OBVIOUS
<1> HIDE DEF k
<1> QED BY <1>2, <1>4, <1>5, <1>6, CallerEffect DEF Known

LEMMA SocketsTyped ==
  ASSUME Known, [Next]_vars
  PROVE  sock' \in [Sockets -> Socket]
<1> DEFINE G == sock' \in [Sockets -> Socket]
<1>1. sock \in [Sockets -> Socket]
  BY DEF Known, Types
<1>2. ASSUME NEW c \in Callers,
             \/ \E k \in Keys : Call(c, k)
             \/ Refused(c) \/ Returns(c) \/ Leaves(c)
      PROVE  G
  BY <1>1, <1>2, ClosesType DEF Call, Refused, Returns, Leaves
<1>3. ASSUME NEW r \in Requests,
             \/ Ages(r) \/ TooLong(r) \/ Acquire(r) \/ Reuse(r)
             \/ RestArrives(r) \/ Probe(r) \/ FindsClosed(r) \/ GivesUp(r)
             \/ RestEnds(r)
      PROVE  G
  BY <1>1, <1>3, ClosesType DEF Ages, TooLong, Acquire, Reuse, RestArrives,
     Probe, FindsClosed, GivesUp, RestEnds
<1>4. ASSUME NEW r \in Requests, Sends(r) \/ SendFails(r) \/ Read(r)
      PROVE  G
  BY <1>4, SendsEffect, SendFailsEffect, ReadEffect DEF Only
<1>5. ASSUME NEW r \in Requests, ConnectEnds(r)
      PROVE  G
  BY <1>1, <1>5, OpenEffect DEF ConnectEnds, Only
<1>6. CASE LoopConnected
  BY <1>1, <1>6, OpenEffect DEF LoopConnected, Only
<1>7. CASE \/ ReaderWakes \/ LoopConnects \/ EnsureReader \/ RemoveStarts
           \/ RemoveCancels \/ RemoveCloses \/ UNCHANGED vars
  BY <1>1, <1>7, ClosesType DEF ReaderWakes, LoopConnects, EnsureReader,
     RemoveStarts, RemoveCancels, RemoveCloses, vars
<1>8. ASSUME NEW s \in Sockets,
             \/ Receives(s) \/ Tells(s) \/ EndsTurn(s) \/ Drops(s) \/ Noticed(s)
      PROVE  G
  BY <1>8, ReceivesEffect, TellsEffect, EndsTurnEffect, DropsEffect,
     NoticedEffect DEF Only
<1>9. G
  BY <1>2, <1>3, <1>4, <1>5, <1>6, <1>7, <1>8 DEF Next, Progress
<1> QED BY <1>9 DEF G

LEMMA CallsTyped ==
  ASSUME Known, [Next]_vars
  PROVE  caller' \in [Callers -> Calls] /\ CallsWait'
<1> DEFINE G == caller' \in [Callers -> Calls] /\ CallsWait'
<1>1. Types /\ CallsWait /\ caller \in [Callers -> Calls]
  BY DEF Known, Types, Calls
<1>2. ASSUME NEW c \in Callers, NEW k \in Keys, Call(c, k)
      PROVE  G
  <2>1. PICK r \in Requests : Join(c, r)
    BY <1>1, <1>2 DEF Call, Joinable, Types
  <2> QED BY <1>1, <2>1, JoinEffect, NoneAssumption DEF CallsWait
<1>3. ASSUME NEW c \in Callers, Refused(c)
      PROVE  G
  BY <1>1, <1>3, RefusedEffect DEF CallsWait
<1>4. ASSUME NEW c \in Callers, Returns(c)
      PROVE  G
  BY <1>1, <1>4, ReturnsEffect DEF CallsWait
<1>5. ASSUME NEW c \in Callers, Leaves(c)
      PROVE  G
  BY <1>1, <1>5, LeavesEffect DEF CallsWait
<1>6. CASE UNCHANGED caller
  BY <1>1, <1>6 DEF CallsWait
<1>7. ASSUME NEW r \in Requests,
             \/ Ages(r) \/ TooLong(r) \/ Acquire(r) \/ Reuse(r)
             \/ RestArrives(r) \/ Progress(r)
      PROVE  UNCHANGED caller
  BY <1>7 DEF Ages, TooLong, Acquire, Reuse, RestArrives, Progress, Probe,
     ConnectEnds, Sends, SendFails, Read, FindsClosed, GivesUp, RestEnds
<1>8. ASSUME NEW s \in Sockets,
             \/ Receives(s) \/ Tells(s) \/ EndsTurn(s) \/ Drops(s) \/ Noticed(s)
      PROVE  UNCHANGED caller
  BY <1>8 DEF Receives, Tells, EndsTurn, Drops, Noticed
<1>9. CASE \/ ReaderWakes \/ LoopConnects \/ LoopConnected \/ EnsureReader
           \/ RemoveStarts \/ RemoveCancels \/ RemoveCloses \/ UNCHANGED vars
  <2>1. UNCHANGED caller
    BY <1>9 DEF ReaderWakes, LoopConnects, LoopConnected, EnsureReader,
       RemoveStarts, RemoveCancels, RemoveCloses, vars
  <2> QED BY <1>6, <2>1
<1>10. G
  BY <1>2, <1>3, <1>4, <1>5, <1>6, <1>7, <1>8, <1>9 DEF Next
<1> QED BY <1>10 DEF G

LEMMA OthersTyped ==
  ASSUME Known, [Next]_vars
  PROVE  /\ inflight' \in [Keys -> Requests \cup {None}]
         /\ loop' \in {"waiting", "connecting", "gone"}
         /\ life' \in {"up", "closing", "draining", "removed"}
<1> DEFINE I == inflight' \in [Keys -> Requests \cup {None}]
           G == /\ I
                /\ loop' \in {"waiting", "connecting", "gone"}
                /\ life' \in {"up", "closing", "draining", "removed"}
<1>1. Types /\ \A R : Popped(R) \in [Keys -> Requests \cup {None}]
  BY DEF Known, Types, Popped
<1>2. ASSUME NEW c \in Callers,
             \/ \E k \in Keys : Call(c, k)
             \/ Refused(c) \/ Returns(c) \/ Leaves(c)
      PROVE  G
  <2>1. UNCHANGED <<loop, life>>
    BY <1>2 DEF Call, Refused, Returns, Leaves
  <2>2. \/ UNCHANGED inflight \/ inflight' = Popped(Unwatched(c))
        \/ \E k \in Keys, r \in Requests :
             inflight' = [inflight EXCEPT ![k] = r]
    BY <1>2 DEF Call, Refused, Returns, Leaves
  <2>3. I
    BY <1>1, <2>2 DEF Types
  <2> QED BY <1>1, <2>1, <2>3 DEF Types
<1>3. ASSUME NEW r \in Requests,
             \/ Ages(r) \/ TooLong(r) \/ Acquire(r) \/ Reuse(r)
             \/ RestArrives(r) \/ Progress(r)
      PROVE  G
  <2>1. UNCHANGED <<loop, life>> /\ (UNCHANGED inflight \/ inflight' = Popped({r}))
    BY <1>3 DEF Ages, TooLong, Acquire, Reuse, RestArrives, Progress, Probe,
       ConnectEnds, Sends, SendFails, Read, FindsClosed, GivesUp, RestEnds
  <2> QED BY <1>1, <2>1 DEF Types
<1>4. CASE \/ ReaderWakes \/ LoopConnects \/ LoopConnected \/ EnsureReader
           \/ RemoveStarts \/ RemoveCancels \/ RemoveCloses \/ UNCHANGED vars
  BY <1>1, <1>4 DEF ReaderWakes, LoopConnects, LoopConnected, EnsureReader,
     RemoveStarts, RemoveCancels, RemoveCloses, vars, Types
<1>5. ASSUME NEW s \in Sockets,
             \/ Receives(s) \/ Tells(s) \/ EndsTurn(s) \/ Drops(s) \/ Noticed(s)
      PROVE  G
  BY <1>1, <1>5 DEF Receives, Tells, EndsTurn, Drops, Noticed, Types
<1>6. G
  BY <1>2, <1>3, <1>4, <1>5 DEF Next
<1> QED BY <1>6 DEF G

\* A step in which no request gets a socket it may use, or gives up the one
\* it uses without leaving its stage.
StagesKept ==
  \A r \in Requests :
    \/ req'[r].at = "done"
    \/ req'[r].at = req[r].at /\ req'[r].sock = req[r].sock
    \/ req'[r].at \notin {"probing", "sending", "reading", "reuse"}
         /\ req'[r].sock = None
    \/ req'[r].at \in {"sending", "reading", "reuse"} /\ req'[r].sock # None

LEMMA HaveSocketsKept ==
  ASSUME HaveSockets, StagesKept,
         \/ UNCHANGED shared
         \/ \A r \in Requests : req'[r].at # "probing"
         \/ shared' # None
  PROVE  HaveSockets'
  BY DEF HaveSockets, StagesKept

LEMMA HaveSocketsInductive ==
  ASSUME Known, [Next]_vars
  PROVE  HaveSockets'
<1> USE DEF Known
<1>1. ASSUME NEW c \in Callers, NEW k \in Keys, Call(c, k)
      PROVE  HaveSockets'
  <2>1. CASE UNCHANGED req
    BY <1>1, <2>1 DEF HaveSockets, Call
  <2>2. ASSUME NEW r \in Requests, req[r].at = "none",
               req' = [req EXCEPT ![r].at = "lock", ![r].key = k]
        PROVE  HaveSockets'
    <3>1. req[r].sock = None
      BY <2>2 DEF IInv, Owners, FreshHaveNone
    <3>2. Alone(r) /\ req'[r].at = "lock" /\ req'[r].sock = None
      BY <2>2, <3>1, CallEffect
    <3> QED BY <1>1, <3>2, HaveSocketsKept DEF Call, Alone, StagesKept
  <2> QED BY <1>1, <2>1, <2>2 DEF Call
<1>2. ASSUME NEW c \in Callers, Leaves(c)
      PROVE  HaveSockets'
  <2>1. Unwatched(c) \in SUBSET Requests
    BY DEF Unwatched, Active
  <2>2. StagesKept
    BY <1>2, <2>1, CancelledEffect DEF Leaves, StagesKept
  <2> QED BY <1>2, <2>2, HaveSocketsKept DEF Leaves
<1>3. CASE RemoveCancels
  <2>1. ToCancel \in SUBSET Requests
    BY DEF ToCancel, Active
  <2>2. StagesKept
    BY <1>3, <2>1, CancelledEffect DEF RemoveCancels, StagesKept
  <2> QED BY <1>3, <2>2, HaveSocketsKept DEF RemoveCancels
<1>4. ASSUME NEW r \in Requests, Ages(r)
      PROVE  HaveSockets'
  BY <1>4, AgesEffect DEF Ages, Alone, HaveSockets
<1>5. ASSUME NEW r \in Requests, req' = Finished(r),
             shared' = shared \/ LockFree
      PROVE  HaveSockets'
  <2>1. StagesKept
    BY <1>5, FinishedEffect DEF StagesKept, Alone
  <2>2. LockFree => \A q \in Requests : req'[q].at # "probing"
    BY <1>5, FinishedEffect DEF LockFree, Holding, Alone
  <2> QED BY <1>5, <2>1, <2>2, HaveSocketsKept
<1>6. ASSUME NEW r \in Requests, Acquire(r)
      PROVE  HaveSockets'
  BY <1>6, StageEffect DEF Acquire, Alone, HaveSockets
<1>7. ASSUME NEW r \in Requests, Probe(r)
      PROVE  HaveSockets'
  <2>1. \A q \in Requests : q # r => req[q].at # "probing"
    BY <1>7 DEF Probe, IInv, LockHeldOnce, Holding
  <2>2. shared # None
    BY <1>7 DEF Probe, HaveSockets
  <2>3. CASE req' = [req EXCEPT ![r].at = "sending", ![r].sock = shared]
    <3>1. Alone(r) /\ req'[r].at = "sending" /\ req'[r].sock = shared
      BY <2>3, SendingEffect
    <3> QED BY <2>1, <2>2, <3>1, HaveSocketsKept DEF Alone, StagesKept
  <2>4. CASE req' = [req EXCEPT ![r].at = "connecting"]
    <3>1. req[r].sock = None
      BY <1>7 DEF Probe, HaveSockets
    <3>2. Alone(r) /\ req'[r].at = "connecting" /\ req'[r].sock = None
      BY <2>4, <3>1, StageEffect
    <3> QED BY <2>1, <3>2, HaveSocketsKept DEF Alone, StagesKept
  <2> QED BY <1>7, <2>3, <2>4 DEF Probe
<1>8. ASSUME NEW r \in Requests, ConnectEnds(r)
      PROVE  HaveSockets'
  <2>1. ASSUME NEW s \in Sockets,
               req' = [req EXCEPT ![r].at = "sending", ![r].sock = s]
        PROVE  HaveSockets'
    <3>1. Alone(r) /\ req'[r].at = "sending" /\ req'[r].sock = s
      BY <2>1, SendingEffect
    <3> QED BY <1>8, <3>1, HaveSocketsKept, NoneAssumption
            DEF ConnectEnds, Alone, StagesKept
  <2>2. CASE req' = [req EXCEPT ![r].at = "rest"]
    BY <1>8, <2>2, StageEffect DEF ConnectEnds, Alone, HaveSockets
  <2> QED BY <1>8, <2>1, <2>2 DEF ConnectEnds
<1>9. ASSUME NEW r \in Requests, Sends(r)
      PROVE  HaveSockets'
  BY <1>9, StageEffect DEF Sends, Alone, HaveSockets
<1>10. ASSUME NEW r \in Requests,
              req' = [req EXCEPT ![r].at = "rest", ![r].sock = None,
                                 ![r].lost = TRUE],
              UNCHANGED shared
       PROVE  HaveSockets'
  <2>1. Alone(r) /\ req'[r].at = "rest" /\ req'[r].sock = None
    BY <1>10, LostEffect
  <2> QED BY <1>10, <2>1, HaveSocketsKept DEF Alone, StagesKept
<1>11. ASSUME NEW r \in Requests, Read(r)
       PROVE  HaveSockets'
  <2>1. req[r].at = "reading" /\ UNCHANGED shared
    BY <1>11 DEF Read
  <2> QED BY <1>11, <2>1, ReadRequestEffect DEF Alone, HaveSockets
<1>12. ASSUME NEW r \in Requests, RestArrives(r)
       PROVE  HaveSockets'
  <2>1. req[r].sock = None /\ UNCHANGED shared
    BY <1>12 DEF RestArrives, HaveSockets
  <2>2. Alone(r) /\ req'[r].at = "rested" /\ req'[r].sock = None
    BY <1>12, <2>1, RestArrivesEffect
  <2> QED BY <2>1, <2>2, HaveSocketsKept DEF Alone, StagesKept
<1>13. ASSUME NEW s \in Sockets, Receives(s)
       PROVE  HaveSockets'
  <2> DEFINE h == Head(sock[s].inbox)
  <2>1. h \in Requests
    BY <1>13, ReceivesEffect
  <2>2. req' = [req EXCEPT ![h].work = @ + 1] /\ UNCHANGED shared
    BY <1>13 DEF Receives
  <2> HIDE DEF h
  <2>3. Alone(h) /\ req'[h].at = req[h].at /\ req'[h].sock = req[h].sock
    BY <2>1, <2>2, WorkEffect
  <2> QED BY <2>1, <2>2, <2>3, HaveSocketsKept DEF Alone, StagesKept
<1>14. ASSUME UNCHANGED req, UNCHANGED shared
       PROVE  HaveSockets'
  BY <1>14 DEF HaveSockets
<1>15. CASE LockFree /\ UNCHANGED req
  BY <1>15 DEF HaveSockets, LockFree, Holding
<1>16. CASE ReaderWakes
  <2>1. \A r \in Requests : req[r].at # "probing"
    BY <1>16 DEF ReaderWakes, IInv, LockHeldOnce, Holding
  <2> QED BY <1>16, <2>1 DEF ReaderWakes, HaveSockets
<1>17. CASE LoopConnected
  <2>1. \A r \in Requests : req[r].at # "probing"
    BY <1>17 DEF LoopConnected, IInv, LockHeldOnce, Holding
  <2> QED BY <1>17, <2>1 DEF LoopConnected, HaveSockets
<1>18. ASSUME NEW c \in Callers, Refused(c) \/ Returns(c)
       PROVE  HaveSockets'
  BY <1>14, <1>18 DEF Refused, Returns
<1>19. ASSUME NEW r \in Requests,
              \/ TooLong(r) \/ Reuse(r) \/ GivesUp(r) \/ RestEnds(r)
              \/ FindsClosed(r) \/ SendFails(r)
       PROVE  HaveSockets'
  BY <1>5, <1>10, <1>19
     DEF TooLong, Reuse, GivesUp, RestEnds, FindsClosed, SendFails
<1>20. CASE LoopConnects \/ EnsureReader \/ RemoveStarts \/ RemoveCloses
  BY <1>14, <1>15, <1>20 DEF LoopConnects, EnsureReader, RemoveStarts,
     RemoveCloses
<1>21. ASSUME NEW s \in Sockets,
              Tells(s) \/ EndsTurn(s) \/ Drops(s) \/ Noticed(s)
       PROVE  HaveSockets'
  BY <1>14, <1>21 DEF Tells, EndsTurn, Drops, Noticed
<1>22. CASE UNCHANGED vars
  BY <1>14, <1>22 DEF vars
<1> QED
  BY <1>1, <1>2, <1>3, <1>4, <1>6, <1>7, <1>8, <1>9, <1>11, <1>12, <1>13,
     <1>16, <1>17, <1>18, <1>19, <1>20, <1>21, <1>22 DEF Next, Progress

LEMMA KnownInductive ==
  ASSUME Known, [Next]_vars
  PROVE  Known'
<1>1. IInv'
  BY IInvInductive DEF Known
<1>2. reader' \in Sockets \cup {None}
  BY <1>1 DEF IInv, Owners, OneReader, Shape
<1> QED BY <1>1, <1>2, SocketsTyped, CallsTyped, OthersTyped,
           HaveSocketsInductive DEF Known, Types, Calls

LEMMA KnownInit ==
  ASSUME Init
  PROVE  Known
<1>1. IInv
  BY IInvInit
<1>2. NewSocket \in Socket
  <2>1. <<>> \in Seq(Requests) /\ <<>> \in Seq(Frame)
    OBVIOUS
  <2> QED BY <2>1 DEF NewSocket, Socket
<1>3. Types
  BY <1>2 DEF Init, Types, Results
<1> QED BY <1>1, <1>3 DEF Init, Known, HaveSockets, CallsWait, NewRequest

-----------------------------------------------------------------------------
(* What is on the sockets.                                                 *)

\* Nothing of any turn is on the socket.
Quiet(s) ==
  sock[s].outbox = <<>> /\ sock[s].inbox = <<>> /\ sock[s].serving = None

\* The socket carries the turn of r and no other: the request, or its frames,
\* of which the last is the end of the turn.
Exchange(s, r) ==
  /\ sock[s].inbox \in {<<>>, <<r>>} /\ sock[s].serving \in {None, r}
  /\ sock[s].inbox # <<>> => sock[s].serving = None /\ sock[s].outbox = <<>>
  /\ \A i \in 1 .. Len(sock[s].outbox) :
       /\ sock[s].outbox[i].of = r
       /\ sock[s].outbox[i].kind = "done" =>
            /\ i = Len(sock[s].outbox)
            /\ sock[s].inbox = <<>> /\ sock[s].serving = None

\* A new socket and the shared one are quiet, and so is that of a request
\* that has not sent or has read its answer to the end.
Traffic ==
  /\ \A s \in Sockets : (sock[s].at = "none" \/ s = shared) => Quiet(s)
  /\ \A r \in Requests :
       /\ req[r].at \in {"sending", "reuse"} => Quiet(req[r].sock)
       /\ req[r].at = "reading" => Exchange(req[r].sock, r)

Calmer(s) ==
  /\ Quiet(s) => Quiet(s)'
  /\ \A r \in Requests : Exchange(s, r) => Exchange(s, r)'
  /\ sock'[s].at = "none" => sock[s].at = "none"

\* A step that brings nothing on a socket, and gives none to a request.
LEMMA TrafficKept ==
  ASSUME Known, Traffic, \A s \in Sockets : Calmer(s),
         shared' \in {shared, None},
         \A r \in Requests : req'[r].at \in {"sending", "reading", "reuse"} =>
           req'[r].at = req[r].at /\ req'[r].sock = req[r].sock
  PROVE  Traffic'
<1>1. ASSUME NEW s \in Sockets, sock'[s].at = "none" \/ s = shared'
      PROVE  Quiet(s)'
  BY <1>1, NoneAssumption DEF Traffic, Calmer
<1>2. ASSUME NEW r \in Requests, req'[r].at \in {"sending", "reading", "reuse"}
      PROVE  /\ req'[r].at \in {"sending", "reuse"} => Quiet(req[r].sock)'
             /\ req'[r].at = "reading" => Exchange(req[r].sock, r)'
  <2>1. req[r].sock \in Sockets
    BY <1>2, RequestFacts
  <2>2. req'[r].at = req[r].at /\ req'[r].sock = req[r].sock
    BY <1>2
  <2> QED BY <1>2, <2>1, <2>2 DEF Traffic, Calmer
<1> QED BY <1>1, <1>2 DEF Traffic

LEMMA SameCalm ==
  ASSUME NEW s \in Sockets, sock'[s].outbox = sock[s].outbox,
         sock'[s].inbox = sock[s].inbox, sock'[s].serving = sock[s].serving,
         sock'[s].at = "none" => sock[s].at = "none"
  PROVE  Calmer(s)
  BY DEF Calmer, Quiet, Exchange

LEMMA ClosingCalm ==
  ASSUME Known, NEW S, sock' = Closing(S)
  PROVE  \A s \in Sockets : Calmer(s)
<1> TAKE s \in Sockets
<1>1. sock \in [Sockets -> Socket]
  BY DEF Known, Types
<1>2. CASE s \notin S
  BY <1>1, <1>2, Closes, SameCalm
<1>3. CASE s \in S
  <2>1. /\ sock'[s].inbox = sock[s].inbox /\ sock'[s].outbox = <<>>
        /\ sock'[s].serving = None /\ sock'[s].at = "closed"
    BY <1>1, <1>3, Closes
  <2> QED BY <2>1 DEF Calmer, Quiet, Exchange
<1> QED BY <1>2, <1>3

LEMMA OnlyCalm ==
  ASSUME NEW s \in Sockets, Only(s), Calmer(s)
  PROVE  \A u \in Sockets : Calmer(u)
  BY SameCalm DEF Only

LEMMA TellsCalm ==
  ASSUME Known, NEW s \in Sockets, Tells(s) \/ EndsTurn(s)
  PROVE  \A u \in Sockets : Calmer(u)
<1> DEFINE f == IF Tells(s) THEN [of |-> sock[s].serving, kind |-> "token"]
                ELSE [of |-> sock[s].serving, kind |-> "done"]
           o == sock[s].outbox
<1>1. /\ Only(s) /\ sock'[s].inbox = sock[s].inbox /\ o \in Seq(Frame)
      /\ sock'[s].at = sock[s].at /\ sock'[s].outbox = Append(o, f)
      /\ sock[s].serving \in Requests
      /\ sock'[s].serving = IF Tells(s) THEN sock[s].serving ELSE None
  BY TellsEffect, EndsTurnEffect
<1>2. /\ f.of = sock[s].serving /\ f.kind \in {"token", "done"}
      /\ f.kind = "done" <=> ~Tells(s)
  OBVIOUS
<1> HIDE DEF f
<1>3. sock[s].serving # None
  BY <1>1, NoneAssumption
<1>4. ASSUME NEW r \in Requests, Exchange(s, r)
      PROVE  Exchange(s, r)'
  <2>1. sock[s].serving = r /\ sock[s].inbox = <<>>
    BY <1>3, <1>4 DEF Exchange
  <2>2. \A i \in 1 .. Len(o) : o[i].of = r /\ o[i].kind # "done"
    BY <1>3, <1>4 DEF Exchange
  <2>3. /\ Len(sock'[s].outbox) = Len(o) + 1 /\ Len(o) \in Nat
        /\ \A i \in 1 .. Len(o) : sock'[s].outbox[i] = o[i]
        /\ sock'[s].outbox[Len(o) + 1] = f
    BY <1>1
  <2>4. ASSUME NEW i \in 1 .. Len(sock'[s].outbox)
        PROVE  /\ sock'[s].outbox[i].of = r
               /\ sock'[s].outbox[i].kind = "done" =>
                    i = Len(sock'[s].outbox) /\ sock'[s].serving = None
    <3>1. i \in 1 .. Len(o) \/ i = Len(o) + 1
      BY <2>3
    <3>2. CASE i \in 1 .. Len(o)
      BY <2>2, <2>3, <3>2
    <3>3. CASE i = Len(o) + 1
      BY <1>1, <1>2, <2>1, <2>3, <3>3
    <3> QED BY <3>1, <3>2, <3>3
  <2> QED BY <1>1, <2>1, <2>4 DEF Exchange
<1>5. Calmer(s)
  BY <1>1, <1>3, <1>4 DEF Calmer, Quiet
<1> QED BY <1>1, <1>5, OnlyCalm

LEMMA DropsCalm ==
  ASSUME Known, NEW s \in Sockets, Drops(s)
  PROVE  \A u \in Sockets : Calmer(u)
<1> DEFINE o == sock[s].outbox
<1>1. /\ Only(s) /\ sock'[s].inbox \in {sock[s].inbox, <<>>}
      /\ sock'[s].at = "dropped" /\ sock'[s].serving = None
      /\ o \in Seq(Frame)
  BY DropsEffect
<1>2. PICK n \in 0 .. Len(o) : sock'[s].outbox = SubSeq(o, 1, n)
  BY DropsEffect
<1>3. /\ Len(sock'[s].outbox) = n
      /\ \A i \in 1 .. n : i \in 1 .. Len(o) /\ sock'[s].outbox[i] = o[i]
  BY <1>1, <1>2
<1>4. o = <<>> => sock'[s].outbox = <<>>
  BY <1>1, <1>2
<1>5. ASSUME NEW r \in Requests, Exchange(s, r)
      PROVE  Exchange(s, r)'
  <2>1. ASSUME NEW i \in 1 .. n
        PROVE  /\ sock'[s].outbox[i].of = r
               /\ sock'[s].outbox[i].kind = "done" =>
                    i = n /\ sock'[s].inbox = <<>> /\ sock'[s].serving = None
    <3>1. i \in 1 .. Len(o) /\ sock'[s].outbox[i] = o[i] /\ i \in Nat
      BY <1>3
    <3>2. o[i].kind = "done" => i = Len(o) /\ sock[s].inbox = <<>>
      BY <1>5, <3>1 DEF Exchange
    <3>3. o[i].of = r
      BY <1>5, <3>1 DEF Exchange
    <3>4. i = Len(o) => i = n
      BY <1>1
    <3> QED BY <1>1, <3>1, <3>2, <3>3, <3>4
  <2> QED BY <1>1, <1>3, <1>4, <1>5, <2>1 DEF Exchange
<1>6. Calmer(s)
  BY <1>1, <1>4, <1>5 DEF Calmer, Quiet
<1> QED BY <1>1, <1>6, OnlyCalm

LEMMA ReceivesCalm ==
  ASSUME Known, NEW s \in Sockets, Receives(s)
  PROVE  \A u \in Sockets : Calmer(u)
<1>1. /\ Only(s) /\ sock'[s].inbox = Tail(sock[s].inbox)
      /\ sock'[s].at = sock[s].at /\ sock'[s].outbox = sock[s].outbox
      /\ sock'[s].serving \in {None, Head(sock[s].inbox)}
      /\ sock[s].inbox # <<>>
  BY ReceivesEffect
<1>2. ASSUME NEW r \in Requests, Exchange(s, r)
      PROVE  Exchange(s, r)'
  <2>1. sock[s].inbox = <<r>> /\ sock[s].outbox = <<>>
    BY <1>1, <1>2 DEF Exchange
  <2>2. Tail(<<r>>) = <<>> /\ Head(<<r>>) = r /\ Len(<<>>) = 0
    OBVIOUS
  <2> QED BY <1>1, <2>1, <2>2 DEF Exchange
<1>3. Calmer(s)
  BY <1>1, <1>2 DEF Calmer, Quiet
<1> QED BY <1>1, <1>3, OnlyCalm

LEMMA NoElements ==
  ASSUME NEW S, NEW q \in Seq(S), Len(q) = 0
  PROVE  q = <<>>
  OBVIOUS

LEMMA TrafficInductive ==
  ASSUME Known, Traffic, [Next]_vars
  PROVE  Traffic'
<1> USE DEF Known
<1>1. UNCHANGED sock => \A s \in Sockets : Calmer(s)
  BY SameCalm
<1>2. ASSUME NEW c \in Callers, NEW k \in Keys, Call(c, k)
      PROVE  Traffic'
  <2>1. CASE UNCHANGED req
    BY <1>1, <1>2, <2>1, TrafficKept DEF Call
  <2>2. ASSUME NEW r \in Requests,
               req' = [req EXCEPT ![r].at = "lock", ![r].key = k]
        PROVE  Traffic'
    <3>1. Alone(r) /\ req'[r].at = "lock"
      BY <2>2, CallEffect
    <3> QED BY <1>1, <1>2, <3>1, TrafficKept DEF Call, Alone
  <2> QED BY <1>2, <2>1, <2>2 DEF Call
<1>3. ASSUME NEW c \in Callers, Leaves(c)
      PROVE  Traffic'
  <2>1. Unwatched(c) \in SUBSET Requests
    BY DEF Unwatched, Active
  <2>2. \A s \in Sockets : Calmer(s)
    BY <1>3, ClosingCalm DEF Leaves
  <2>3. \A r \in Requests : req'[r].at = "done" \/ req'[r] = req[r]
    BY <1>3, <2>1, CancelledEffect DEF Leaves
  <2> QED BY <1>3, <2>2, <2>3, TrafficKept DEF Leaves
<1>4. CASE RemoveCancels
  <2>1. ToCancel \in SUBSET Requests
    BY DEF ToCancel, Active
  <2>2. \A s \in Sockets : Calmer(s)
    BY <1>4, ClosingCalm DEF RemoveCancels
  <2>3. \A r \in Requests : req'[r].at = "done" \/ req'[r] = req[r]
    BY <1>4, <2>1, CancelledEffect DEF RemoveCancels
  <2> QED BY <1>4, <2>2, <2>3, TrafficKept DEF RemoveCancels
<1>5. ASSUME NEW r \in Requests, Ages(r)
      PROVE  Traffic'
  <2>1. Alone(r) /\ req'[r].at = req[r].at /\ req'[r].sock = req[r].sock
    BY <1>5, AgesEffect DEF Ages
  <2> QED BY <1>1, <1>5, <2>1, TrafficKept DEF Ages, Alone
<1>6. ASSUME NEW r \in Requests, req' = Finished(r),
             \A s \in Sockets : Calmer(s), shared' \in {shared, None}
      PROVE  Traffic'
  <2>1. Alone(r) /\ req'[r].at = "done"
    BY <1>6, FinishedEffect
  <2> QED BY <1>6, <2>1, TrafficKept DEF Alone
<1>7. ASSUME NEW r \in Requests, Acquire(r)
      PROVE  Traffic'
  <2>1. Alone(r) /\ req'[r].at \in {"connecting", "probing"}
    BY <1>7, StageEffect DEF Acquire
  <2> QED BY <1>1, <1>7, <2>1, TrafficKept DEF Acquire, Alone
<1>8. ASSUME NEW r \in Requests, Probe(r)
      PROVE  Traffic'
  <2>1. shared \in Sockets
    BY <1>8, RequestFacts DEF Probe
  <2>2. CASE /\ req' = [req EXCEPT ![r].at = "sending", ![r].sock = shared]
             /\ UNCHANGED sock
    <3>1. Alone(r) /\ req'[r].at = "sending" /\ req'[r].sock = shared
      BY <2>2, SendingEffect
    <3>2. \A s \in Sockets : (sock'[s].at = "none" \/ s = shared') => Quiet(s)'
      BY <1>8, <2>2, NoneAssumption DEF Probe, Traffic, Quiet
    <3>3. Quiet(shared)
      BY <2>1 DEF Traffic
    <3>4. ASSUME NEW q \in Requests
          PROVE  /\ req'[q].at \in {"sending", "reuse"} => Quiet(req[q].sock)'
                 /\ req'[q].at = "reading" => Exchange(req[q].sock, q)'
      <4>1. CASE q = r
        BY <2>2, <3>1, <3>3, <4>1 DEF Quiet
      <4>2. CASE q # r
        <5>1. req'[q] = req[q]
          BY <3>1, <4>2 DEF Alone
        <5>2. /\ req[q].at \in {"sending", "reuse"} => Quiet(req[q].sock)
              /\ req[q].at = "reading" => Exchange(req[q].sock, q)
          BY DEF Traffic
        <5> QED BY <2>2, <5>1, <5>2 DEF Quiet, Exchange
      <4> QED BY <4>1, <4>2
    <3> QED BY <3>2, <3>4 DEF Traffic
  <2>3. CASE /\ req' = [req EXCEPT ![r].at = "connecting"]
             /\ sock' = Closing({shared})
    <3>1. Alone(r) /\ req'[r].at = "connecting"
      BY <2>3, StageEffect
    <3>2. \A s \in Sockets : Calmer(s)
      BY <2>3, ClosingCalm
    <3> QED BY <1>8, <3>1, <3>2, TrafficKept DEF Probe, Alone
  <2> QED BY <1>8, <2>2, <2>3 DEF Probe
<1>9. ASSUME NEW r \in Requests, ConnectEnds(r)
      PROVE  Traffic'
  <2>1. ASSUME NEW s \in Sockets, sock[s].at = "none",
               sock' = [sock EXCEPT ![s].at = "open"],
               req' = [req EXCEPT ![r].at = "sending", ![r].sock = s]
        PROVE  Traffic'
    <3>1. Alone(r) /\ req'[r].at = "sending" /\ req'[r].sock = s
      BY <2>1, SendingEffect
    <3>2. /\ Only(s) /\ sock'[s].at = "open" /\ sock'[s].inbox = sock[s].inbox
          /\ sock'[s].outbox = sock[s].outbox
          /\ sock'[s].serving = sock[s].serving
      BY <2>1, OpenEffect
    <3>3. \A u \in Sockets : Calmer(u)
      BY <3>2, SameCalm, OnlyCalm
    <3>4. Quiet(s)'
      BY <2>1, <3>3 DEF Traffic, Calmer
    <3>5. \A u \in Sockets : (sock'[u].at = "none" \/ u = shared') => Quiet(u)'
      BY <1>9, <3>3 DEF ConnectEnds, Traffic, Calmer
    <3>6. ASSUME NEW q \in Requests, q # r
          PROVE  /\ req'[q].at \in {"sending", "reuse"} => Quiet(req[q].sock)'
                 /\ req'[q].at = "reading" => Exchange(req[q].sock, q)'
      BY <3>1, <3>3, <3>6, RequestFacts DEF Traffic, Alone, Calmer
    <3> QED BY <3>1, <3>4, <3>5, <3>6 DEF Traffic
  <2>2. CASE req' = [req EXCEPT ![r].at = "rest"] /\ UNCHANGED sock
    <3>1. Alone(r) /\ req'[r].at = "rest"
      BY <2>2, StageEffect
    <3> QED BY <1>1, <1>9, <2>2, <3>1, TrafficKept DEF ConnectEnds, Alone
  <2> QED BY <1>9, <2>1, <2>2 DEF ConnectEnds
\* A step of r that changes its socket only, which is neither new nor shared
\* nor used by another request.
<1>10. ASSUME NEW r \in Requests, req[r].at \in {"sending", "reading"},
              NEW s \in Sockets, s = req[r].sock, Only(s), Alone(r),
              UNCHANGED shared, sock'[s].at # "none", req'[r].sock \in {s, None},
              \/ req'[r].at \notin {"sending", "reading", "reuse"}
              \/ req'[r].sock = s /\ \/ req'[r].at = "reading" /\ Exchange(s, r)'
                                     \/ req'[r].at = "reuse" /\ Quiet(s)'
       PROVE  Traffic'
  <2>1. r \in Active /\ s # None
    BY <1>10, NoneAssumption DEF Active
  <2>2. s # shared
    BY <1>10, <2>1 DEF IInv, Owners, OneReader
  <2>3. ASSUME NEW u \in Sockets, sock'[u].at = "none" \/ u = shared'
        PROVE  Quiet(u)'
    BY <1>10, <2>2, <2>3 DEF Only, Traffic, Quiet
  <2>4. ASSUME NEW q \in Requests, q # r,
               req[q].at \in {"sending", "reading", "reuse"}
        PROVE  req[q].sock \in Sockets /\ req[q].sock # s
    <3>1. q \in Active /\ req[q].sock \in Sockets /\ req[q].sock # None
      BY <2>4, RequestFacts, NoneAssumption DEF Active
    <3> QED BY <1>10, <2>1, <2>4, <3>1 DEF IInv, Owners, OneReader
  <2>5. ASSUME NEW q \in Requests, q # r
        PROVE  /\ req'[q].at \in {"sending", "reuse"} => Quiet(req[q].sock)'
               /\ req'[q].at = "reading" => Exchange(req[q].sock, q)'
    <3>1. req'[q] = req[q]
      BY <1>10, <2>5 DEF Alone
    <3>2. CASE req[q].at \in {"sending", "reading", "reuse"}
      <4>1. sock'[req[q].sock] = sock[req[q].sock]
        BY <1>10, <2>4, <2>5, <3>2 DEF Only
      <4> QED BY <3>1, <3>2, <4>1 DEF Traffic, Quiet, Exchange
    <3> QED BY <3>1, <3>2
  <2>6. /\ req'[r].at \in {"sending", "reuse"} => Quiet(req[r].sock)'
        /\ req'[r].at = "reading" => Exchange(req[r].sock, r)'
    BY <1>10 DEF Quiet, Exchange
  <2> QED BY <2>3, <2>5, <2>6 DEF Traffic
<1>11. ASSUME NEW r \in Requests, req[r].at \in {"sending", "reading", "reuse"}
       PROVE  sock[req[r].sock].at # "none"
  BY <1>11 DEF HaveSockets, IInv, Owners, OwnedAreMade
<1>12. ASSUME NEW r \in Requests, Sends(r)
       PROVE  Traffic'
  <2>1. PICK s \in Sockets : s = req[r].sock
    BY <1>12, SendsEffect
  <2>2. /\ Only(s) /\ sock'[s].inbox \in {sock[s].inbox, Append(sock[s].inbox, r)}
        /\ sock'[s].at = sock[s].at /\ sock'[s].outbox = sock[s].outbox
        /\ sock'[s].serving = sock[s].serving
    BY <1>12, <2>1, SendsEffect
  <2>3. /\ Alone(r) /\ req'[r].at = "reading" /\ req'[r].sock = s
        /\ req[r].at = "sending" /\ UNCHANGED shared
    BY <1>12, <2>1, StageEffect DEF Sends
  <2>4. Quiet(s)
    BY <2>1, <2>3 DEF Traffic
  <2>5. Append(<<>>, r) = <<r>> /\ Len(<<>>) = 0 /\ 1 .. 0 = {}
    OBVIOUS
  <2>6. Exchange(s, r)'
    BY <2>2, <2>4, <2>5 DEF Quiet, Exchange
  <2> QED BY <1>10, <1>11, <2>1, <2>2, <2>3, <2>6
<1>13. ASSUME NEW r \in Requests, SendFails(r)
       PROVE  Traffic'
  <2>1. PICK s \in Sockets : s = req[r].sock
    BY <1>13, SendFailsEffect
  <2>2. Only(s) /\ sock'[s].at = "closed"
    BY <1>13, <2>1, SendFailsEffect
  <2>3. /\ Alone(r) /\ req'[r].at = "rest" /\ req'[r].sock = None
        /\ req[r].at = "sending" /\ UNCHANGED shared
    BY <1>13, LostEffect DEF SendFails
  <2> QED BY <1>10, <2>1, <2>2, <2>3
<1>14. ASSUME NEW r \in Requests, Read(r)
       PROVE  Traffic'
  <2>0. PICK s \in Sockets : s = req[r].sock
    BY <1>14, ReadEffect
  <2> DEFINE o == sock[s].outbox
  <2>1. /\ Only(s) /\ sock'[s].inbox = sock[s].inbox
        /\ sock'[s].at = sock[s].at /\ sock'[s].outbox = Tail(o)
        /\ sock'[s].serving = sock[s].serving
    BY <1>14, <2>0, ReadEffect
  <2>2. /\ Alone(r) /\ req'[r].sock = s
        /\ req'[r].at = IF Head(o).kind = "done" THEN "reuse" ELSE "reading"
    BY <1>14, <2>0, ReadRequestEffect
  <2>3. req[r].at = "reading" /\ UNCHANGED shared /\ o # <<>>
    BY <1>14, <2>0 DEF Read
  <2>4. o \in Seq(Frame) /\ Exchange(s, r)
    <3>1. sock[s] \in Socket
      BY DEF Types
    <3> QED BY <2>0, <2>3, <3>1, SocketFields DEF Traffic
  <2>5. /\ Len(o) \in Nat /\ Len(o) # 0 /\ Head(o) = o[1]
        /\ Len(Tail(o)) = Len(o) - 1
        /\ \A i \in 1 .. Len(o) - 1 : Tail(o)[i] = o[i + 1]
        /\ Tail(o) \in Seq(Frame)
    BY <2>3, <2>4
  <2>6. sock[s].inbox = <<>>
    BY <2>3, <2>4 DEF Exchange
  <2>7. CASE Head(o).kind = "done"
    <3>1. 1 \in 1 .. Len(o)
      BY <2>5
    <3>2. Len(o) = 1 /\ sock[s].serving = None
      BY <2>4, <2>5, <2>7, <3>1 DEF Exchange
    <3>3. Tail(o) = <<>>
      <4>1. Tail(o) \in Seq(Frame) /\ Len(Tail(o)) = 0
        BY <2>5, <3>2
      <4> HIDE DEF o
      <4> QED BY <4>1, NoElements
    <3>4. Quiet(s)'
      BY <2>1, <2>6, <3>2, <3>3 DEF Quiet
    <3> QED BY <1>10, <1>11, <2>0, <2>1, <2>2, <2>3, <2>7, <3>4
  <2>8. CASE Head(o).kind # "done"
    <3>1. ASSUME NEW i \in 1 .. Len(Tail(o))
          PROVE  /\ Tail(o)[i].of = r
                 /\ Tail(o)[i].kind = "done" =>
                      i = Len(Tail(o)) /\ sock[s].serving = None
      <4>1. i + 1 \in 1 .. Len(o) /\ Tail(o)[i] = o[i + 1] /\ i \in Nat
        BY <2>5
      <4>2. o[i + 1].kind = "done" => i + 1 = Len(o) /\ sock[s].serving = None
        BY <2>4, <4>1 DEF Exchange
      <4>3. o[i + 1].of = r
        BY <2>4, <4>1 DEF Exchange
      <4> QED BY <2>5, <4>1, <4>2, <4>3
    <3>2. Exchange(s, r)'
      <4>1. sock'[s].serving \in {None, r}
        BY <2>1, <2>4 DEF Exchange
      <4> QED BY <2>1, <2>6, <3>1, <4>1 DEF Exchange
    <3> QED BY <1>10, <1>11, <2>0, <2>1, <2>2, <2>3, <2>8, <3>2
  <2> QED BY <2>7, <2>8
<1>15. ASSUME NEW r \in Requests, FindsClosed(r)
       PROVE  Traffic'
  <2>1. \A s \in Sockets : Calmer(s)
    BY <1>15, ClosingCalm DEF FindsClosed
  <2>2. CASE req' = Finished(r)
    BY <1>6, <1>15, <2>1, <2>2 DEF FindsClosed
  <2>3. CASE req' = [req EXCEPT ![r].at = "rest", ![r].sock = None,
                                ![r].lost = TRUE]
    <3>1. Alone(r) /\ req'[r].at = "rest"
      BY <2>3, LostEffect
    <3> QED BY <1>15, <2>1, <3>1, TrafficKept DEF FindsClosed, Alone
  <2> QED BY <1>15, <2>2, <2>3 DEF FindsClosed
<1>16. ASSUME NEW r \in Requests, GivesUp(r)
       PROVE  Traffic'
  <2>1. \A s \in Sockets : Calmer(s)
    BY <1>16, ClosingCalm DEF GivesUp
  <2> QED BY <1>6, <1>16, <2>1 DEF GivesUp
<1>17. ASSUME NEW r \in Requests, TooLong(r) \/ RestEnds(r)
       PROVE  Traffic'
  BY <1>1, <1>6, <1>17 DEF TooLong, RestEnds
<1>18. ASSUME NEW r \in Requests, Reuse(r)
       PROVE  Traffic'
  <2> DEFINE s == req[r].sock
  <2>1. CASE sock' = Closing({s}) /\ UNCHANGED shared
    <3>1. \A u \in Sockets : Calmer(u)
      BY <2>1, ClosingCalm
    <3> QED BY <1>6, <1>18, <2>1, <3>1 DEF Reuse
  <2>2. CASE shared' = s /\ UNCHANGED sock
    <3>1. Quiet(s)
      BY <1>18 DEF Reuse, Traffic
    <3>2. Alone(r) /\ req'[r].at = "done"
      BY <1>18, FinishedEffect DEF Reuse
    <3> QED BY <2>2, <3>1, <3>2 DEF Traffic, Alone, Quiet, Exchange
  <2> QED BY <1>18, <2>1, <2>2 DEF Reuse
<1>19. ASSUME NEW r \in Requests, RestArrives(r)
       PROVE  Traffic'
  <2>1. Alone(r) /\ req'[r].at = "rested"
    BY <1>19, RestArrivesEffect
  <2> QED BY <1>1, <1>19, <2>1, TrafficKept DEF RestArrives, Alone
<1>20. CASE LoopConnected
  <2>1. ASSUME NEW s \in Sockets, sock[s].at = "none",
               sock' = [sock EXCEPT ![s].at = "open"], shared' = s,
               UNCHANGED req
        PROVE  Traffic'
    <3>1. /\ Only(s) /\ sock'[s].at = "open" /\ sock'[s].inbox = sock[s].inbox
          /\ sock'[s].outbox = sock[s].outbox
          /\ sock'[s].serving = sock[s].serving
      BY <2>1, OpenEffect
    <3>2. \A u \in Sockets : Calmer(u)
      BY <3>1, SameCalm, OnlyCalm
    <3>3. \A u \in Sockets : (sock'[u].at = "none" \/ u = shared') => Quiet(u)'
      BY <2>1, <3>2 DEF Traffic, Calmer
    <3>4. ASSUME NEW q \in Requests
          PROVE  /\ req'[q].at \in {"sending", "reuse"} => Quiet(req[q].sock)'
                 /\ req'[q].at = "reading" => Exchange(req[q].sock, q)'
      BY <2>1, <3>2, RequestFacts DEF Traffic, Calmer
    <3> QED BY <3>3, <3>4 DEF Traffic
  <2>2. CASE UNCHANGED <<sock, shared, req>>
    BY <1>1, <2>2, TrafficKept
  <2> QED BY <1>20, <2>1, <2>2 DEF LoopConnected
<1>21. ASSUME \A s \in Sockets : Calmer(s), UNCHANGED req,
              shared' \in {shared, None}
       PROVE  Traffic'
  BY <1>21, TrafficKept
<1>22. CASE ReaderWakes
  <2>1. \A s \in Sockets : Calmer(s)
    BY <1>22, ClosingCalm DEF ReaderWakes
  <2> QED BY <1>21, <1>22, <2>1 DEF ReaderWakes
<1>23. CASE RemoveCloses
  <2>1. \A s \in Sockets : Calmer(s)
    BY <1>23, ClosingCalm DEF RemoveCloses
  <2> QED BY <1>21, <1>23, <2>1 DEF RemoveCloses
<1>24. CASE LoopConnects \/ EnsureReader \/ RemoveStarts
  BY <1>1, <1>21, <1>24 DEF LoopConnects, EnsureReader, RemoveStarts
<1>25. ASSUME NEW c \in Callers, Refused(c) \/ Returns(c)
       PROVE  Traffic'
  BY <1>1, <1>21, <1>25 DEF Refused, Returns
<1>26. ASSUME NEW s \in Sockets,
              Tells(s) \/ EndsTurn(s) \/ Drops(s) \/ Noticed(s)
       PROVE  Traffic'
  <2>1. \A u \in Sockets : Calmer(u)
    <3>1. CASE Noticed(s)
      BY <3>1, NoticedEffect, SameCalm, OnlyCalm
    <3> QED BY <1>26, <3>1, TellsCalm, DropsCalm
  <2> QED BY <1>21, <1>26, <2>1 DEF Tells, EndsTurn, Drops, Noticed
<1>27. ASSUME NEW s \in Sockets, Receives(s)
       PROVE  Traffic'
  <2> DEFINE h == Head(sock[s].inbox)
  <2>1. h \in Requests
    BY <1>27, ReceivesEffect
  <2>2. req' = [req EXCEPT ![h].work = @ + 1] /\ UNCHANGED shared
    BY <1>27 DEF Receives
  <2> HIDE DEF h
  <2>3. Alone(h) /\ req'[h].at = req[h].at /\ req'[h].sock = req[h].sock
    BY <2>1, <2>2, WorkEffect
  <2>4. \A u \in Sockets : Calmer(u)
    BY <1>27, ReceivesCalm
  <2> QED BY <2>1, <2>2, <2>3, <2>4, TrafficKept DEF Alone
<1>28. CASE UNCHANGED vars
  BY <1>1, <1>21, <1>28 DEF vars
<1> QED
  BY <1>2, <1>3, <1>4, <1>5, <1>7, <1>8, <1>9, <1>12, <1>13, <1>14, <1>15,
     <1>16, <1>17, <1>18, <1>19, <1>20, <1>22, <1>23, <1>24, <1>25, <1>26,
     <1>27, <1>28 DEF Next, Progress

-----------------------------------------------------------------------------
(* How often the container works on a request.                             *)

SentOver(s, r) == sock[s].inbox = <<r>>
InTransit(r) == \E s \in Sockets : SentOver(s, r)

Unsent == {"none", "lock", "probing", "connecting", "sending"}

\* How often a request that is where r is may have been worked on.
Budget(r) ==
  IF req[r].at \in Unsent \/ (req[r].at = "rest" /\ ~req[r].lost) THEN 0
  ELSE IF req[r].at # "rest" /\ req[r].lost THEN 2 ELSE 1

Transit(r) == IF InTransit(r) THEN 1 ELSE 0

\* A request is under way on one socket at most, and what the container has
\* done for it, or will for what is under way, is within its budget.
Worked ==
  /\ \A s \in Sockets :
       sock[s].inbox = <<>> \/ \E r \in Requests : SentOver(s, r)
  /\ \A s, u \in Sockets, r \in Requests :
       SentOver(s, r) /\ SentOver(u, r) => s = u
  /\ \A r \in Requests :
       /\ req[r].work + Transit(r) <= Budget(r)
       /\ req[r].at \in Unsent \cup {"reading", "reuse"} => ~req[r].lost

\* A step that sends nothing and in which the container begins nothing.
Later(r) ==
  /\ req'[r].work = req[r].work /\ Budget(r) <= Budget(r)'
  /\ req'[r].at \in Unsent \cup {"reading", "reuse"} => ~req'[r].lost

LEMMA WorkedKept ==
  ASSUME Known, Worked,
         \A s \in Sockets : sock'[s].inbox \in {sock[s].inbox, <<>>},
         \A r \in Requests : Later(r)
  PROVE  Worked'
<1>1. \A r : <<r>> # <<>>
  OBVIOUS
<1>2. \A s \in Sockets, r \in Requests : SentOver(s, r)' => SentOver(s, r)
  BY <1>1 DEF SentOver
<1>3. \A s \in Sockets :
        sock'[s].inbox = <<>> \/ \E r \in Requests : SentOver(s, r)'
  BY DEF Worked, SentOver
<1>4. ASSUME NEW r \in Requests
      PROVE  req'[r].work + Transit(r)' <= Budget(r)'
  <2>1. Transit(r)' <= Transit(r) /\ Transit(r)' \in {0, 1} /\ Transit(r) \in {0, 1}
    BY <1>2 DEF Transit, InTransit
  <2>2. req[r].work \in Nat /\ Budget(r) \in Nat /\ Budget(r)' \in Nat
    BY RequestFacts DEF Budget
  <2>3. req'[r].work = req[r].work /\ Budget(r) <= Budget(r)'
    BY DEF Later
  <2>4. req[r].work + Transit(r) <= Budget(r)
    BY DEF Worked
  <2> QED BY <2>1, <2>2, <2>3, <2>4
<1> QED BY <1>2, <1>3, <1>4 DEF Worked, Later

LEMMA SameInboxes ==
  ASSUME NEW s \in Sockets, Only(s), sock'[s].inbox \in {sock[s].inbox, <<>>}
  PROVE  \A u \in Sockets : sock'[u].inbox \in {sock[u].inbox, <<>>}
  BY DEF Only

LEMMA ClosingInboxes ==
  ASSUME Known, NEW S, sock' = Closing(S)
  PROVE  \A u \in Sockets : sock'[u].inbox \in {sock[u].inbox, <<>>}
  BY Closes DEF Known, Types

\* A step of one request, and what it may do to its budget.
LEMMA OneLater ==
  ASSUME Known, Worked, NEW r \in Requests, Alone(r),
         req'[r].work = req[r].work,
         \/ req'[r].at = req[r].at /\ req'[r].lost = req[r].lost
         \/ req'[r].at = "done" /\ req'[r].lost = req[r].lost
         \/ /\ req[r].at \in Unsent /\ ~req'[r].lost
            /\ req'[r].at \in Unsent \cup {"reading", "rest"}
         \/ /\ req[r].at \in {"reading", "reuse"} /\ ~req'[r].lost
            /\ req'[r].at \in {"reading", "reuse"}
         \/ /\ req[r].at \in {"sending", "reading"} /\ req'[r].lost = TRUE
            /\ req'[r].at = "rest"
  PROVE  \A q \in Requests : Later(q)
<1>1. \A q \in Requests : q # r => Later(q)
  BY DEF Alone, Later, Worked, Budget
<1>2. req[r].lost \in BOOLEAN /\ req[r].at \in Stages
  BY RequestFacts
<1>3. req[r].at \in Unsent \cup {"reading", "reuse"} => ~req[r].lost
  BY DEF Worked
<1>4. Later(r)
  BY <1>2, <1>3 DEF Later, Budget, Unsent, Stages
<1> QED BY <1>1, <1>4

LEMMA WorkedInductive ==
  ASSUME Known, Traffic, Worked, [Next]_vars
  PROVE  Worked'
<1>1. UNCHANGED sock => \A s \in Sockets : sock'[s].inbox \in {sock[s].inbox, <<>>}
  OBVIOUS
<1>2. UNCHANGED req => \A r \in Requests : Later(r)
  BY DEF Later, Budget, Worked
<1>3. \A r \in Requests : /\ req[r].at \in Stages /\ req[r].lost \in BOOLEAN
                          /\ req[r].at \in Unsent => req[r].lost = FALSE
                          /\ req[r].at = "reading" => req[r].lost = FALSE
  BY RequestFacts DEF Worked
<1>4. ASSUME NEW c \in Callers, NEW k \in Keys, Call(c, k)
      PROVE  Worked'
  <2>1. CASE UNCHANGED req
    BY <1>1, <1>2, <1>4, <2>1, WorkedKept DEF Call
  <2>2. ASSUME NEW r \in Requests, req[r].at = "none",
               req' = [req EXCEPT ![r].at = "lock", ![r].key = k]
        PROVE  Worked'
    <3>1. Alone(r) /\ req'[r].at = "lock" /\ Kept(r)
      BY <2>2, CallEffect
    <3>2. \A q \in Requests : Later(q)
      BY <1>3, <2>2, <3>1, OneLater DEF Kept, Unsent
    <3> QED BY <1>1, <1>4, <3>2, WorkedKept DEF Call
  <2> QED BY <1>4, <2>1, <2>2 DEF Call
<1>5. ASSUME NEW R \in SUBSET Requests, req' = Cancelled(R),
             NEW S, sock' = Closing(S)
      PROVE  Worked'
  <2>1. ASSUME NEW r \in Requests
        PROVE  Later(r)
    <3>1. CASE r \in R
      <4>1. /\ req'[r].at = "done" /\ req'[r].work = req[r].work
            /\ req'[r].lost = req[r].lost
        BY <1>5, <3>1, CancelledEffect
      <4> QED BY <1>3, <4>1 DEF Later, Budget, Unsent
    <3>2. CASE r \notin R
      <4>1. req'[r] = req[r]
        BY <1>5, <3>2, CancelledEffect
      <4> QED BY <4>1 DEF Later, Budget, Worked
    <3> QED BY <3>1, <3>2
  <2> QED BY <1>5, <2>1, ClosingInboxes, WorkedKept
<1>6. ASSUME NEW c \in Callers, Leaves(c)
      PROVE  Worked'
  <2>1. Unwatched(c) \in SUBSET Requests
    BY DEF Unwatched, Active
  <2> QED BY <1>5, <1>6, <2>1 DEF Leaves
<1>7. CASE RemoveCancels
  <2>1. ToCancel \in SUBSET Requests
    BY DEF ToCancel, Active
  <2> QED BY <1>5, <1>7, <2>1 DEF RemoveCancels
<1>8. ASSUME NEW r \in Requests, Ages(r)
      PROVE  Worked'
  <2>1. /\ Alone(r) /\ req'[r].at = req[r].at /\ req'[r].work = req[r].work
        /\ req'[r].lost = req[r].lost
    BY <1>8, AgesEffect DEF Ages
  <2>2. \A q \in Requests : Later(q)
    BY <2>1, OneLater
  <2> QED BY <1>1, <1>8, <2>2, WorkedKept DEF Ages
<1>9. ASSUME NEW r \in Requests, req' = Finished(r),
             UNCHANGED sock \/ \E S : sock' = Closing(S)
      PROVE  Worked'
  <2>1. /\ Alone(r) /\ req'[r].at = "done" /\ req'[r].work = req[r].work
        /\ req'[r].lost = req[r].lost
    BY <1>9, FinishedEffect
  <2>2. \A q \in Requests : Later(q)
    BY <2>1, OneLater
  <2> QED BY <1>1, <1>9, <2>2, ClosingInboxes, WorkedKept
<1>10. ASSUME NEW r \in Requests, NEW a \in Unsent \cup {"rest"},
              req[r].at \in Unsent, req' = [req EXCEPT ![r].at = a],
              UNCHANGED sock \/ \E S : sock' = Closing(S)
       PROVE  Worked'
  <2>1. Alone(r) /\ req'[r].at = a /\ Kept(r)
    BY <1>10, StageEffect
  <2>2. \A q \in Requests : Later(q)
    BY <1>3, <1>10, <2>1, OneLater DEF Kept
  <2> QED BY <1>1, <1>10, <2>2, ClosingInboxes, WorkedKept
<1>11. ASSUME NEW r \in Requests, Acquire(r)
       PROVE  Worked'
  BY <1>10, <1>11 DEF Acquire, Unsent
<1>12. ASSUME NEW r \in Requests, req[r].at \in Unsent, NEW s,
              req' = [req EXCEPT ![r].at = "sending", ![r].sock = s],
              \A u \in Sockets : sock'[u].inbox \in {sock[u].inbox, <<>>}
       PROVE  Worked'
  <2>1. Alone(r) /\ req'[r].at = "sending" /\ Kept(r)
    BY <1>12, SendingEffect
  <2>2. \A q \in Requests : Later(q)
    BY <1>3, <1>12, <2>1, OneLater DEF Kept, Unsent
  <2> QED BY <1>12, <2>2, WorkedKept
<1>13. ASSUME NEW r \in Requests, Probe(r)
       PROVE  Worked'
  BY <1>1, <1>10, <1>12, <1>13 DEF Probe, Unsent
<1>14. ASSUME NEW s \in Sockets, sock' = [sock EXCEPT ![s].at = "open"]
       PROVE  \A u \in Sockets : sock'[u].inbox \in {sock[u].inbox, <<>>}
  BY <1>14, OpenEffect, SameInboxes
<1>15. ASSUME NEW r \in Requests, ConnectEnds(r)
       PROVE  Worked'
  BY <1>10, <1>12, <1>14, <1>15 DEF ConnectEnds, Unsent
\* The request is written, whole or not at all, to a quiet socket.
<1>16. ASSUME NEW r \in Requests, req[r].at = "sending",
              NEW s \in Sockets, s = req[r].sock, Only(s), Alone(r),
              sock'[s].inbox \in {sock[s].inbox, Append(sock[s].inbox, r)},
              req'[r].work = req[r].work,
              \/ req'[r].at = "reading" /\ req'[r].lost = FALSE
              \/ req'[r].at = "rest" /\ req'[r].lost = TRUE
       PROVE  Worked'
  <2>1. sock[s].inbox = <<>> /\ Append(<<>>, r) = <<r>>
    BY <1>16 DEF Traffic, Quiet
  <2>2. sock'[s].inbox \in {<<>>, <<r>>}
    BY <1>16, <2>1
  <2>3. \A q : <<q>> # <<>> /\ (<<q>> = <<r>> => q = r)
    OBVIOUS
  <2>4. req[r].work = 0 /\ ~InTransit(r)
    <3>1. req[r].work + Transit(r) <= 0
      BY <1>16 DEF Worked, Budget, Unsent
    <3>2. req[r].work \in Nat
      BY RequestFacts
    <3> QED BY <3>1, <3>2 DEF Transit
  <2>5. \A u \in Sockets, q \in Requests :
          SentOver(u, q)' => (u = s /\ q = r) \/ SentOver(u, q)
    BY <1>16, <2>2, <2>3 DEF SentOver, Only
  <2>6. \A u \in Sockets :
          sock'[u].inbox = <<>> \/ \E q \in Requests : SentOver(u, q)'
    BY <1>16, <2>2 DEF Worked, SentOver, Only
  <2>7. \A u, v \in Sockets, q \in Requests :
          SentOver(u, q)' /\ SentOver(v, q)' => u = v
    BY <2>4, <2>5 DEF Worked, InTransit
  <2>8. ASSUME NEW q \in Requests
        PROVE  /\ req'[q].work + Transit(q)' <= Budget(q)'
               /\ req'[q].at \in Unsent \cup {"reading", "reuse"} => ~req'[q].lost
    <3>1. CASE q = r
      BY <1>16, <2>4, <3>1 DEF Transit, Budget, Unsent
    <3>2. CASE q # r
      <4>1. req'[q] = req[q]
        BY <1>16, <3>2 DEF Alone
      <4>2. InTransit(q)' => InTransit(q)
        BY <2>5, <3>2 DEF InTransit
      <4>3. Budget(q)' = Budget(q) /\ Budget(q) \in Nat /\ req[q].work \in Nat
        BY <4>1, RequestFacts DEF Budget
      <4>4. Transit(q)' <= Transit(q) /\ Transit(q) \in Nat /\ Transit(q)' \in Nat
        BY <4>2 DEF Transit
      <4>5. /\ req[q].work + Transit(q) <= Budget(q)
            /\ req[q].at \in Unsent \cup {"reading", "reuse"} => ~req[q].lost
        BY DEF Worked
      <4> QED BY <4>1, <4>3, <4>4, <4>5
    <3> QED BY <3>1, <3>2
  <2> QED BY <2>6, <2>7, <2>8 DEF Worked
<1>17. ASSUME NEW r \in Requests, Sends(r)
       PROVE  Worked'
  <2>1. PICK s \in Sockets : s = req[r].sock
    BY <1>17, SendsEffect
  <2>2. Only(s) /\ sock'[s].inbox \in {sock[s].inbox, Append(sock[s].inbox, r)}
    BY <1>17, <2>1, SendsEffect
  <2>3. req[r].at = "sending" /\ Alone(r) /\ req'[r].at = "reading" /\ Kept(r)
    BY <1>17, StageEffect DEF Sends
  <2> QED BY <1>3, <1>16, <2>1, <2>2, <2>3 DEF Kept, Unsent
<1>18. ASSUME NEW r \in Requests, SendFails(r)
       PROVE  Worked'
  <2>1. PICK s \in Sockets : s = req[r].sock
    BY <1>18, SendFailsEffect
  <2>2. Only(s) /\ sock'[s].inbox \in {sock[s].inbox, Append(sock[s].inbox, r)}
    BY <1>18, <2>1, SendFailsEffect
  <2>3. /\ req[r].at = "sending" /\ Alone(r) /\ req'[r].at = "rest"
        /\ req'[r].lost = TRUE /\ req'[r].work = req[r].work
    BY <1>18, LostEffect DEF SendFails
  <2> QED BY <1>16, <2>1, <2>2, <2>3
<1>19. ASSUME NEW r \in Requests, Read(r)
       PROVE  Worked'
  <2>1. \A s \in Sockets : sock'[s].inbox \in {sock[s].inbox, <<>>}
    BY <1>19, ReadEffect, SameInboxes
  <2>2. req[r].at = "reading"
    BY <1>19 DEF Read
  <2>3. Alone(r) /\ Kept(r) /\ req'[r].at \in {"reading", "reuse"}
    BY <1>19, ReadRequestEffect
  <2>4. \A q \in Requests : Later(q)
    BY <1>3, <2>2, <2>3, OneLater DEF Kept
  <2> QED BY <2>1, <2>4, WorkedKept
<1>20. ASSUME NEW r \in Requests, FindsClosed(r)
       PROVE  Worked'
  <2>1. CASE req' = [req EXCEPT ![r].at = "rest", ![r].sock = None,
                                ![r].lost = TRUE]
    <3>1. /\ Alone(r) /\ req'[r].at = "rest" /\ req'[r].lost = TRUE
          /\ req'[r].work = req[r].work
      BY <2>1, LostEffect
    <3>2. req[r].at = "reading"
      BY <1>20 DEF FindsClosed
    <3>3. \A q \in Requests : Later(q)
      BY <3>1, <3>2, OneLater
    <3> QED BY <1>20, <3>3, ClosingInboxes, WorkedKept DEF FindsClosed
  <2> QED BY <1>9, <1>20, <2>1 DEF FindsClosed
<1>21. ASSUME NEW r \in Requests,
              TooLong(r) \/ GivesUp(r) \/ Reuse(r) \/ RestEnds(r)
       PROVE  Worked'
  BY <1>9, <1>21 DEF TooLong, GivesUp, Reuse, RestEnds
\* The container begins to work on r, which reaches it over REST.
<1>22. ASSUME NEW r \in Requests, RestArrives(r)
       PROVE  Worked'
  <2>1. /\ Alone(r) /\ req'[r].at = "rested" /\ req'[r].lost = req[r].lost
        /\ req'[r].work = req[r].work + 1
    BY <1>22, RestArrivesEffect
  <2>2. req[r].at = "rest" /\ UNCHANGED sock
    BY <1>22 DEF RestArrives
  <2>3. \A q \in Requests : Transit(q)' = Transit(q) /\ Transit(q) \in {0, 1}
    BY <2>2 DEF Transit, InTransit, SentOver
  <2>4. req'[r].work + Transit(r)' <= Budget(r)'
    <3>1. req[r].work \in Nat /\ req[r].work + Transit(r) <= Budget(r)
      BY RequestFacts DEF Worked
    <3>2. Budget(r) \in Nat /\ Budget(r)' = Budget(r) + 1
      BY <1>3, <2>1, <2>2 DEF Budget, Unsent
    <3> QED BY <2>1, <2>3, <3>1, <3>2
  <2>5. \A q \in Requests : q # r =>
          /\ req'[q].work + Transit(q)' <= Budget(q)'
          /\ req'[q].at \in Unsent \cup {"reading", "reuse"} => ~req'[q].lost
    BY <2>1, <2>3 DEF Alone, Worked, Budget
  <2>6. req'[r].at \notin Unsent \cup {"reading", "reuse"}
    BY <2>1 DEF Unsent
  <2>7. /\ \A s \in Sockets :
             sock'[s].inbox = <<>> \/ \E q \in Requests : SentOver(s, q)'
        /\ \A s, u \in Sockets, q \in Requests :
             SentOver(s, q)' /\ SentOver(u, q)' => s = u
    BY <2>2 DEF Worked, SentOver
  <2> QED BY <2>4, <2>5, <2>6, <2>7 DEF Worked
\* The container begins to work on what it takes from a socket.
<1>23. ASSUME NEW s \in Sockets, Receives(s)
       PROVE  Worked'
  <2>1. /\ Only(s) /\ sock'[s].inbox = Tail(sock[s].inbox)
        /\ sock[s].inbox # <<>> /\ Head(sock[s].inbox) \in Requests
    BY <1>23, ReceivesEffect
  <2>2. PICK h \in Requests : sock[s].inbox = <<h>>
    BY <2>1 DEF Worked, SentOver
  <2>3. Head(<<h>>) = h /\ Tail(<<h>>) = <<>>
    OBVIOUS
  <2>4. req' = [req EXCEPT ![h].work = @ + 1] /\ sock'[s].inbox = <<>>
    BY <1>23, <2>1, <2>2, <2>3 DEF Receives
  <2>5. /\ Alone(h) /\ req'[h].at = req[h].at /\ req'[h].lost = req[h].lost
        /\ req'[h].work = req[h].work + 1
    BY <2>4, WorkEffect
  <2>6. \A q : <<q>> # <<>>
    OBVIOUS
  <2>7. \A u \in Sockets, q \in Requests :
          SentOver(u, q)' => u # s /\ SentOver(u, q)
    BY <2>1, <2>4, <2>6 DEF SentOver, Only
  <2>8. \A u \in Sockets :
          sock'[u].inbox = <<>> \/ \E q \in Requests : SentOver(u, q)'
    BY <2>1, <2>4 DEF Worked, SentOver, Only
  <2>9. \A q \in Requests : InTransit(q)' => InTransit(q)
    BY <2>7 DEF InTransit
  <2>10. InTransit(h) /\ ~InTransit(h)'
    BY <2>2, <2>7 DEF InTransit, Worked, SentOver
  <2>11. ASSUME NEW q \in Requests
         PROVE  /\ req'[q].work + Transit(q)' <= Budget(q)'
                /\ req'[q].at \in Unsent \cup {"reading", "reuse"} => ~req'[q].lost
    <3>1. Budget(q)' = Budget(q) /\ Budget(q) \in Nat
      BY <2>5 DEF Alone, Budget
    <3>2. /\ req[q].work + Transit(q) <= Budget(q) /\ req[q].work \in Nat
          /\ req[q].at \in Unsent \cup {"reading", "reuse"} => ~req[q].lost
      BY RequestFacts DEF Worked
    <3>3. CASE q = h
      BY <2>5, <2>10, <3>1, <3>2, <3>3 DEF Transit
    <3>4. CASE q # h
      BY <2>5, <2>9, <3>1, <3>2, <3>4 DEF Transit, Alone
    <3> QED BY <3>3, <3>4
  <2>12. \A u, v \in Sockets, q \in Requests :
           SentOver(u, q)' /\ SentOver(v, q)' => u = v
    BY <2>7 DEF Worked
  <2> QED BY <2>8, <2>11, <2>12 DEF Worked
<1>24. ASSUME UNCHANGED req,
              \A s \in Sockets : sock'[s].inbox \in {sock[s].inbox, <<>>}
       PROVE  Worked'
  BY <1>2, <1>24, WorkedKept
<1>25. ASSUME NEW s \in Sockets,
              Tells(s) \/ EndsTurn(s) \/ Drops(s) \/ Noticed(s)
       PROVE  Worked'
  <2>1. \A u \in Sockets : sock'[u].inbox \in {sock[u].inbox, <<>>}
    BY <1>25, TellsEffect, EndsTurnEffect, DropsEffect, NoticedEffect,
       SameInboxes
  <2> QED BY <1>24, <1>25, <2>1 DEF Tells, EndsTurn, Drops, Noticed
<1>26. CASE ReaderWakes \/ RemoveCloses
  BY <1>24, <1>26, ClosingInboxes DEF ReaderWakes, RemoveCloses
<1>27. CASE LoopConnected
  BY <1>1, <1>14, <1>24, <1>27 DEF LoopConnected
<1>28. CASE LoopConnects \/ EnsureReader \/ RemoveStarts \/ UNCHANGED vars
  BY <1>1, <1>24, <1>28 DEF LoopConnects, EnsureReader, RemoveStarts, vars
<1>29. ASSUME NEW c \in Callers, Refused(c) \/ Returns(c)
       PROVE  Worked'
  BY <1>1, <1>24, <1>29 DEF Refused, Returns
<1> QED
  BY <1>4, <1>6, <1>7, <1>8, <1>11, <1>13, <1>15, <1>17, <1>18, <1>19, <1>20,
     <1>21, <1>22, <1>23, <1>25, <1>26, <1>27, <1>28, <1>29
  DEF Next, Progress

-----------------------------------------------------------------------------
(* Whose the sockets are.                                                  *)

\* r has s, or left it behind when it was cancelled.
Owns(r, s) ==
  req[r].sock = s /\ (r \in Active \/ req[r].result = "cancelled")

Held ==
  /\ loop = "connecting" => shared = None
  /\ SocketsAccounted

\* A step in which no connection is made, and one that is given up is closed.
OwnersStay ==
  \A s \in Sockets :
    sock'[s].at \in {"open", "dropped"} =>
      /\ Live(s) /\ (s = shared => s = shared')
      /\ \A r \in Requests : Owns(r, s) => Owns(r, s)'

LEMMA HeldKept ==
  ASSUME Held, OwnersStay, loop' = "connecting" => shared' = None
  PROVE  Held'
  BY DEF Held, SocketsAccounted, OwnersStay, Owns, Live

\* A request that is not one of those with a socket owns none.
LEMMA NoSocket ==
  ASSUME Known, NEW r \in Requests, NEW s \in Sockets, Owns(r, s),
         req[r].at # "done"
  PROVE  req[r].at \in {"sending", "reading", "reuse"}
  BY NoneAssumption DEF Known, HaveSockets, Owns

\* The step of one request which keeps its socket, or closes it, or has none.
LEMMA OneHeld ==
  ASSUME Known, Held, NEW r \in Requests, Alone(r),
         req[r].at \notin {"none", "done"},
         \/ req'[r].sock = req[r].sock /\ req'[r].at \notin {"none", "done"}
         \/ req[r].at \notin {"sending", "reading", "reuse"}
         \/ sock'[req[r].sock].at = "closed",
         \A s \in Sockets : sock'[s].at \in {"open", "dropped"} => Live(s),
         \A s \in Sockets :
            s = shared /\ sock'[s].at \in {"open", "dropped"} => s = shared',
         loop' = "connecting" => shared' = None
  PROVE  Held'
<1>1. ASSUME NEW s \in Sockets, sock'[s].at \in {"open", "dropped"},
             NEW q \in Requests, Owns(q, s)
      PROVE  Owns(q, s)'
  <2>1. CASE q # r
    BY <1>1, <2>1 DEF Alone, Owns, Active
  <2>2. CASE q = r
    <3>1. req[r].at \in {"sending", "reading", "reuse"} /\ req[r].sock = s
      BY <1>1, <2>2, NoSocket DEF Owns
    <3>2. sock'[s].at # "closed"
      BY <1>1
    <3>3. req'[r].sock = req[r].sock /\ req'[r].at \notin {"none", "done"}
      BY <3>1, <3>2
    <3> QED BY <2>2, <3>1, <3>3 DEF Owns, Active
  <2> QED BY <2>1, <2>2
<1> QED BY <1>1, HeldKept DEF OwnersStay

\* The sockets of a set are closed, and the others stay what they are.
LEMMA ClosingEnds ==
  ASSUME Known, NEW S, sock' = Closing(S)
  PROVE  \A s \in Sockets : IF s \in S THEN sock'[s].at = "closed"
                            ELSE sock'[s] = sock[s]
  BY Closes DEF Known, Types

LEMMA HeldInductive ==
  ASSUME Known, Held, [Next]_vars
  PROVE  Held'
<1>1. loop = "connecting" => shared = None
  BY DEF Held
<1>2. ASSUME NEW c \in Callers, NEW k \in Keys, Call(c, k)
      PROVE  Held'
  <2>1. CASE UNCHANGED req
    BY <1>1, <1>2, <2>1, HeldKept DEF Call, OwnersStay, Owns, Active, Live
  <2>2. ASSUME NEW r \in Requests, req[r].at = "none",
               req' = [req EXCEPT ![r].at = "lock", ![r].key = k]
        PROVE  Held'
    <3>1. Alone(r)
      BY <2>2, CallEffect
    <3>2. \A s \in Sockets : ~Owns(r, s)
      BY <2>2, NoneAssumption DEF Owns, Known, IInv, Owners, FreshHaveNone
    <3>3. \A s \in Sockets, q \in Requests : Owns(q, s) => Owns(q, s)'
      BY <3>1, <3>2 DEF Owns, Alone, Active
    <3> QED BY <1>1, <1>2, <3>3, HeldKept DEF Call, OwnersStay, Live
  <2> QED BY <1>2, <2>1, <2>2 DEF Call
<1>3. ASSUME NEW R \in SUBSET Active, req' = Cancelled(R),
             sock' = Closing(Dropped(R)), UNCHANGED shared,
             loop' = loop
      PROVE  Held'
  <2>1. R \in SUBSET Requests
    BY DEF Active
  <2>2. ASSUME NEW s \in Sockets, sock'[s].at \in {"open", "dropped"}
        PROVE  /\ Live(s) /\ s \notin Dropped(R)
    BY <1>3, <2>2, ClosingEnds DEF Live
  <2>3. ASSUME NEW s \in Sockets, sock'[s].at \in {"open", "dropped"},
               NEW r \in Requests, Owns(r, s)
        PROVE  Owns(r, s)'
    <3>1. CASE r \notin R
      <4>1. req'[r] = req[r]
        BY <1>3, <2>1, <3>1, CancelledEffect
      <4> QED BY <2>3, <4>1 DEF Owns, Active
    <3>2. CASE r \in R
      <4>1. req[r].at \in {"sending", "reading", "reuse"} /\ req[r].sock = s
        BY <2>3, <3>2, NoSocket DEF Active, Owns
      <4>2. req[r].at = "reuse"
        BY <2>2, <2>3, <3>2, <4>1 DEF Dropped
      <4>3. req'[r].sock = s /\ req'[r].result = "cancelled"
        BY <1>3, <2>1, <3>2, <4>1, <4>2, CancelledEffect
      <4> QED BY <4>3 DEF Owns
    <3> QED BY <3>1, <3>2
  <2> QED BY <1>1, <1>3, <2>2, <2>3, HeldKept DEF OwnersStay
<1>4. ASSUME NEW c \in Callers, Leaves(c)
      PROVE  Held'
  <2>1. Unwatched(c) \in SUBSET Active
    BY DEF Unwatched
  <2> QED BY <1>3, <1>4, <2>1 DEF Leaves
<1>5. CASE RemoveCancels
  <2>1. ToCancel \in SUBSET Active
    BY DEF ToCancel
  <2> QED BY <1>3, <1>5, <2>1 DEF RemoveCancels
<1>6. \A s \in Sockets : UNCHANGED sock /\ sock'[s].at \in {"open", "dropped"}
        => Live(s)
  BY DEF Live
<1>7. ASSUME NEW S, sock' = Closing(S), NEW s \in Sockets,
             sock'[s].at \in {"open", "dropped"}
      PROVE  Live(s) /\ s \notin S
  BY <1>7, ClosingEnds DEF Live
<1>8. ASSUME NEW r \in Requests, Ages(r)
      PROVE  Held'
  <2>1. Alone(r) /\ req'[r].at = req[r].at /\ req'[r].sock = req[r].sock
    BY <1>8, AgesEffect DEF Ages
  <2>2. req[r].at \notin {"none", "done"} /\ UNCHANGED <<sock, shared, loop>>
    BY <1>8 DEF Ages, Active
  <2> QED BY <1>1, <1>6, <2>1, <2>2, OneHeld
<1>9. ASSUME NEW r \in Requests, TooLong(r) \/ RestEnds(r)
      PROVE  Held'
  <2>1. Alone(r)
    BY <1>9, FinishedEffect DEF TooLong, RestEnds
  <2>2. /\ req[r].at \in {"lock", "rest", "rested"}
        /\ UNCHANGED <<sock, shared, loop>>
    BY <1>9 DEF TooLong, RestEnds
  <2> QED BY <1>1, <1>6, <2>1, <2>2, OneHeld
<1>10. ASSUME NEW r \in Requests, Acquire(r)
       PROVE  Held'
  <2>1. Alone(r)
    BY <1>10, StageEffect DEF Acquire
  <2>2. req[r].at = "lock" /\ UNCHANGED <<sock, shared, loop>>
    BY <1>10 DEF Acquire
  <2> QED BY <1>1, <1>6, <2>1, <2>2, OneHeld
<1>11. ASSUME NEW r \in Requests, Probe(r)
       PROVE  Held'
  <2>1. /\ req[r].at = "probing" /\ shared \in Sockets /\ UNCHANGED loop
        /\ shared' = None
    BY <1>11, RequestFacts DEF Probe
  <2>2. CASE /\ req' = [req EXCEPT ![r].at = "sending", ![r].sock = shared]
             /\ UNCHANGED sock
    <3>1. Alone(r) /\ req'[r].at = "sending" /\ req'[r].sock = shared
      BY <2>2, SendingEffect
    <3>2. \A s \in Sockets : s = shared => Owns(r, s)'
      BY <3>1 DEF Owns, Active
    <3>3. ASSUME NEW s \in Sockets, NEW q \in Requests, Owns(q, s)
          PROVE  Owns(q, s)'
      <4>1. q # r
        BY <2>1, <3>3, NoSocket
      <4> QED BY <3>1, <3>3, <4>1 DEF Alone, Owns, Active
    <3> QED BY <1>11, <2>2, <3>2, <3>3 DEF Probe, Held, SocketsAccounted, Live,
            Owns
  <2>3. CASE req' = [req EXCEPT ![r].at = "connecting"] /\ sock' = Closing({shared})
    <3>1. Alone(r)
      BY <2>3, StageEffect
    <3> QED BY <1>1, <1>7, <2>1, <2>3, <3>1, OneHeld
  <2> QED BY <1>11, <2>2, <2>3 DEF Probe
<1>12. ASSUME NEW r \in Requests, ConnectEnds(r)
       PROVE  Held'
  <2>1. req[r].at = "connecting" /\ UNCHANGED <<shared, loop>>
    BY <1>12 DEF ConnectEnds
  <2>2. ASSUME NEW s \in Sockets, sock' = [sock EXCEPT ![s].at = "open"],
               req' = [req EXCEPT ![r].at = "sending", ![r].sock = s]
        PROVE  Held'
    <3>1. Alone(r) /\ req'[r].at = "sending" /\ req'[r].sock = s
      BY <2>2, SendingEffect
    <3>2. Only(s)
      BY <2>2, OpenEffect
    <3>3. Owns(r, s)'
      BY <3>1 DEF Owns, Active
    <3>4. ASSUME NEW u \in Sockets, NEW q \in Requests, Owns(q, u)
          PROVE  Owns(q, u)'
      <4>1. q # r
        BY <2>1, <3>4, NoSocket
      <4> QED BY <3>1, <3>4, <4>1 DEF Alone, Owns, Active
    <3> QED BY <2>1, <3>2, <3>3, <3>4 DEF Held, SocketsAccounted, Live, Owns,
            Only
  <2>3. CASE req' = [req EXCEPT ![r].at = "rest"] /\ UNCHANGED sock
    <3>1. Alone(r)
      BY <2>3, StageEffect
    <3> QED BY <1>1, <1>6, <2>1, <2>3, <3>1, OneHeld
  <2> QED BY <1>12, <2>2, <2>3 DEF ConnectEnds
<1>13. ASSUME NEW s \in Sockets, Only(s), sock'[s].at \in {"open", "dropped"}
              => Live(s)
       PROVE  \A u \in Sockets : sock'[u].at \in {"open", "dropped"} => Live(u)
  BY <1>13 DEF Only, Live
<1>14. ASSUME NEW r \in Requests, Sends(r) \/ SendFails(r) \/ Read(r)
       PROVE  Held'
  <2>1. PICK s \in Sockets : s = req[r].sock
    BY <1>14, SendsEffect, SendFailsEffect, ReadEffect
  <2>2. /\ Only(s)
        /\ \/ sock'[s].at = sock[s].at
           \/ sock'[s].at = "closed" /\ SendFails(r)
    BY <1>14, <2>1, SendsEffect, SendFailsEffect, ReadEffect
  <2>3. \A u \in Sockets : sock'[u].at \in {"open", "dropped"} => Live(u)
    BY <1>13, <2>2 DEF Live
  <2>4. /\ req[r].at \in {"sending", "reading"} /\ UNCHANGED <<shared, loop>>
    BY <1>14 DEF Sends, SendFails, Read
  <2>5. Alone(r)
    BY <1>14, StageEffect, LostEffect, ReadRequestEffect DEF Sends, SendFails
  <2>6. SendFails(r) \/ (req'[r].sock = s /\ req'[r].at \notin {"none", "done"})
    <3>1. Sends(r) => req'[r].sock = s /\ req'[r].at = "reading"
      BY <2>1, StageEffect DEF Sends
    <3>2. Read(r) => req'[r].sock = s /\ req'[r].at \in {"reading", "reuse"}
      BY <2>1, ReadRequestEffect
    <3> QED BY <1>14, <3>1, <3>2
  <2>7. SendFails(r) => sock'[s].at = "closed"
    BY <2>1, SendFailsEffect
  <2> QED BY <1>1, <2>1, <2>3, <2>4, <2>5, <2>6, <2>7, OneHeld
<1>15. ASSUME NEW r \in Requests, FindsClosed(r) \/ GivesUp(r)
       PROVE  Held'
  <2>1. /\ sock' = Closing({req[r].sock}) /\ req[r].at = "reading"
        /\ UNCHANGED <<shared, loop>>
    BY <1>15 DEF FindsClosed, GivesUp
  <2>2. Alone(r)
    BY <1>15, FinishedEffect, LostEffect DEF FindsClosed, GivesUp
  <2>3. sock'[req[r].sock].at = "closed"
    BY <2>1, RequestFacts, ClosingEnds
  <2> QED BY <1>1, <1>7, <2>1, <2>2, <2>3, OneHeld
<1>16. ASSUME NEW r \in Requests, Reuse(r)
       PROVE  Held'
  <2>1. /\ req[r].at = "reuse" /\ UNCHANGED loop /\ loop # "connecting"
        /\ req[r].sock \in Sockets
    BY <1>16, RequestFacts DEF Reuse, LockFree
  <2>2. Alone(r)
    BY <1>16, FinishedEffect DEF Reuse
  <2>3. CASE sock' = Closing({req[r].sock}) /\ UNCHANGED shared
    <3>1. sock'[req[r].sock].at = "closed"
      BY <2>1, <2>3, ClosingEnds
    <3> QED BY <1>7, <2>1, <2>2, <2>3, <3>1, OneHeld
  <2>4. CASE shared = None /\ shared' = req[r].sock /\ UNCHANGED sock
    <3>1. ASSUME NEW q \in Requests, NEW s \in Sockets, Owns(q, s), s # shared'
          PROVE  Owns(q, s)'
      <4>1. q # r
        BY <2>4, <3>1 DEF Owns
      <4> QED BY <2>2, <3>1, <4>1 DEF Alone, Owns, Active
    <3> QED BY <2>1, <2>4, <3>1, NoneAssumption
            DEF Held, SocketsAccounted, Owns, Live
  <2> QED BY <1>16, <2>3, <2>4 DEF Reuse
<1>17. ASSUME NEW r \in Requests, RestArrives(r)
       PROVE  Held'
  <2>1. Alone(r)
    BY <1>17, RestArrivesEffect
  <2>2. req[r].at = "rest" /\ UNCHANGED <<sock, shared, loop>>
    BY <1>17 DEF RestArrives
  <2> QED BY <1>1, <1>6, <2>1, <2>2, OneHeld
<1>18. ASSUME UNCHANGED req, loop' = "connecting" => shared' = None,
              \A s \in Sockets : sock'[s].at \in {"open", "dropped"} =>
                Live(s) /\ (s = shared => s = shared')
       PROVE  Held'
  BY <1>18, HeldKept DEF OwnersStay, Owns, Active
<1>19. CASE ReaderWakes
  <2>1. reader = shared
    BY <1>19 DEF ReaderWakes, Known, IInv, Owners, OneReader
  <2>2. \A s \in Sockets : sock'[s].at \in {"open", "dropped"} =>
          Live(s) /\ s # shared
    BY <1>7, <1>19, <2>1 DEF ReaderWakes
  <2> QED BY <1>1, <1>18, <1>19, <2>2 DEF ReaderWakes
<1>20. CASE LoopConnects
  <2>1. \A s \in Sockets : sock'[s].at \in {"open", "dropped"} =>
          Live(s) /\ s # shared
    BY <1>20, NoneAssumption DEF LoopConnects, Usable, Live
  <2> QED BY <1>18, <1>20, <2>1 DEF LoopConnects
<1>21. CASE LoopConnected
  <2>1. ASSUME NEW s \in Sockets, sock' = [sock EXCEPT ![s].at = "open"],
               shared' = s
        PROVE  Held'
    <3>1. Only(s)
      BY <2>1, OpenEffect
    <3>2. shared = None /\ UNCHANGED req /\ loop' = "waiting"
      BY <1>1, <1>21 DEF LoopConnected
    <3> QED BY <2>1, <3>1, <3>2, NoneAssumption
            DEF Held, SocketsAccounted, Live, Only, Active
  <2>2. CASE UNCHANGED <<sock, shared>>
    BY <1>6, <1>18, <1>21, <2>2 DEF LoopConnected
  <2> QED BY <1>21, <2>1, <2>2 DEF LoopConnected
<1>22. CASE EnsureReader \/ RemoveStarts \/ UNCHANGED vars
  BY <1>1, <1>6, <1>18, <1>22 DEF EnsureReader, RemoveStarts, vars
<1>23. CASE RemoveCloses
  <2>1. \A s \in Sockets : sock'[s].at \in {"open", "dropped"} =>
          Live(s) /\ s # shared
    BY <1>7, <1>23 DEF RemoveCloses
  <2> QED BY <1>18, <1>23, <2>1 DEF RemoveCloses
<1>24. ASSUME NEW c \in Callers, Refused(c) \/ Returns(c)
       PROVE  Held'
  BY <1>1, <1>6, <1>18, <1>24 DEF Refused, Returns
<1>25. ASSUME NEW s \in Sockets, Receives(s)
       PROVE  Held'
  <2> DEFINE h == Head(sock[s].inbox)
  <2>1. h \in Requests /\ Only(s) /\ sock'[s].at = sock[s].at
    BY <1>25, ReceivesEffect
  <2>2. req' = [req EXCEPT ![h].work = @ + 1] /\ UNCHANGED <<shared, loop>>
    BY <1>25 DEF Receives
  <2> HIDE DEF h
  <2>3. /\ Alone(h) /\ req'[h].at = req[h].at /\ req'[h].sock = req[h].sock
        /\ req'[h].result = req[h].result
    BY <2>1, <2>2, WorkEffect
  <2>4. \A u \in Sockets : sock'[u].at \in {"open", "dropped"} => Live(u)
    BY <1>13, <2>1 DEF Live
  <2>5. \A u \in Sockets, q \in Requests : Owns(q, u) => Owns(q, u)'
    BY <2>3 DEF Owns, Alone, Active
  <2> QED BY <1>1, <2>2, <2>4, <2>5, HeldKept DEF OwnersStay
<1>26. ASSUME NEW s \in Sockets,
              Tells(s) \/ EndsTurn(s) \/ Drops(s) \/ Noticed(s)
       PROVE  Held'
  <2>1. Only(s) /\ (sock'[s].at = sock[s].at \/ sock'[s].at = "closed"
                       \/ (Drops(s) /\ sock'[s].at = "dropped"))
    BY <1>26, TellsEffect, EndsTurnEffect, DropsEffect, NoticedEffect
  <2>2. Drops(s) => Live(s)
    BY DEF Drops, Live
  <2>3. \A u \in Sockets : sock'[u].at \in {"open", "dropped"} => Live(u)
    BY <1>13, <2>1, <2>2 DEF Live
  <2> QED BY <1>1, <1>18, <1>26, <2>3 DEF Tells, EndsTurn, Drops, Noticed
<1> QED
  BY <1>2, <1>4, <1>5, <1>8, <1>9, <1>10, <1>11, <1>12, <1>14, <1>15, <1>16,
     <1>17, <1>19, <1>20, <1>21, <1>22, <1>23, <1>24, <1>25, <1>26
  DEF Next, Progress

-----------------------------------------------------------------------------
(* Who is cancelled.                                                       *)

\* A request that has ended is not joined any more, and one that was cancelled
\* has nobody waiting for it while the entity is up.
Spared ==
  /\ \A r \in Requests : /\ req[r].at = "done" => req[r].young = FALSE
                         /\ req[r].result = "cancelled" => req[r].at = "done"
  /\ \A c \in Callers :
       (caller[c].at = "waiting" /\ req[caller[c].on].result = "cancelled") =>
         life # "up"
  /\ CancelSparesOthers

\* A step that cancels nothing, and of no call.
LEMMA SparedKept ==
  ASSUME Known, Spared, UNCHANGED caller, life' = "up" => life = "up",
         \A r \in Requests :
           /\ req'[r].at = "done" => req'[r].young = FALSE
           /\ req'[r].result = "cancelled" =>
                req[r].result = "cancelled" /\ req'[r].at = "done"
  PROVE  Spared'
<1>1. ASSUME NEW c \in Callers, caller[c].at = "waiting"
      PROVE  caller[c].on \in Requests
  BY <1>1 DEF Known, Types, CallsWait
<1> QED BY <1>1 DEF Spared, CancelSparesOthers

LEMMA OneSpared ==
  ASSUME Known, Spared, UNCHANGED <<caller, life>>, NEW r \in Requests, Alone(r),
         \/ req'[r].at # "done" /\ req[r].at # "done"
            /\ req'[r].result = req[r].result
         \/ req'[r].at = "done" /\ req'[r].young = FALSE /\ req'[r].result = "text"
         \/ /\ req'[r].at = req[r].at /\ req'[r].result = req[r].result
            /\ req'[r].young = req[r].young
  PROVE  Spared'
<1>1. ASSUME NEW q \in Requests
      PROVE  /\ req'[q].at = "done" => req'[q].young = FALSE
             /\ req'[q].result = "cancelled" =>
                  req[q].result = "cancelled" /\ req'[q].at = "done"
  BY DEF Alone, Spared
<1> QED BY <1>1, SparedKept

LEMMA SparedInductive ==
  ASSUME Known, Spared, [Next]_vars
  PROVE  Spared'
<1>1. \A c \in Callers : caller[c].at = "waiting" => caller[c].on \in Requests
  BY DEF Known, Types, CallsWait
<1>2. Types
  BY DEF Known
<1>3. ASSUME NEW c \in Callers, NEW k \in Keys, Call(c, k)
      PROVE  Spared'
  <2>1. CASE Joinable(k) /\ Join(c, inflight[k]) /\ UNCHANGED req
    <3>1. inflight[k] \in Requests /\ req[inflight[k]].young
      BY <1>2, <2>1 DEF Joinable, Types
    <3>2. /\ \A d \in Callers : d # c => caller'[d] = caller[d]
          /\ caller'[c].at = "waiting" /\ caller'[c].on = inflight[k]
      BY <1>2, <2>1, <3>1, JoinEffect
    <3>3. req[inflight[k]].result # "cancelled"
      BY <3>1 DEF Spared
    <3> QED BY <1>3, <2>1, <3>2, <3>3 DEF Call, Spared, CancelSparesOthers
  <2>2. ASSUME NEW r \in Requests, req[r].at = "none", Join(c, r),
               req' = [req EXCEPT ![r].at = "lock", ![r].key = k]
        PROVE  Spared'
    <3>1. /\ Alone(r) /\ req'[r].at = "lock" /\ req'[r].result = req[r].result
      BY <2>2, CallEffect DEF Kept
    <3>2. /\ \A d \in Callers : d # c => caller'[d] = caller[d]
          /\ caller'[c].at = "waiting" /\ caller'[c].on = r
      BY <1>2, <2>2, JoinEffect
    <3>3. req'[r].result # "cancelled"
      BY <2>2, <3>1 DEF Spared
    <3>4. \A q \in Requests : /\ req'[q].at = "done" => req'[q].young = FALSE
                              /\ req'[q].result = "cancelled" =>
                                   req'[q].at = "done" /\ req'[q] = req[q]
      BY <3>1, <3>3 DEF Alone, Spared
    <3>5. ASSUME NEW d \in Callers, caller'[d].at = "waiting",
                 req'[caller'[d].on].result = "cancelled"
          PROVE  life' # "up"
      <4>1. d # c
        BY <3>2, <3>3, <3>5
      <4>2. caller'[d] = caller[d] /\ caller[d].on \in Requests
        BY <1>1, <3>2, <3>5, <4>1
      <4> QED BY <1>3, <3>4, <3>5, <4>2 DEF Call, Spared
    <3> QED BY <1>3, <3>2, <3>4, <3>5 DEF Call, Spared, CancelSparesOthers
  <2> QED BY <1>3, <2>1, <2>2 DEF Call
<1>4. ASSUME NEW c \in Callers, Refused(c)
      PROVE  Spared'
  <2>1. /\ \A d \in Callers : d # c => caller'[d] = caller[d]
        /\ caller'[c].at = "returned"
    BY <1>2, <1>4, RefusedEffect
  <2> QED BY <1>4, <2>1 DEF Refused, Spared, CancelSparesOthers
<1>5. ASSUME NEW c \in Callers, Returns(c)
      PROVE  Spared'
  <2>1. /\ \A d \in Callers : d # c => caller'[d] = caller[d]
        /\ caller'[c].at = "returned"
        /\ caller'[c].result = req[caller[c].on].result
    BY <1>5, ReturnsEffect
  <2> QED BY <1>5, <2>1 DEF Returns, Spared, CancelSparesOthers
\* The others that wait for a request keep it from being cancelled.
<1>6. ASSUME NEW c \in Callers, Leaves(c)
      PROVE  Spared'
  <2> DEFINE R == Unwatched(c)
  <2>1. R \in SUBSET Requests /\ UNCHANGED life
    BY <1>6 DEF Unwatched, Active, Leaves
  <2>2. /\ \A d \in Callers : d # c => caller'[d] = caller[d]
        /\ caller'[c].at = "left"
    BY <1>2, <1>6, LeavesEffect
  <2>3. /\ \A q \in Requests \ R : req'[q] = req[q]
        /\ \A q \in R : req'[q].at = "done" /\ req'[q].young = FALSE
    BY <1>6, <2>1, CancelledEffect DEF Leaves
  <2>4. \A d \in Callers : d # c /\ caller[d].at = "waiting" =>
          caller[d].on \notin R
    BY DEF Unwatched, Waiters
  <2> HIDE DEF R
  <2>5. \A q \in Requests : /\ req'[q].at = "done" => req'[q].young = FALSE
                            /\ req'[q].result = "cancelled" => req'[q].at = "done"
    BY <2>3 DEF Spared
  <2>6. ASSUME NEW d \in Callers, caller'[d].at = "waiting",
               req'[caller'[d].on].result = "cancelled"
        PROVE  life' # "up"
    <3>1. d # c
      BY <2>2, <2>6
    <3>2. caller'[d] = caller[d] /\ caller[d].on \in Requests \ R
      BY <1>1, <2>2, <2>4, <2>6, <3>1
    <3> QED BY <2>1, <2>3, <2>6, <3>2 DEF Spared
  <2> QED BY <2>1, <2>2, <2>5, <2>6 DEF Spared, CancelSparesOthers
<1>7. CASE RemoveCancels
  <2>1. ToCancel \in SUBSET Requests
    BY DEF ToCancel, Active
  <2>2. life' # "up" /\ UNCHANGED caller
    BY <1>7 DEF RemoveCancels
  <2>3. /\ \A q \in Requests \ ToCancel : req'[q] = req[q]
        /\ \A q \in ToCancel : req'[q].at = "done" /\ req'[q].young = FALSE
    BY <1>7, <2>1, CancelledEffect DEF RemoveCancels
  <2>4. \A q \in Requests : /\ req'[q].at = "done" => req'[q].young = FALSE
                            /\ req'[q].result = "cancelled" => req'[q].at = "done"
    BY <2>3 DEF Spared
  <2> QED BY <2>2, <2>4 DEF Spared, CancelSparesOthers
<1>8. ASSUME NEW r \in Requests, Ages(r)
      PROVE  Spared'
  <2>1. /\ Alone(r) /\ req'[r].at = req[r].at /\ req'[r].result = req[r].result
    BY <1>8, AgesEffect DEF Ages
  <2>2. req[r].at # "done" /\ UNCHANGED <<caller, life>>
    BY <1>8 DEF Ages, Active
  <2> QED BY <2>1, <2>2, OneSpared
<1>9. ASSUME NEW r \in Requests, req' = Finished(r), UNCHANGED <<caller, life>>
      PROVE  Spared'
  <2>1. /\ Alone(r) /\ req'[r].at = "done" /\ req'[r].young = FALSE
        /\ req'[r].result = "text"
    BY <1>9, FinishedEffect
  <2> QED BY <1>9, <2>1, OneSpared
<1>10. ASSUME NEW r \in Requests, NEW a, a # "done", req[r].at # "done",
              req' = [req EXCEPT ![r].at = a], UNCHANGED <<caller, life>>
       PROVE  Spared'
  <2>1. Alone(r) /\ req'[r].at = a /\ req'[r].result = req[r].result
    BY <1>10, StageEffect DEF Kept
  <2> QED BY <1>10, <2>1, OneSpared
<1>11. ASSUME NEW r \in Requests, NEW s, req[r].at # "done",
              req' = [req EXCEPT ![r].at = "sending", ![r].sock = s],
              UNCHANGED <<caller, life>>
       PROVE  Spared'
  <2>1. Alone(r) /\ req'[r].at = "sending" /\ req'[r].result = req[r].result
    BY <1>11, SendingEffect DEF Kept
  <2> QED BY <1>11, <2>1, OneSpared
<1>12. ASSUME NEW r \in Requests, req[r].at # "done",
              req' = [req EXCEPT ![r].at = "rest", ![r].sock = None,
                                 ![r].lost = TRUE],
              UNCHANGED <<caller, life>>
       PROVE  Spared'
  <2>1. Alone(r) /\ req'[r].at = "rest" /\ req'[r].result = req[r].result
    BY <1>12, LostEffect
  <2> QED BY <1>12, <2>1, OneSpared
<1>13. ASSUME NEW r \in Requests, Acquire(r) \/ Probe(r)
       PROVE  Spared'
  BY <1>10, <1>11, <1>13 DEF Acquire, Probe
<1>14. ASSUME NEW r \in Requests, ConnectEnds(r) \/ Sends(r) \/ SendFails(r)
       PROVE  Spared'
  BY <1>10, <1>11, <1>12, <1>14 DEF ConnectEnds, Sends, SendFails
<1>15. ASSUME NEW r \in Requests, Read(r)
       PROVE  Spared'
  <2>1. req[r].at = "reading" /\ UNCHANGED <<caller, life>>
    BY <1>15 DEF Read
  <2>2. /\ Alone(r) /\ req'[r].at # "done" /\ req'[r].result = req[r].result
    BY <1>15, ReadRequestEffect DEF Kept
  <2> QED BY <2>1, <2>2, OneSpared
<1>16. ASSUME NEW r \in Requests,
              \/ FindsClosed(r) \/ GivesUp(r) \/ Reuse(r) \/ TooLong(r)
              \/ RestEnds(r)
       PROVE  Spared'
  BY <1>9, <1>12, <1>16 DEF FindsClosed, GivesUp, Reuse, TooLong, RestEnds
<1>17. ASSUME NEW r \in Requests, RestArrives(r)
       PROVE  Spared'
  <2>1. req[r].at = "rest" /\ UNCHANGED <<caller, life>>
    BY <1>17 DEF RestArrives
  <2>2. /\ Alone(r) /\ req'[r].at = "rested" /\ req'[r].result = req[r].result
    BY <1>17, RestArrivesEffect
  <2> QED BY <2>1, <2>2, OneSpared
<1>18. ASSUME NEW s \in Sockets, Receives(s)
       PROVE  Spared'
  <2> DEFINE h == Head(sock[s].inbox)
  <2>1. h \in Requests
    BY <1>18, ReceivesEffect
  <2>2. req' = [req EXCEPT ![h].work = @ + 1] /\ UNCHANGED <<caller, life>>
    BY <1>18 DEF Receives
  <2> HIDE DEF h
  <2>3. /\ Alone(h) /\ req'[h].at = req[h].at /\ req'[h].young = req[h].young
        /\ req'[h].result = req[h].result
    BY <2>1, <2>2, WorkEffect
  <2> QED BY <2>1, <2>2, <2>3, OneSpared
<1>19. ASSUME UNCHANGED <<req, caller>>, life' = "up" => life = "up"
       PROVE  Spared'
  BY <1>19, SparedKept DEF Spared
<1>20. CASE \/ ReaderWakes \/ LoopConnects \/ LoopConnected \/ EnsureReader
            \/ RemoveStarts \/ RemoveCloses \/ UNCHANGED vars
  BY <1>19, <1>20 DEF ReaderWakes, LoopConnects, LoopConnected, EnsureReader,
     RemoveStarts, RemoveCloses, vars
<1>21. ASSUME NEW s \in Sockets,
              Tells(s) \/ EndsTurn(s) \/ Drops(s) \/ Noticed(s)
       PROVE  Spared'
  BY <1>19, <1>21 DEF Tells, EndsTurn, Drops, Noticed
<1> QED
  BY <1>3, <1>4, <1>5, <1>6, <1>7, <1>8, <1>13, <1>14, <1>15, <1>16, <1>17,
     <1>18, <1>20, <1>21 DEF Next, Progress

-----------------------------------------------------------------------------
(* The theorems.                                                           *)

LEMMA TrafficInit ==
  ASSUME Init
  PROVE  Traffic
  BY DEF Init, Traffic, Quiet, NewSocket, NewRequest

LEMMA WorkedInit ==
  ASSUME Init
  PROVE  Worked
<1>1. \A s \in Sockets : sock[s].inbox = <<>> /\ \A r : ~SentOver(s, r)
  <2>1. \A r : <<r>> # <<>>
    OBVIOUS
  <2> QED BY <2>1 DEF Init, NewSocket, SentOver
<1>2. \A r \in Requests : Transit(r) = 0
  BY <1>1 DEF Transit, InTransit
<1>3. \A r \in Requests : /\ req[r].work = 0 /\ req[r].lost = FALSE
                          /\ Budget(r) = 0
  BY DEF Init, NewRequest, Budget, Unsent
<1> QED BY <1>1, <1>2, <1>3 DEF Worked

LEMMA HeldInit ==
  ASSUME Init
  PROVE  Held
  BY DEF Init, Held, SocketsAccounted, Live, NewSocket

LEMMA SparedInit ==
  ASSUME Init
  PROVE  Spared
  BY DEF Init, Spared, CancelSparesOthers, NewRequest

LEMMA KnownAlways == Spec => []Known
  BY KnownInit, KnownInductive, PTL DEF Spec

LEMMA WorkedAlways == Spec => [](Known /\ Traffic /\ Worked)
<1>1. Init => Known /\ Traffic /\ Worked
  BY KnownInit, TrafficInit, WorkedInit
<1>2. Known /\ Traffic /\ Worked /\ [Next]_vars => (Known /\ Traffic /\ Worked)'
  BY KnownInductive, TrafficInductive, WorkedInductive
<1> QED BY <1>1, <1>2, PTL DEF Spec

\* The states have their types, and a request is never worked on more than
\* twice, which its type says as well.
THEOREM Typing == Spec => []TypeOK
<1>1. ASSUME Known, Worked
      PROVE  TypeOK
  <2>1. ASSUME NEW r \in Requests
        PROVE  req[r] \in Request
    <3>1. req[r] \in Turns /\ req[r].work \in Nat
      BY <1>1, RequestFacts
    <3>2. req[r].work <= 2
      <4>1. /\ req[r].work + Transit(r) <= Budget(r) /\ Budget(r) \in 0 .. 2
            /\ Transit(r) \in {0, 1}
        BY <1>1 DEF Worked, Budget, Transit
      <4> QED BY <3>1, <4>1
    <3> QED BY <3>1, <3>2 DEF Turns, Request
  <2>2. req \in [Requests -> Request] /\ shared \in Sockets \cup {None}
    BY <1>1, <2>1 DEF Known, IInv, Owners, Shape
  <2> QED BY <1>1, <2>2 DEF TypeOK, Known, Types
<1> QED BY <1>1, WorkedAlways, PTL

\* A request reads the frames of its own answer, and the shared socket carries
\* nothing: a socket is given back only after the last frame of its turn, and
\* one on which a turn was broken off is closed.  For _ws_read_locked,
\* _reuse_shared_ws and _discard_ws.
THEOREM OwnFramesAlways == Spec => []OwnFrames
<1>1. ASSUME Known, Traffic
      PROVE  OwnFrames
  <2>1. ASSUME NEW s \in Sockets, Quiet(s)
        PROVE  /\ \A r, i : i \in DOMAIN sock[s].outbox => sock[s].outbox[i].of = r
               /\ \A r, i : i \in DOMAIN sock[s].inbox => sock[s].inbox[i] = r
               /\ sock[s].serving = None
    BY <2>1 DEF Quiet
  <2>2. ASSUME NEW r \in Requests, NEW s \in Sockets, Exchange(s, r)
        PROVE  /\ \A i \in DOMAIN sock[s].outbox : sock[s].outbox[i].of = r
               /\ \A i \in DOMAIN sock[s].inbox : sock[s].inbox[i] = r
               /\ sock[s].serving \in {None, r}
    <3>1. sock[s].outbox \in Seq(Frame)
      BY <1>1, SocketFields DEF Known, Types
    <3>2. DOMAIN sock[s].outbox = 1 .. Len(sock[s].outbox)
      BY <3>1
    <3>3. \A i \in DOMAIN <<r>> : <<r>>[i] = r
      OBVIOUS
    <3>4. DOMAIN <<>> = {}
      OBVIOUS
    <3> QED BY <2>2, <3>2, <3>3, <3>4 DEF Exchange
  <2>3. ASSUME NEW r \in Active, req[r].sock # None
        PROVE  /\ req[r].sock \in Sockets
               /\ Quiet(req[r].sock) \/ Exchange(req[r].sock, r)
    <3>1. req[r].at \in {"sending", "reading", "reuse"}
      BY <1>1, <2>3 DEF Known, HaveSockets, Active
    <3> QED BY <1>1, <3>1, RequestFacts DEF Traffic, Active
  <2>4. shared # None => shared \in Sockets /\ Quiet(shared)
    BY <1>1 DEF Known, IInv, Owners, Shape, Traffic
  <2>5. Active \in SUBSET Requests
    BY DEF Active
  <2> QED BY <2>1, <2>2, <2>3, <2>4, <2>5 DEF OwnFrames, Quiet
<1> QED BY <1>1, WorkedAlways, PTL

\* The container works on a request a second time only if its socket failed
\* before a frame of its answer came, and never a third time.  For
\* _request_over_ws and _WsUndelivered.
THEOREM WorkRepeatsAfterLossAlways == Spec => []WorkRepeatsAfterLoss
<1>1. ASSUME Known, Worked
      PROVE  WorkRepeatsAfterLoss
  <2>1. ASSUME NEW r \in Requests
        PROVE  req[r].work <= 2 /\ (req[r].work = 2 => req[r].lost)
    <3>1. /\ req[r].work + Transit(r) <= Budget(r) /\ Budget(r) \in 0 .. 2
          /\ Budget(r) = 2 => req[r].lost
          /\ Transit(r) \in {0, 1} /\ req[r].work \in Nat
      BY <1>1, RequestFacts DEF Worked, Budget, Transit
    <3> QED BY <3>1
  <2> QED BY <2>1 DEF WorkRepeatsAfterLoss
<1> QED BY <1>1, WorkedAlways, PTL

\* No socket is forgotten: one that is not closed is shared, or a request's,
\* or that of a request cancelled while it waited to give it back.  For
\* _reuse_shared_ws, _discard_ws and async_will_remove_from_hass.
THEOREM SocketsAccountedAlways == Spec => []SocketsAccounted
<1>1. Init => Known /\ Held
  BY KnownInit, HeldInit
<1>2. Known /\ Held /\ [Next]_vars => (Known /\ Held)'
  BY KnownInductive, HeldInductive
<1>3. Held => SocketsAccounted
  BY DEF Held
<1> QED BY <1>1, <1>2, <1>3, PTL DEF Spec

\* A call is cancelled by its own pipeline or by the removal of the entity,
\* never by another call that shares its request.  For _await_shared_bridge.
THEOREM CancelSparesOthersAlways == Spec => []CancelSparesOthers
<1>1. Init => Known /\ Spared
  BY KnownInit, SparedInit
<1>2. Known /\ Spared /\ [Next]_vars => (Known /\ Spared)'
  BY KnownInductive, SparedInductive
<1>3. Spared => CancelSparesOthers
  BY DEF Spared
<1> QED BY <1>1, <1>2, <1>3, PTL DEF Spec
=============================================================================
