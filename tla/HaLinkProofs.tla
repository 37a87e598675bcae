---------------------------- MODULE HaLinkProofs ----------------------------
(* The safety of HaLink, for any number of users, sessions, events and     *)
(* changes of the settings.  Everything rests on the queue of the lock:    *)
(* who is in it, who holds it, and in which order.                         *)
EXTENDS HaLink, SequenceTheorems, FiniteSetTheorems, TLAPS

Names == Users \cup Closers

Queue(q) ==
  /\ q \in Seq(Names)
  /\ \A i, j \in 1..Len(q) : q[i] = q[j] => i = j
InQueue(q, x) == \E i \in 1..Len(q) : q[i] = x
Before(q, x, y) == \E i, j \in 1..Len(q) : i < j /\ q[i] = x /\ q[j] = y
Leads(q, x) == q # <<>> /\ q[1] = x

\* Who is in the queue of the lock, and who holds it.
Wants(x) ==
  \/ x \in Users /\ pc[x] \in {"queued", "sending"}
  \/ x = "run" /\ run \in {"queued", "opening", "auth", "refused", "closing"}
  \/ x \in {"admin", "stopper"} /\ closer[x] \in {"waiting", "shutting"}
Has(x) ==
  \/ x \in Users /\ pc[x] = "sending"
  \/ x = "run" /\ run \in {"opening", "auth", "refused"}
  \/ x \in Closers /\ closer[x] = "shutting"

Turns ==
  /\ Queue(lock)
  /\ \A x \in Names : InQueue(lock, x) <=> Wants(x)
  /\ \A x \in Names : Has(x) => Leads(lock, x)
  /\ run = "closing" <=> closer["run"] \in {"waiting", "shutting"}
  /\ closer["run"] # "over" /\ closer["admin"] # "over"

\* A teardown between its first await and the end.
Shutting == run = "refused" \/ \E c \in Closers : closer[c] = "shutting"

\* A session that is not new and not shut is the client's, or being shut.
Sessions ==
  /\ run \in {"opening", "auth"} => session # 0
  /\ run \in {"connect", "queued", "backoff", "over"} => session = 0
  /\ Shutting => session = 0
  /\ \A s \in Sockets : sock[s] \notin {"new", "shut", "closing"} <=>
                          s = session
  /\ \A s \in Sockets : sock[s] = "closing" => Shutting
  /\ \A r, s \in Sockets : sock[r] = "closing" /\ sock[s] = "closing" => r = s

\* The shutdown comes after the changes of the settings.
Stopped ==
  /\ closer["stopper"] # "rest" => ~running
  /\ ~Before(lock, "stopper", "admin")
  /\ closer["stopper"] = "over" => closer["admin"] = "rest"

\* A command in the queue is ahead of the task that would connect, so a
\* command that was failed there finds no session.
Commands ==
  /\ \A u \in Users : run = "queued" => ~Before(lock, "run", u)
  /\ \A u \in Users : pc[u] = "queued" /\ session # 0 =>
                        cmd[u] \in {"open", "ok"}
  /\ CommandsFollowTheirSocket

\* While a teardown waits for the lock only waiters without a session are open.
Waiters ==
  /\ \A c \in Closers : closer[c] = "waiting" =>
       \A u \in Users : waiter[u] = "open" => born[u] = 0
  /\ WaitersFallWithTheirSocket

Gap == \A s \in Sockets : sock[s] = "open" => ~missed
IInv == TypeOK /\ Turns /\ Sessions /\ Stopped /\ Commands /\ Waiters /\ Gap

-----------------------------------------------------------------------------
(* The queue of the lock.                                                  *)

LEMMA TailQueue ==
  ASSUME NEW q, Queue(q), q # <<>>
  PROVE  /\ Queue(Tail(q))
         /\ \A x : InQueue(Tail(q), x) <=> InQueue(q, x) /\ ~Leads(q, x)
         /\ \A x, y : Before(Tail(q), x, y) => Before(q, x, y)
  <1>1. /\ q \in Seq(Names) /\ Len(q) \in Nat /\ Len(q) > 0
        /\ Tail(q) \in Seq(Names) /\ Len(Tail(q)) = Len(q) - 1
        /\ \A i \in 1..Len(q) - 1 : Tail(q)[i] = q[i + 1]
    BY HeadTailProperties, LenProperties, EmptySeq DEF Queue
  <1>2. Queue(Tail(q))
    BY <1>1 DEF Queue
  <1>3. ASSUME NEW x PROVE InQueue(Tail(q), x) <=> InQueue(q, x) /\ ~Leads(q, x)
    <2>1. ASSUME InQueue(Tail(q), x) PROVE InQueue(q, x) /\ ~Leads(q, x)
      <3>1. PICK i \in 1..Len(Tail(q)) : Tail(q)[i] = x
        BY <2>1 DEF InQueue
      <3>2. i + 1 \in 1..Len(q) /\ q[i + 1] = x /\ i + 1 # 1 /\ 1 \in 1..Len(q)
        BY <3>1, <1>1
      <3> QED BY <3>2 DEF InQueue, Leads, Queue
    <2>2. ASSUME InQueue(q, x), ~Leads(q, x) PROVE InQueue(Tail(q), x)
      <3>1. PICK i \in 1..Len(q) : q[i] = x
        BY <2>2 DEF InQueue
      <3>2. i # 1
        BY <3>1, <2>2 DEF Leads
      <3>3. i - 1 \in 1..Len(Tail(q)) /\ Tail(q)[i - 1] = x
        BY <3>1, <3>2, <1>1
      <3> QED BY <3>3 DEF InQueue
    <2> QED BY <2>1, <2>2
  <1>4. ASSUME NEW x, NEW y, Before(Tail(q), x, y) PROVE Before(q, x, y)
    <2>1. PICK i \in 1..Len(Tail(q)), j \in 1..Len(Tail(q)) :
            i < j /\ Tail(q)[i] = x /\ Tail(q)[j] = y
      BY <1>4 DEF Before
    <2>2. /\ i + 1 \in 1..Len(q) /\ j + 1 \in 1..Len(q) /\ i + 1 < j + 1
          /\ q[i + 1] = x /\ q[j + 1] = y
      BY <2>1, <1>1
    <2> QED BY <2>2 DEF Before
  <1> QED BY <1>2, <1>3, <1>4

LEMMA AppendQueue ==
  ASSUME NEW q, Queue(q), NEW c \in Names, ~InQueue(q, c)
  PROVE  /\ Queue(Append(q, c)) /\ Append(q, c) # <<>>
         /\ \A x : InQueue(Append(q, c), x) <=> InQueue(q, x) \/ x = c
         /\ \A x, y : Before(Append(q, c), x, y) <=>
                        Before(q, x, y) \/ (InQueue(q, x) /\ y = c)
         /\ \A x : Leads(q, x) => Leads(Append(q, c), x)
         /\ q = <<>> => Leads(Append(q, c), c)
  <1> DEFINE r == Append(q, c)
  <1>1. /\ q \in Seq(Names) /\ Len(q) \in Nat
        /\ r \in Seq(Names) /\ Len(r) = Len(q) + 1 /\ r[Len(q) + 1] = c
        /\ \A i \in 1..Len(q) : r[i] = q[i]
    BY AppendProperties, LenProperties DEF Queue
  <1>2. r # <<>>
    BY <1>1
  <1>3. /\ \A i \in 1..Len(r) : i \in 1..Len(q) \/ i = Len(q) + 1
        /\ 1..Len(q) \subseteq 1..Len(r) /\ Len(q) + 1 \in 1..Len(r)
        /\ \A i \in 1..Len(q) : i < Len(q) + 1
        /\ \A i, j \in 1..Len(r) : i < j => i \in 1..Len(q)
    BY <1>1
  <1>4. q # <<>> => 1 \in 1..Len(q)
    BY <1>1, EmptySeq
  <1>5. q = <<>> => Len(q) = 0
    BY EmptySeq
  <1> HIDE DEF r
  <1>6. Queue(r)
    BY <1>1, <1>3 DEF Queue, InQueue
  <1>7. \A x : InQueue(r, x) <=> InQueue(q, x) \/ x = c
    BY <1>1, <1>3 DEF InQueue
  <1>8. ASSUME NEW x, NEW y
        PROVE  Before(r, x, y) <=> Before(q, x, y) \/ (InQueue(q, x) /\ y = c)
    <2>1. ASSUME Before(r, x, y)
          PROVE  Before(q, x, y) \/ (InQueue(q, x) /\ y = c)
      <3>1. PICK i \in 1..Len(r), j \in 1..Len(r) : i < j /\ r[i] = x
            /\ r[j] = y
        BY <2>1 DEF Before
      <3>2. i \in 1..Len(q)
        BY <3>1, <1>3
      <3>3. CASE j = Len(q) + 1
        BY <3>1, <3>2, <3>3, <1>1 DEF InQueue
      <3>4. CASE j \in 1..Len(q)
        BY <3>1, <3>2, <3>4, <1>1 DEF Before
      <3> QED BY <3>1, <3>3, <3>4, <1>3
    <2>2. ASSUME Before(q, x, y) PROVE Before(r, x, y)
      BY <2>2, <1>1, <1>3 DEF Before
    <2>3. ASSUME InQueue(q, x), y = c PROVE Before(r, x, y)
      BY <2>3, <1>1, <1>3 DEF Before, InQueue
    <2> QED BY <2>1, <2>2, <2>3
  <1>9. \A x : Leads(q, x) => Leads(r, x)
    BY <1>1, <1>2, <1>4 DEF Leads
  <1>10. q = <<>> => Leads(r, c)
    BY <1>1, <1>2, <1>5 DEF Leads
  <1> QED BY <1>2, <1>6, <1>7, <1>8, <1>9, <1>10 DEF r

LEMMA WithoutQueue ==
  ASSUME NEW q, Queue(q), NEW c
  PROVE  /\ Queue(Without(q, c))
         /\ \A x : InQueue(Without(q, c), x) <=> InQueue(q, x) /\ x # c
         /\ \A x, y : Before(Without(q, c), x, y) => Before(q, x, y)
         /\ \A x : Leads(q, x) /\ x # c => Leads(Without(q, c), x)
  <1>0. q \in Seq(Names) /\ Len(q) \in Nat /\ DOMAIN q = 1..Len(q)
    BY LenProperties DEF Queue
  <1>1. CASE ~\E i \in DOMAIN q : q[i] = c
    <2>1. Without(q, c) = q
      BY <1>1 DEF Without
    <2>2. ~InQueue(q, c)
      BY <1>0, <1>1 DEF InQueue
    <2> QED BY <2>1, <2>2
  <1>2. CASE \E i \in DOMAIN q : q[i] = c
    <2> DEFINE p == CHOOSE i \in DOMAIN q : q[i] = c
               s == SubSeq(q, 1, p - 1)
               t == SubSeq(q, p + 1, Len(q))
               r == s \o t
    <2>1. p \in 1..Len(q) /\ q[p] = c
      BY <1>0, <1>2
    <2>2. Without(q, c) = r
      BY <1>2 DEF Without
    <2> HIDE DEF p
    <2>3. s \in Seq(Names) /\ Len(s) = p - 1 /\ \A i \in 1..p - 1 : s[i] = q[i]
      <3>1. \A i \in 1..p - 1 : q[i] \in Names
        BY <1>0, <2>1, ElementOfSeq
      <3>2. /\ s \in Seq(Names)
            /\ Len(s) = IF 1 <= p - 1 THEN (p - 1) - 1 + 1 ELSE 0
            /\ \A i \in 1 .. (p - 1) - 1 + 1 : s[i] = q[1 + i - 1]
        BY <3>1, <2>1, <1>0, SubSeqProperties
      <3> QED BY <3>2, <2>1, <1>0
    <2>4. /\ t \in Seq(Names) /\ Len(t) = Len(q) - p
          /\ \A i \in 1..Len(q) - p : t[i] = q[p + i]
      <3>1. \A i \in p + 1..Len(q) : q[i] \in Names
        BY <1>0, <2>1, ElementOfSeq
      <3>2. /\ t \in Seq(Names)
            /\ Len(t) = IF p + 1 <= Len(q) THEN Len(q) - (p + 1) + 1 ELSE 0
            /\ \A i \in 1 .. Len(q) - (p + 1) + 1 : t[i] = q[(p + 1) + i - 1]
        BY <3>1, <2>1, <1>0, SubSeqProperties
      <3> HIDE DEF t
      <3>3. Len(q) - (p + 1) + 1 = Len(q) - p
        BY <2>1, <1>0
      <3>4. \A i \in 1..Len(q) - p : (p + 1) + i - 1 = p + i
        BY <2>1, <1>0
      <3>5. Len(t) = Len(q) - p
        <4>1. \A n \in Nat : \A k \in 1..n :
                (IF k + 1 <= n THEN n - (k + 1) + 1 ELSE 0) = n - k
          OBVIOUS
        <4> QED BY <3>2, <2>1, <1>0, <4>1
      <3> QED BY <3>2, <3>3, <3>4, <3>5
    <2> HIDE DEF s, t
    <2>5. /\ r \in Seq(Names) /\ Len(r) = Len(s) + Len(t)
          /\ \A i \in 1..Len(s) + Len(t) :
               r[i] = IF i <= Len(s) THEN s[i] ELSE t[i - Len(s)]
      BY <2>3, <2>4, ConcatProperties
    <2> DEFINE at(i) == IF i < p THEN i ELSE i + 1
    <2>6. /\ r \in Seq(Names) /\ Len(r) = Len(q) - 1
          /\ \A i \in 1..Len(r) : r[i] = q[at(i)] /\ at(i) \in 1..Len(q) \ {p}
      <3>1. ASSUME NEW i \in 1..Len(r) PROVE r[i] = q[at(i)]
        <4>1. CASE i < p
          BY <4>1, <2>3, <2>4, <2>5, <2>1, <1>0
        <4>2. CASE i >= p
          <5>1. r[i] = t[i - (p - 1)] /\ i - (p - 1) \in 1..Len(q) - p
            BY <4>2, <2>3, <2>4, <2>5, <2>1, <1>0
          <5> QED BY <5>1, <4>2, <2>4, <2>1, <1>0
        <4> QED BY <4>1, <4>2, <2>1, <1>0, <2>3, <2>4, <2>5
      <3> QED BY <3>1, <2>3, <2>4, <2>5, <2>1, <1>0
    <2> HIDE DEF r
    <2>7. /\ \A i, j \in 1..Len(r) : at(i) = at(j) => i = j
          /\ \A i, j \in 1..Len(r) : i < j => at(i) < at(j)
      BY <2>6, <2>1, <1>0
    <2>8. \A k \in 1..Len(q) \ {p} : \E i \in 1..Len(r) : k = at(i)
      <3> TAKE k \in 1..Len(q) \ {p}
      <3>1. CASE k < p
        <4>1. k \in 1..Len(r) /\ at(k) = k
          BY <3>1, <2>6, <2>1, <1>0
        <4> QED BY <4>1
      <3>2. CASE k > p
        <4>1. k - 1 \in 1..Len(r) /\ at(k - 1) = k
          BY <3>2, <2>6, <2>1, <1>0
        <4> QED BY <4>1
      <3> QED BY <3>1, <3>2, <2>1, <1>0
    <2>9. Leads(q, c) \/ 1 # p
      BY <2>1 DEF Leads
    <2>10. \A x : Leads(q, x) /\ x # c => r # <<>> /\ r[1] = x
      <3> TAKE x
      <3> HAVE Leads(q, x) /\ x # c
      <3>1. p # 1 /\ q # <<>>
        BY <2>1 DEF Leads
      <3>2. 1 \in 1..Len(r) /\ at(1) = 1
        BY <3>1, <2>6, <2>1, <1>0
      <3>3. r[1] = q[1]
        BY <3>2, <2>6
      <3> QED BY <3>2, <3>3, EmptySeq DEF Leads
    <2> HIDE DEF at
    <2>11. Queue(r)
      BY <2>6, <2>7 DEF Queue
    <2>12. ASSUME NEW x PROVE InQueue(r, x) <=> InQueue(q, x) /\ x # c
      <3>1. ASSUME InQueue(r, x) PROVE InQueue(q, x) /\ x # c
        BY <3>1, <2>1, <2>6 DEF InQueue, Queue
      <3>2. ASSUME InQueue(q, x), x # c PROVE InQueue(r, x)
        BY <3>2, <2>1, <2>6, <2>8 DEF InQueue
      <3> QED BY <3>1, <3>2
    <2>13. \A x, y : Before(r, x, y) => Before(q, x, y)
      BY <2>6, <2>7 DEF Before
    <2> QED BY <2>2, <2>10, <2>11, <2>12, <2>13 DEF Leads
  <1> QED BY <1>1, <1>2

\* The head is first, and is there.
LEMMA HeadQueue ==
  ASSUME NEW q, Queue(q)
  PROVE  /\ \A x : Leads(q, x) => q # <<>> /\ InQueue(q, x) /\ Head(q) = x
         /\ q # <<>> => Leads(q, Head(q))
         /\ \A x, y : Leads(q, x) /\ Leads(q, y) => x = y
         /\ \A x, y : Leads(q, x) => ~Before(q, y, x)
         /\ \A x, y : Before(q, x, y) => InQueue(q, x) /\ InQueue(q, y)
         /\ \A x : InQueue(q, x) => q # <<>> /\ x \in Names
         /\ \A x, y : Leads(q, x) /\ InQueue(q, y) /\ x # y => Before(q, x, y)
         /\ \A x : Leads(q, x) => <<x>> \o Tail(q) = q
  <1>0. q \in Seq(Names) /\ Len(q) \in Nat /\ (q # <<>> => 1 \in 1..Len(q))
    BY LenProperties, EmptySeq DEF Queue
  <1>1. /\ \A x : Leads(q, x) => q # <<>> /\ InQueue(q, x) /\ Head(q) = x
        /\ q # <<>> => Leads(q, Head(q))
        /\ \A x, y : Leads(q, x) /\ Leads(q, y) => x = y
    BY <1>0 DEF Leads, InQueue
  <1>2. \A x, y : Leads(q, x) => ~Before(q, y, x)
    <2> TAKE x, y
    <2> HAVE Leads(q, x)
    <2> SUFFICES ASSUME Before(q, y, x) PROVE FALSE
      OBVIOUS
    <2>1. PICK i \in 1..Len(q), j \in 1..Len(q) : i < j /\ q[i] = y /\ q[j] = x
      BY DEF Before
    <2>2. j = 1
      BY <2>1, <1>0 DEF Leads, Queue
    <2> QED BY <2>1, <2>2
  <1>3. \A x, y : Before(q, x, y) => InQueue(q, x) /\ InQueue(q, y)
    BY DEF Before, InQueue
  <1>4. \A x : InQueue(q, x) => q # <<>> /\ x \in Names
    BY <1>0, ElementOfSeq, EmptySeq DEF InQueue
  <1>5. \A x, y : Leads(q, x) /\ InQueue(q, y) /\ x # y => Before(q, x, y)
    <2> TAKE x, y
    <2> HAVE Leads(q, x) /\ InQueue(q, y) /\ x # y
    <2>1. PICK j \in 1..Len(q) : q[j] = y
      BY DEF InQueue
    <2>2. j > 1 /\ 1 \in 1..Len(q) /\ q[1] = x
      BY <2>1, <1>0 DEF Leads
    <2> QED BY <2>1, <2>2 DEF Before
  <1>6. \A x : Leads(q, x) => <<x>> \o Tail(q) = q
    <2> TAKE x
    <2> HAVE Leads(q, x)
    <2>1. q # <<>> /\ x = Head(q) /\ x \in Names
      BY <1>0, ElementOfSeq DEF Leads
    <2>2. /\ Tail(q) \in Seq(Names) /\ Len(Tail(q)) = Len(q) - 1
          /\ \A i \in 1 .. Len(Tail(q)) : Tail(q)[i] = q[i+1]
      BY <2>1, <1>0, HeadTailProperties
    <2>3. <<x>> \in Seq(Names) /\ Len(<<x>>) = 1 /\ <<x>>[1] = x
      BY <2>1
    <2>4. /\ <<x>> \o Tail(q) \in Seq(Names)
          /\ Len(<<x>> \o Tail(q)) = Len(<<x>>) + Len(Tail(q))
          /\ \A i \in 1..Len(<<x>>) + Len(Tail(q)) : (<<x>> \o Tail(q))[i] =
               IF i <= Len(<<x>>) THEN <<x>>[i] ELSE Tail(q)[i - Len(<<x>>)]
      BY <2>2, <2>3, ConcatProperties
    <2>5. ASSUME NEW i \in 1..Len(q) PROVE (<<x>> \o Tail(q))[i] = q[i]
      <3>1. CASE i = 1
        BY <3>1, <2>3, <2>4, <2>2, <1>0 DEF Leads
      <3>2. CASE i > 1
        <4>1. i - 1 \in 1..Len(Tail(q)) /\ Tail(q)[i - 1] = q[i]
          BY <3>2, <2>2, <1>0
        <4> QED BY <4>1, <3>2, <2>3, <2>4, <2>2, <1>0
      <3> QED BY <3>1, <3>2
    <2> QED BY <2>4, <2>5, <2>3, <2>2, <1>0, SeqEqual
  <1> QED BY <1>1, <1>2, <1>3, <1>4, <1>5, <1>6

LEMMA NobodyInEmpty ==
  /\ Queue(<<>>)
  /\ \A x : ~InQueue(<<>>, x)
  /\ \A x, y : ~Before(<<>>, x, y)
  <1>1. <<>> \in Seq(Names) /\ Len(<<>>) = 0 /\ 1..0 = {}
    BY EmptySeq
  <1> QED BY <1>1 DEF Queue, InQueue, Before

-----------------------------------------------------------------------------
(* Who is in the queue and who holds the lock: Turns.                      *)

\* Steps that leave the queue alone and change nobody's place in it.
LEMMA TurnsKept ==
  ASSUME TypeOK, Turns, UNCHANGED <<lock, closer>>,
         \/ run' = run
         \/ {run, run'} \cap {"queued", "opening", "auth", "refused",
                              "closing"} = {},
         \A u \in Users : \/ pc'[u] = pc[u]
                          \/ {pc[u], pc'[u]} \cap {"queued", "sending"} = {}
  PROVE  Turns'
  <1>1. \A x : Wants(x) <=> Wants(x)'
    BY DEF Wants
  <1>2. \A x : Has(x)' => Has(x)
    BY DEF Has
  <1>3. run = "closing" <=> run' = "closing"
    OBVIOUS
  <1> QED BY <1>1, <1>2, <1>3 DEF Turns

\* _close_session with a queue it is not in.
LEMMA CloseStartsQueue ==
  ASSUME NEW c \in Closers, NEW queue, Queue(queue), ~InQueue(queue, c),
         CloseStarts(c, queue)
  PROVE  /\ Queue(lock')
         /\ \A x : InQueue(lock', x) <=> InQueue(queue, x) \/ x = c
         /\ \A x, y : Before(lock', x, y) =>
                        Before(queue, x, y) \/ (InQueue(queue, x) /\ y = c)
         /\ \A x : Leads(queue, x) => Leads(lock', x)
         /\ closer' = [closer EXCEPT ![c] = "waiting"]
            \/ (closer' = [closer EXCEPT ![c] = "shutting"] /\ Leads(lock', c)
                /\ queue = <<>>)
  <1>1. c \in Names
    BY DEF Names
  <1>2. CASE queue # <<>>
    <2>1. lock' = Append(queue, c) /\ closer' = [closer EXCEPT ![c] = "waiting"]
      BY <1>2 DEF CloseStarts
    <2> QED BY <2>1, <1>1, AppendQueue
  <1>3. CASE queue = <<>>
    <2>1. lock' = <<c>> \o <<>> /\ closer' = [closer EXCEPT ![c] = "shutting"]
      BY <1>3 DEF CloseStarts, Teardown
    <2>2. <<c>> \o <<>> = Append(<<>>, c)
      <3>1. <<c>> \in Seq(Names) /\ <<c>> \o <<>> = <<c>>
        BY <1>1, ConcatEmptySeq
      <3> QED BY <3>1
    <2>4. lock' = Append(queue, c)
      BY <2>1, <2>2, <1>3
    <2>5. /\ Queue(Append(queue, c))
          /\ \A x : InQueue(Append(queue, c), x) <=> InQueue(queue, x) \/ x = c
          /\ \A x, y : Before(Append(queue, c), x, y) =>
                         Before(queue, x, y) \/ (InQueue(queue, x) /\ y = c)
          /\ \A x : Leads(queue, x) => Leads(Append(queue, c), x)
          /\ Leads(Append(queue, c), c)
      BY <1>1, <1>3, AppendQueue
    <2> QED BY <2>1, <2>4, <2>5, <1>3
  <1> QED BY <1>2, <1>3

LEMMA TurnsStay ==
  ASSUME TypeOK, Turns, Next
  PROVE  Turns'
  <1> USE HaLinkAssumption DEF Names, Closers
  <1>q. Queue(lock) /\ lock \in Seq(Names)
    BY DEF Turns, Queue
  <1>h. /\ \A x : Leads(lock, x) => lock # <<>> /\ InQueue(lock, x)
           /\ Head(lock) = x
        /\ lock # <<>> => Leads(lock, Head(lock))
        /\ \A x, y : Leads(lock, x) /\ Leads(lock, y) => x = y
        /\ \A x : InQueue(lock, x) => lock # <<>> /\ x \in Names
        /\ \A x : Leads(lock, x) => <<x>> \o Tail(lock) = lock
    BY <1>q, HeadQueue
  <1>t. lock # <<>> =>
          /\ Queue(Tail(lock))
          /\ \A x : InQueue(Tail(lock), x) <=> InQueue(lock, x)
             /\ ~Leads(lock, x)
    BY <1>q, TailQueue
  <1>a. \A c \in Names : ~InQueue(lock, c) =>
          /\ Queue(Append(lock, c))
          /\ \A x : InQueue(Append(lock, c), x) <=> InQueue(lock, x) \/ x = c
          /\ \A x : Leads(lock, x) => Leads(Append(lock, c), x)
          /\ lock = <<>> => Leads(Append(lock, c), c)
    BY <1>q, AppendQueue
  <1>w. \A c :
          /\ Queue(Without(lock, c))
          /\ \A x : InQueue(Without(lock, c), x) <=> InQueue(lock, x) /\ x # c
          /\ \A x : Leads(lock, x) /\ x # c => Leads(Without(lock, c), x)
    BY <1>q, WithoutQueue
  <1>n. \A x : Leads(lock, x) => x \in Names /\ Wants(x)
    BY <1>h DEF Turns
  <1>one. \A x, y \in Names : Has(x) /\ Leads(lock, y) => x = y
    BY <1>h DEF Turns
  \* After a send, a handshake or a teardown its holder leaves.
  <1>leaves. ASSUME NEW x \in Names, Leads(lock, x), lock' = Tail(lock),
               ~Wants(x)', ~Has(x)',
               \A y \in Names \ {x} : Wants(y)' <=> Wants(y),
               \A y \in Names \ {x} : Has(y)' => Has(y)
        PROVE  /\ Queue(lock')
               /\ \A y \in Names : InQueue(lock', y) <=> Wants(y)'
               /\ \A y \in Names : Has(y)' => Leads(lock', y)
    <2>1. lock # <<>>
      BY <1>h, <1>leaves
    <2>2. \A y \in Names : InQueue(lock', y) <=> Wants(y)'
      BY <2>1, <1>t, <1>leaves, <1>h DEF Turns
    <2>3. \A y \in Names : ~Has(y)'
      BY <1>one, <1>leaves
    <2> QED BY <2>1, <2>2, <2>3, <1>t, <1>leaves
  <1>1. CASE Connect
    <2>1. CASE lock = <<>>
      <3>1. lock' = <<"run">> \o <<>> /\ run' = "opening"
            /\ UNCHANGED <<closer, pc>>
        BY <1>1, <2>1 DEF Connect, OpensSession, users
      <3>2. <<"run">> \o <<>> = Append(<<>>, "run")
        <4>1. <<"run">> \in Seq(Names) /\ <<"run">> \o <<>> = <<"run">>
          BY ConcatEmptySeq
        <4> QED BY <4>1
      <3>3. lock' = Append(lock, "run") /\ ~InQueue(lock, "run")
        BY <3>1, <3>2, <2>1, <1>h
      <3>4. \A x \in Names : ~Wants(x)
        BY <2>1, <1>h DEF Turns
      <3>5. \A x \in Names : Has(x)' => x = "run"
        BY <3>1, <3>4, <1>h, <2>1 DEF Has, Wants, TypeOK, Turns
      <3>6. \A x \in Names : Wants(x)' <=> x = "run"
        BY <3>1, <3>4 DEF Wants, TypeOK, Turns
      <3> QED BY <3>1, <3>3, <3>4, <3>5, <3>6, <1>a, <2>1, <1>1, <1>h
          DEF Turns, Connect
    <2>2. CASE lock # <<>>
      <3>1. lock' = Append(lock, "run") /\ run' = "queued"
            /\ UNCHANGED <<closer, pc>>
            /\ run = "connect"
        BY <1>1, <2>2 DEF Connect, users
      <3>2. ~InQueue(lock, "run")
        BY <3>1, <1>h DEF Turns, Wants
      <3>3. \A x \in Names : Wants(x)' <=> Wants(x) \/ x = "run"
        BY <3>1 DEF Wants
      <3>4. \A x \in Names : Has(x)' => Has(x)
        BY <3>1 DEF Has
      <3> QED BY <3>1, <3>2, <3>3, <3>4, <1>a DEF Turns
    <2> QED BY <2>1, <2>2
  <1>2. CASE ConnectGranted
    <2>1. Leads(lock, "run")
      BY <1>2, <1>h DEF ConnectGranted, Turns, Wants
    <2>2. lock' = lock /\ run' = "opening" /\ UNCHANGED <<closer, pc>>
          /\ run = "queued"
      BY <1>2, <2>1, <1>h DEF ConnectGranted, OpensSession, users
    <2>3. \A x \in Names : Wants(x)' <=> Wants(x)
      BY <2>2 DEF Wants
    <2>4. \A x \in Names : Has(x)' => Has(x) \/ x = "run"
      BY <2>2 DEF Has
    <2> QED BY <2>1, <2>2, <2>3, <2>4 DEF Turns
  <1>3. CASE Unconfigured
    BY <1>3, TurnsKept DEF Unconfigured, users, Retrying
  <1>4. CASE Opened
    <2>1. lock' = lock /\ run' = "auth" /\ UNCHANGED <<closer, pc>>
          /\ run = "opening"
      BY <1>4 DEF Opened, users
    <2>2. \A x \in Names : (Wants(x)' <=> Wants(x)) /\ (Has(x)' => Has(x))
      BY <2>1 DEF Wants, Has
    <2> QED BY <2>1, <2>2 DEF Turns
  <1>5. CASE Connected
    <2>1. /\ lock' = Tail(lock) /\ run' \in {"receive", "exit"}
          /\ UNCHANGED <<closer, pc>> /\ run = "auth"
      BY <1>5 DEF Connected, users
    <2>2. Leads(lock, "run")
      BY <2>1 DEF Turns, Has
    <2>3. /\ ~Wants("run")' /\ ~Has("run")'
          /\ \A y \in Names \ {"run"} : (Wants(y)' <=> Wants(y))
             /\ (Has(y)' => Has(y))
      BY <2>1 DEF Wants, Has, Turns
    <2> QED BY <2>1, <2>2, <2>3, <1>leaves DEF Turns
  <1>6. CASE Refused
    <2>1. Leads(lock, "run")
      BY <1>6 DEF Refused, Turns, Has
    <2>2. lock' = lock /\ run' = "refused" /\ UNCHANGED <<closer, pc>>
          /\ run = "auth"
      BY <1>6, <2>1, <1>h DEF Refused, Teardown
    <2>3. \A x \in Names : (Wants(x)' <=> Wants(x)) /\ (Has(x)' => Has(x))
      BY <2>2 DEF Wants, Has
    <2> QED BY <2>2, <2>3 DEF Turns
  <1>7. CASE RefusedEnds
    <2>1. /\ lock' = Tail(lock) /\ run' \in {"backoff", "exit"}
          /\ UNCHANGED <<closer, pc>> /\ run = "refused"
      BY <1>7 DEF RefusedEnds, users, Retrying
    <2>2. Leads(lock, "run")
      BY <2>1 DEF Turns, Has
    <2>3. /\ ~Wants("run")' /\ ~Has("run")'
          /\ \A y \in Names \ {"run"} : (Wants(y)' <=> Wants(y))
             /\ (Has(y)' => Has(y))
      BY <2>1 DEF Wants, Has, Turns
    <2> QED BY <2>1, <2>2, <2>3, <1>leaves DEF Turns
  \* _close_session by c that is not in the queue.
  <1>closes. ASSUME NEW c \in Closers, CloseStarts(c, lock), ~Wants(c),
                    pc' = pc,
               IF c = "run" THEN run' = "closing" ELSE run' = run
        PROVE  Turns'
    <2>1. ~InQueue(lock, c)
      BY <1>closes DEF Turns
    <2>2. /\ Queue(lock')
          /\ \A x : InQueue(lock', x) <=> InQueue(lock, x) \/ x = c
          /\ \A x : Leads(lock, x) => Leads(lock', x)
          /\ closer' = [closer EXCEPT ![c] = "waiting"]
             \/ (closer' = [closer EXCEPT ![c] = "shutting"] /\ Leads(lock', c))
      BY <1>q, <1>closes, <2>1, CloseStartsQueue
    <2>3. \A x \in Names : Wants(x)' <=> Wants(x) \/ x = c
      BY <2>2, <1>closes DEF Wants, TypeOK
    <2>4. \A x \in Names : Has(x)' => Has(x) \/ (x = c /\ Leads(lock', c))
      BY <2>2, <1>closes DEF Has, Wants, TypeOK
    <2>5. /\ run' = "closing" <=> closer'["run"] \in {"waiting", "shutting"}
          /\ closer'["run"] # "over" /\ closer'["admin"] # "over"
      BY <2>2, <1>closes DEF TypeOK, Turns
    <2> QED BY <2>2, <2>3, <2>4, <2>5 DEF Turns
  <1>8. CASE ConnectRaises
    <2> DEFINE queue == Tail(lock)
    <2>1. /\ CloseStarts("run", queue) /\ run' = "closing" /\ pc' = pc
          /\ run \in {"opening", "auth"}
      BY <1>8 DEF ConnectRaises
    <2>2. Leads(lock, "run")
      BY <2>1 DEF Turns, Has
    <2>3. Queue(queue) /\ ~InQueue(queue, "run")
      BY <2>2, <1>t, <1>h
    <2>4. /\ Queue(lock')
          /\ \A x : InQueue(lock', x) <=> InQueue(queue, x) \/ x = "run"
          /\ closer' = [closer EXCEPT !["run"] = "waiting"]
             \/ (closer' = [closer EXCEPT !["run"] = "shutting"]
                /\ Leads(lock', "run"))
      BY <2>1, <2>3, CloseStartsQueue
    <2>5. \A x : InQueue(queue, x) <=> InQueue(lock, x) /\ ~Leads(lock, x)
      BY <1>t, <1>h, <2>2
    <2> HIDE DEF queue
    <2>6. \A x \in Names : InQueue(lock', x) <=> InQueue(lock, x)
      BY <2>2, <2>4, <2>5, <1>h
    <2>7. \A x \in Names : Wants(x)' <=> Wants(x)
      BY <2>1, <2>4 DEF Wants, TypeOK
    <2>8. \A x \in Names : Has(x)' => x = "run"
      <3>1. \A x \in Names : Has(x)' => Has(x) \/ x = "run"
        BY <2>1, <2>4 DEF Has, TypeOK
      <3> QED BY <3>1, <2>2, <1>one
    <2>9. Has("run")' => Leads(lock', "run")
      BY <2>1, <2>4 DEF Has, TypeOK
    <2>10. /\ run' = "closing" <=> closer'["run"] \in {"waiting", "shutting"}
           /\ closer'["run"] # "over" /\ closer'["admin"] # "over"
      BY <2>1, <2>4 DEF TypeOK, Turns
    <2> QED BY <2>4, <2>6, <2>7, <2>8, <2>9, <2>10 DEF Turns
  <1>9. CASE BackoffEnds
    BY <1>9, TurnsKept DEF BackoffEnds, users
  <1>10. CASE Deliver
    BY <1>10, TurnsKept DEF Deliver
  <1>11. CASE ReceiveEnds
    <2>1. CASE running
      BY <1>11, <2>1, <1>closes DEF ReceiveEnds, Wants
    <2>2. CASE ~running
      BY <1>11, <2>2, TurnsKept DEF ReceiveEnds
    <2> QED BY <2>1, <2>2
  <1>12. CASE Exit
    <2>1. CASE session # 0
      BY <1>12, <2>1, <1>closes DEF Exit, Wants
    <2>2. CASE session = 0
      BY <1>12, <2>2, TurnsKept DEF Exit
    <2> QED BY <2>1, <2>2
  <1>13. ASSUME NEW c \in Closers, CloseGranted(c)
         PROVE  Turns'
    <2>1. Wants(c) /\ closer[c] = "waiting" /\ InQueue(lock, c)
      BY <1>13 DEF CloseGranted, Wants, Turns
    <2>2. Leads(lock, c)
      BY <2>1, <1>13, <1>h DEF CloseGranted
    <2>3. /\ lock' = lock /\ closer' = [closer EXCEPT ![c] = "shutting"]
          /\ run' = run /\ pc' = pc
      BY <1>13, <2>2, <1>h DEF CloseGranted, Teardown
    <2>4. \A x \in Names : (Wants(x)' <=> Wants(x))
          /\ (Has(x)' => Has(x) \/ x = c)
      BY <2>1, <2>3 DEF Wants, Has, TypeOK
    <2>5. /\ run' = "closing" <=> closer'["run"] \in {"waiting", "shutting"}
          /\ closer'["run"] # "over" /\ closer'["admin"] # "over"
      BY <2>1, <2>3 DEF TypeOK, Turns
    <2> QED BY <2>2, <2>3, <2>4, <2>5 DEF Turns
  \* c is done with its teardown.
  <1>ends. ASSUME NEW c \in Closers, closer[c] = "shutting",
                  closer' = [closer EXCEPT ![c] = "rest"], lock' = Tail(lock),
                  pc' = pc,
                  IF c = "run" THEN run' \in {"backoff", "exit"} ELSE run' = run
           PROVE  Turns'
    <2>1. Leads(lock, c)
      BY <1>ends DEF Turns, Has
    <2>2. /\ ~Wants(c)' /\ ~Has(c)'
          /\ \A y \in Names \ {c} : (Wants(y)' <=> Wants(y))
             /\ (Has(y)' => Has(y))
      BY <1>ends DEF Wants, Has, Turns, TypeOK
    <2>3. /\ run' = "closing" <=> closer'["run"] \in {"waiting", "shutting"}
          /\ closer'["run"] # "over" /\ closer'["admin"] # "over"
      BY <1>ends DEF TypeOK, Turns
    <2> QED BY <2>1, <2>2, <2>3, <1>ends, <1>leaves DEF Turns
  <1>14. CASE RunCloses
    BY <1>14, <1>ends DEF RunCloses, users, Retrying
  <1>15. CASE DropConnection
    BY <1>15, <1>closes DEF DropConnection, Wants
  <1>16. CASE DropEnds
    BY <1>16, <1>ends DEF DropEnds, users
  <1>17. CASE Disconnect
    BY <1>17, <1>closes DEF Disconnect, Wants
  <1>18. CASE DisconnectEnds
    <2>1. /\ closer["stopper"] = "shutting"
          /\ run' = IF run = "over" THEN "over" ELSE "exit"
          /\ lock' = Without(Tail(lock), "run")
          /\ closer' = [closer EXCEPT !["stopper"] = "over", !["run"] = "rest"]
          /\ pc' = pc
      BY <1>18 DEF DisconnectEnds
    <2>2. Leads(lock, "stopper")
      BY <2>1 DEF Turns, Has
    <2>3. /\ Queue(lock')
          /\ \A x : InQueue(lock', x) <=> InQueue(Tail(lock), x) /\ x # "run"
      <3>1. Queue(Tail(lock))
        BY <2>2, <1>h, <1>t
      <3> QED BY <2>1, <3>1, WithoutQueue
    <2>4. \A x : InQueue(Tail(lock), x) <=> InQueue(lock, x) /\ x # "stopper"
      BY <2>2, <1>h, <1>t
    <2>5. \A x \in Names : Wants(x)' <=> Wants(x) /\ x \notin {"run", "stopper"}
      BY <2>1 DEF Wants, TypeOK
    <2>6. \A x \in Names : ~Has(x)'
      <3>1. \A x \in Names : Has(x)' => Has(x) /\ x # "stopper"
        BY <2>1 DEF Has, TypeOK
      <3> QED BY <3>1, <2>2, <1>one
    <2>7. /\ run' = "closing" <=> closer'["run"] \in {"waiting", "shutting"}
          /\ closer'["run"] # "over" /\ closer'["admin"] # "over"
      BY <2>1 DEF TypeOK, Turns
    <2> QED BY <2>3, <2>4, <2>5, <2>6, <2>7 DEF Turns
  <1>sends. ASSUME NEW u \in Users, SendCommand(u), ~Wants(u),
                   UNCHANGED <<run, closer>>
            PROVE  Turns'
    <2>1. ~InQueue(lock, u) /\ lock' = Append(lock, u)
      BY <1>sends DEF Turns, SendCommand
    <2>2. \/ pc' = [pc EXCEPT ![u] = "queued"]
          \/ pc' = [pc EXCEPT ![u] = "sending"] /\ lock = <<>>
      BY <1>sends DEF SendCommand, Transmits
    <2>3. \A x \in Names : Wants(x)' <=> Wants(x) \/ x = u
      BY <2>2, <1>sends DEF Wants, TypeOK
    <2>4. \A x \in Names : Has(x)' => Has(x) \/ (x = u /\ lock = <<>>)
      BY <2>2, <1>sends DEF Has, TypeOK
    <2> QED BY <2>1, <2>3, <2>4, <1>sends, <1>a DEF Turns
  <1>19. ASSUME NEW u \in Users, Query(u) PROVE Turns'
    <2>1. CASE Usable
      BY <1>19, <2>1, <1>sends DEF Query, Wants, link
    <2>2. CASE ~Usable
      BY <1>19, <2>2, TurnsKept DEF Query, link, Ends, TypeOK
    <2> QED BY <2>1, <2>2
  <1>20. ASSUME NEW u \in Users, CallService(u) PROVE Turns'
    BY <1>20, TurnsKept DEF CallService, link, TypeOK
  <1>21. ASSUME NEW u \in Users, RestReturns(u) PROVE Turns'
    BY <1>21, TurnsKept DEF RestReturns, Watches, link, TypeOK
  <1>22. ASSUME NEW u \in Users, RestFails(u) PROVE Turns'
    BY <1>22, TurnsKept DEF RestFails, Ends, link, TypeOK
  <1>23. ASSUME NEW u \in Users, RestUnsent(u) PROVE Turns'
    BY <1>23, <1>sends DEF RestUnsent, Wants, link
  \* A user that has the lock lets it go.
  <1>gone. ASSUME NEW u \in Users, Leads(lock, u), lock' = Tail(lock),
                  UNCHANGED <<run, closer>>,
                  \E p \in {"awaiting", "done"} : pc' = [pc EXCEPT ![u] = p]
           PROVE  Turns'
    <2>1. /\ ~Wants(u)' /\ ~Has(u)'
          /\ \A y \in Names \ {u} : (Wants(y)' <=> Wants(y))
             /\ (Has(y)' => Has(y))
      BY <1>gone DEF Wants, Has, TypeOK
    <2> QED BY <2>1, <1>gone, <1>leaves DEF Turns
  <1>24. ASSUME NEW u \in Users, SendGranted(u) PROVE Turns'
    <2>1. Leads(lock, u) /\ pc[u] = "queued"
      BY <1>24, <1>h DEF SendGranted, Turns, Wants
    <2>2. CASE Usable
      <3>1. pc' = [pc EXCEPT ![u] = "sending"] /\ UNCHANGED <<lock, run,
            closer>>
        BY <1>24, <2>2 DEF SendGranted, Transmits, link
      <3>2. \A x \in Names : (Wants(x)' <=> Wants(x))
            /\ (Has(x)' => Has(x) \/ x = u)
        BY <3>1, <2>1 DEF Wants, Has, TypeOK
      <3> QED BY <3>1, <3>2, <2>1 DEF Turns
    <2>3. CASE ~Usable
      BY <1>24, <2>1, <2>3, <1>gone DEF SendGranted, Ends, link
    <2> QED BY <2>2, <2>3
  <1>25. ASSUME NEW u \in Users, Sent(u) PROVE Turns'
    BY <1>25, <1>gone DEF Sent, link, Turns, Has
  <1>26. ASSUME NEW u \in Users, CommandFails(u) PROVE Turns'
    <2>1. CASE pc[u] = "sending"
      BY <1>26, <2>1, <1>gone DEF CommandFails, Ends, link, Turns, Has
    <2>2. CASE pc[u] = "awaiting"
      BY <1>26, <2>2, TurnsKept DEF CommandFails, Ends, link, TypeOK
    <2> QED BY <1>26, <2>1, <2>2 DEF CommandFails
  <1>27. ASSUME NEW u \in Users, CommandSucceeds(u) PROVE Turns'
    BY <1>27, TurnsKept DEF CommandSucceeds, Watches, link, TypeOK
  <1>28. ASSUME NEW u \in Users, WatchEnds(u) PROVE Turns'
    BY <1>28, TurnsKept DEF WatchEnds, Ends, link, TypeOK
  <1>29. ASSUME NEW u \in Users, CancelUser(u) PROVE Turns'
    <2>1. /\ lock' = Without(lock, u) /\ pc' = [pc EXCEPT ![u] = "done"]
          /\ UNCHANGED <<run, closer>>
      BY <1>29 DEF CancelUser, Ends, link
    <2>2. \A x \in Names : /\ Wants(x)' <=> Wants(x) /\ x # u
                           /\ Has(x)' => Has(x) /\ x # u
      BY <2>1 DEF Wants, Has, TypeOK
    <2> QED BY <2>1, <2>2, <1>w DEF Turns
  <1>30. ASSUME NEW u \in Users, Answer(u) PROVE Turns'
    BY <1>30, TurnsKept DEF Answer
  <1>31. CASE StateChanges
    BY <1>31, TurnsKept DEF StateChanges, users
  <1>32. ASSUME NEW s \in Sockets, Breaks(s) \/ Noticed(s) PROVE Turns'
    BY <1>32, TurnsKept DEF Breaks, Noticed, users
  <1> QED
    BY <1>1, <1>2, <1>3, <1>4, <1>5, <1>6, <1>7, <1>8, <1>9, <1>10, <1>11,
       <1>12, <1>13, <1>14, <1>15, <1>16, <1>17, <1>18, <1>19, <1>20, <1>21,
       <1>22, <1>23, <1>24, <1>25, <1>26, <1>27, <1>28, <1>29, <1>30, <1>31,
       <1>32
    DEF Next, RunStep, AdminStep, StopStep, UserStep, Environment

-----------------------------------------------------------------------------
(* Types.                                                                  *)

LEMMA TeardownTypes ==
  ASSUME TypeOK, NEW c, NEW queue, Teardown(c, queue)
  PROVE  /\ cmd' \in [Users -> {"none", "open", "ok", "reset"}]
         /\ session' = 0 /\ attached' = FALSE
         /\ sock' \in [Sockets -> {"new", "opening", "half", "open", "lost",
                                   "dead", "closing", "shut"}]
         /\ inbox' \in [Sockets -> Seq(Users \cup {"event"})]
         /\ missed' \in BOOLEAN
  <1>1. <<>> \in Seq(Users \cup {"event"})
    BY EmptySeq
  <1>2. inbox' \in [Sockets -> Seq(Users \cup {"event"})]
    BY <1>1 DEF Teardown, TypeOK
  <1>3. missed' \in BOOLEAN
    BY DEF Teardown, TypeOK, HoldsEvent
  <1> QED BY <1>2, <1>3 DEF Teardown, TypeOK

LEMMA CloseStartsTypes ==
  ASSUME TypeOK, NEW c \in Closers, NEW queue, CloseStarts(c, queue)
  PROVE  /\ cmd' \in [Users -> {"none", "open", "ok", "reset"}]
         /\ session' \in 0..MaxSockets
         /\ attached' \in BOOLEAN /\ (attached' => session' # 0)
         /\ sock' \in [Sockets -> {"new", "opening", "half", "open", "lost",
                                   "dead", "closing", "shut"}]
         /\ inbox' \in [Sockets -> Seq(Users \cup {"event"})]
         /\ missed' \in BOOLEAN
         /\ waiter' \in [Users -> {"none", "open", "hit", "reset"}]
         /\ closer' \in [Closers -> {"rest", "waiting", "shutting", "over"}]
  <1>1. /\ waiter' \in [Users -> {"none", "open", "hit", "reset"}]
        /\ closer' \in [Closers -> {"rest", "waiting", "shutting", "over"}]
    BY DEF CloseStarts, WaitersReset, TypeOK
  <1>2. CASE queue = <<>>
    <2>1. Teardown(c, <<>>)
      BY <1>2 DEF CloseStarts
    <2>2. 0 \in 0..MaxSockets
      BY HaLinkAssumption
    <2> QED BY <2>1, <2>2, <1>1, TeardownTypes
  <1>3. CASE queue # <<>>
    BY <1>1, <1>3 DEF CloseStarts, TypeOK
  <1> QED BY <1>2, <1>3

LEMMA TypesStay ==
  ASSUME TypeOK, Turns, Sessions, Next
  PROVE  TypeOK'
  <1> USE HaLinkAssumption DEF TypeOK
  <1>l. lock' \in Seq(Users \cup Closers)
    BY TurnsStay DEF Turns, Queue, Names
  <1>z. 0 \in 0..MaxSockets
    OBVIOUS
  <1>opens. ASSUME NEW queue, OpensSession(queue)
            PROVE  /\ session' \in 0..MaxSockets /\ session' # 0
                   /\ sock' \in [Sockets -> {"new", "opening", "half", "open",
                                   "lost", "dead", "closing", "shut"}]
                   /\ run' = "opening"
    BY <1>opens DEF OpensSession, Sockets
  <1>sends. ASSUME NEW u \in Users, SendCommand(u)
            PROVE  /\ cmd' \in [Users -> {"none", "open", "ok", "reset"}]
                   /\ pc' \in [Users -> {"idle", "calling", "queued", "sending",
                                        "awaiting", "watching", "done"}]
                   /\ sentOn' \in [Users -> 0..MaxSockets]
                   /\ asked' \subseteq Users
    <2>1. /\ cmd' = [cmd EXCEPT ![u] = "open"]
          /\ \/ UNCHANGED <<sentOn, asked>>
             \/ /\ sentOn' = [sentOn EXCEPT ![u] = session]
                /\ asked' = asked \cup {u}
          /\ \E p \in {"queued", "sending"} : pc' = [pc EXCEPT ![u] = p]
      BY <1>sends DEF SendCommand, Transmits
    <2> QED BY <2>1
  <1>1. CASE Connect
    <2>1. CASE lock = <<>>
      <3>1. OpensSession(<<>>)
        BY <1>1, <2>1 DEF Connect
      <3> QED BY <1>1, <3>1, <1>opens, <1>l DEF Connect, users, counts
    <2>2. CASE lock # <<>>
      BY <1>1, <2>2, <1>l DEF Connect, users, counts
    <2> QED BY <2>1, <2>2
  <1>2. CASE ConnectGranted
    BY <1>2, <1>opens, <1>l DEF ConnectGranted, users, counts
  <1>3. CASE Unconfigured
    BY <1>3, <1>l DEF Unconfigured, Retrying, users, counts
  <1>4. CASE Opened
    BY <1>4, <1>l DEF Opened, Sessions, users, counts
  <1>5. CASE Connected
    BY <1>5, <1>l DEF Connected, Announces, users, counts
  <1>6. CASE Refused
    <2>1. waiter' \in [Users -> {"none", "open", "hit", "reset"}]
      BY <1>6 DEF Refused, WaitersReset
    <2>2. Teardown("run", Tail(lock))
      BY <1>6 DEF Refused
    <2> QED BY <1>6, <2>1, <2>2, <1>z, TeardownTypes, <1>l DEF Refused
  <1>7. CASE RefusedEnds
    BY <1>7, <1>l DEF RefusedEnds, Retrying, Shut, users, counts
  <1>8. CASE ConnectRaises
    <2>1. CloseStarts("run", Tail(lock)) /\ "run" \in Closers
      BY <1>8 DEF ConnectRaises, Closers
    <2> QED BY <1>8, <2>1, CloseStartsTypes, <1>l DEF ConnectRaises
  <1>9. CASE BackoffEnds
    BY <1>9, <1>l DEF BackoffEnds, users, counts
  <1>10. CASE Deliver
    <2>1. inbox' \in [Sockets -> Seq(Users \cup {"event"})]
      <3>1. session \in Sockets
        BY <1>10 DEF Deliver, Sockets
      <3>2. Tail(inbox[session]) \in Seq(Users \cup {"event"})
        BY <1>10, <3>1, HeadTailProperties DEF Deliver
      <3> QED BY <1>10, <3>1, <3>2 DEF Deliver
    <2>2. waiter' \in [Users -> {"none", "open", "hit", "reset"}]
      BY <1>10 DEF Deliver
    <2>3. cmd' \in [Users -> {"none", "open", "ok", "reset"}]
      BY <1>10 DEF Deliver
    <2> QED BY <1>10, <2>1, <2>2, <2>3, <1>l DEF Deliver, counts
  <1>11. CASE ReceiveEnds
    <2>1. CASE running
      <3>1. CloseStarts("run", lock) /\ "run" \in Closers
        BY <1>11, <2>1 DEF ReceiveEnds, Closers
      <3> QED BY <1>11, <2>1, <3>1, CloseStartsTypes, <1>l DEF ReceiveEnds
    <2>2. CASE ~running
      BY <1>11, <2>2, <1>l DEF ReceiveEnds
    <2> QED BY <2>1, <2>2
  <1>12. CASE Exit
    <2>1. CASE session # 0
      <3>1. CloseStarts("run", lock) /\ "run" \in Closers
        BY <1>12, <2>1 DEF Exit, Closers
      <3> QED BY <1>12, <2>1, <3>1, CloseStartsTypes, <1>l DEF Exit
    <2>2. CASE session = 0
      BY <1>12, <2>2, <1>l DEF Exit
    <2> QED BY <2>1, <2>2
  <1>13. ASSUME NEW c \in Closers, CloseGranted(c) PROVE TypeOK'
    <2>1. Teardown(c, Tail(lock))
      BY <1>13 DEF CloseGranted
    <2>2. closer' \in [Closers -> {"rest", "waiting", "shutting", "over"}]
      BY <1>13 DEF CloseGranted
    <2> QED BY <1>13, <2>1, <2>2, <1>z, TeardownTypes, <1>l DEF CloseGranted
  <1>14. CASE RunCloses
    BY <1>14, <1>l DEF RunCloses, Shut, Retrying, users, counts
  <1>15. CASE DropConnection
    <2>1. CloseStarts("admin", lock) /\ "admin" \in Closers
      BY <1>15 DEF DropConnection, Closers
    <2> QED BY <1>15, <2>1, CloseStartsTypes, <1>l DEF DropConnection
  <1>16. CASE DropEnds
    BY <1>16, <1>l DEF DropEnds, Shut, users, counts
  <1>17. CASE Disconnect
    <2>1. CloseStarts("stopper", lock) /\ "stopper" \in Closers
      BY <1>17 DEF Disconnect, Closers
    <2> QED BY <1>17, <2>1, CloseStartsTypes, <1>l DEF Disconnect
  <1>18. CASE DisconnectEnds
    BY <1>18, <1>l DEF DisconnectEnds, Shut, WaitersReset, counts
  <1>19. ASSUME NEW u \in Users, Query(u) PROVE TypeOK'
    <2>1. CASE Usable
      BY <1>19, <2>1, <1>sends, <1>l DEF Query, link, counts
    <2>2. CASE ~Usable
      BY <1>19, <2>2, <1>l DEF Query, Ends, link, counts
    <2> QED BY <2>1, <2>2
  <1>20. ASSUME NEW u \in Users, CallService(u) PROVE TypeOK'
    <2>1. (IF IsConnected THEN "open" ELSE "none") \in {"open", "none"}
      OBVIOUS
    <2>2. (IF \E c \in Closers : closer[c] = "waiting" THEN 0 ELSE session)
            \in 0..MaxSockets
      OBVIOUS
    <2> QED BY <1>20, <2>1, <2>2, <1>l DEF CallService, link, counts
  <1>21. ASSUME NEW u \in Users, RestReturns(u) PROVE TypeOK'
    BY <1>21, <1>l DEF RestReturns, Watches, link, counts
  <1>22. ASSUME NEW u \in Users, RestFails(u) PROVE TypeOK'
    BY <1>22, <1>l DEF RestFails, Ends, WaiterGone, link, counts
  <1>23. ASSUME NEW u \in Users, RestUnsent(u) PROVE TypeOK'
    BY <1>23, <1>sends, <1>l DEF RestUnsent, link, counts
  <1>24. ASSUME NEW u \in Users, SendGranted(u) PROVE TypeOK'
    <2>1. CASE Usable
      <3>1. /\ sentOn' = [sentOn EXCEPT ![u] = session]
            /\ asked' = asked \cup {u} /\ pc' = [pc EXCEPT ![u] = "sending"]
            /\ UNCHANGED <<link, closer, counts, cmd, waiter, born>>
        BY <1>24, <2>1 DEF SendGranted, Transmits
      <3> QED BY <3>1, <1>l DEF link, counts
    <2>2. CASE ~Usable
      <3>1. /\ UNCHANGED <<sentOn, asked>> /\ pc' = [pc EXCEPT ![u] = "done"]
            /\ cmd' = [cmd EXCEPT ![u] = "none"]
            /\ waiter' = [waiter EXCEPT ![u] = "none"]
            /\ born' = [born EXCEPT ![u] = 0]
            /\ UNCHANGED <<link, closer, counts>>
        BY <1>24, <2>2 DEF SendGranted, Ends, WaiterGone
      <3> QED BY <3>1, <1>z, <1>l DEF link, counts
    <2> QED BY <2>1, <2>2
  <1>25. ASSUME NEW u \in Users, Sent(u) PROVE TypeOK'
    BY <1>25, <1>l DEF Sent, link, counts
  <1>26. ASSUME NEW u \in Users, CommandFails(u) PROVE TypeOK'
    BY <1>26, <1>l DEF CommandFails, Ends, WaiterGone, link, counts
  <1>27. ASSUME NEW u \in Users, CommandSucceeds(u) PROVE TypeOK'
    BY <1>27, <1>l DEF CommandSucceeds, Watches, link, counts
  <1>28. ASSUME NEW u \in Users, WatchEnds(u) PROVE TypeOK'
    BY <1>28, <1>l DEF WatchEnds, Ends, WaiterGone, link, counts
  <1>29. ASSUME NEW u \in Users, CancelUser(u) PROVE TypeOK'
    BY <1>29, <1>l DEF CancelUser, Ends, WaiterGone, link, counts
  <1>30. ASSUME NEW u \in Users, Answer(u) PROVE TypeOK'
    <2>1. inbox' \in [Sockets -> Seq(Users \cup {"event"})]
      <3> DEFINE s == sentOn[u]
      <3>1. inbox' = [inbox EXCEPT ![s] = Append(inbox[s], u)]
        BY <1>30 DEF Answer
      <3> HIDE DEF s
      <3>2. CASE s \in Sockets
        <4>1. Append(inbox[s], u) \in Seq(Users \cup {"event"})
          BY <3>2, AppendProperties
        <4> QED BY <3>1, <4>1
      <3>3. CASE s \notin Sockets
        BY <3>1, <3>3
      <3> QED BY <3>2, <3>3
    <2> QED BY <1>30, <2>1, <1>l DEF Answer, counts
  <1>31. CASE StateChanges
    <2>1. inbox' \in [Sockets -> Seq(Users \cup {"event"})]
      <3>1. CASE inbox' = inbox
        BY <3>1
      <3>2. ASSUME NEW s \in Sockets,
                   inbox' = [inbox EXCEPT ![s] = Append(@, "event")]
            PROVE  inbox' \in [Sockets -> Seq(Users \cup {"event"})]
        <4>1. Append(inbox[s], "event") \in Seq(Users \cup {"event"})
          BY AppendProperties
        <4> QED BY <3>2, <4>1
      <3> QED BY <1>31, <3>1, <3>2 DEF StateChanges
    <2>2. events' \in 0..MaxEvents /\ missed' \in BOOLEAN
      <3>1. events < MaxEvents /\ events' = events + 1
            /\ missed' \in {missed, TRUE}
        BY <1>31 DEF StateChanges
      <3>2. events' \in 0..MaxEvents
        BY <3>1
      <3>3. missed' \in BOOLEAN
        BY <3>1
      <3> QED BY <3>2, <3>3
    <2> QED BY <1>31, <2>1, <2>2, <1>l DEF StateChanges, users
  <1>32. ASSUME NEW s \in Sockets, Breaks(s) PROVE TypeOK'
    BY <1>32, <1>l DEF Breaks, users, counts
  <1>33. ASSUME NEW s \in Sockets, Noticed(s) PROVE TypeOK'
    <2>1. <<>> \in Seq(Users \cup {"event"})
      BY EmptySeq
    <2>2. missed' \in BOOLEAN
      BY <1>33 DEF Noticed, HoldsEvent
    <2> QED BY <1>33, <2>1, <2>2, <1>l DEF Noticed, users
  <1> HIDE DEF TypeOK
  <1> QED
    BY <1>1, <1>2, <1>3, <1>4, <1>5, <1>6, <1>7, <1>8, <1>9, <1>10, <1>11,
       <1>12, <1>13, <1>14, <1>15, <1>16, <1>17, <1>18, <1>19, <1>20, <1>21,
       <1>22, <1>23, <1>24, <1>25, <1>26, <1>27, <1>28, <1>29, <1>30, <1>31,
       <1>32, <1>33
    DEF Next, RunStep, AdminStep, StopStep, UserStep, Environment, Closers

-----------------------------------------------------------------------------
(* The sessions.                                                           *)

\* What the other parts need to know of a teardown.
LEMMA NobodyElseShuts ==
  ASSUME Turns, NEW x \in Names, Leads(lock, x)
  PROVE  \A y \in Names : Has(y) => y = x
  BY HeadQueue DEF Turns

LEMMA ShuttingHas ==
  ASSUME Turns
  PROVE  Shutting <=> \/ run = "refused"
                      \/ \E c \in Closers : c \in Names /\ Has(c)
                         /\ closer[c] = "shutting"
  BY DEF Shutting, Has, Names

\* Steps that open and close nothing.
LEMMA SessionsKept ==
  ASSUME Sessions, UNCHANGED <<session, sock>>,
         run' \in {"opening", "auth"} => run \in {"opening", "auth"},
         run' \in {"connect", "queued", "backoff", "over"} =>
           run \in {"connect", "queued", "backoff", "over"} \/ session = 0,
         Shutting <=> Shutting'
  PROVE  Sessions'
  BY DEF Sessions

\* The teardown of the session, if there is one, by one that has the lock.
LEMMA TeardownShuts ==
  ASSUME TypeOK, Sessions, ~Shutting, NEW c, NEW queue, Teardown(c, queue),
         Shutting', run' \notin {"opening", "auth"}
  PROVE  Sessions'
  <1>1. session' = 0
        /\ sock' = [s \in Sockets |->
                      IF s = session THEN "closing" ELSE sock[s]]
    BY DEF Teardown
  <1>2. /\ \A s \in Sockets : sock[s] # "closing"
        /\ \A s \in Sockets :
             sock'[s] = IF s = session THEN "closing" ELSE sock[s]
    BY <1>1 DEF Sessions
  <1>3. \A s \in Sockets : s # 0
    BY DEF Sockets
  <1> QED BY <1>1, <1>2, <1>3 DEF Sessions

\* The end of the only teardown.
LEMMA ShutEnds ==
  ASSUME TypeOK, Sessions, Shutting, sock' = Shut, session' = session,
         run' \notin {"opening", "auth"}
  PROVE  Sessions'
  <1>1. \A s \in Sockets :
          sock'[s] = IF sock[s] = "closing" THEN "shut" ELSE sock[s]
    BY DEF Shut
  <1>2. session = 0
    BY DEF Sessions
  <1> QED BY <1>1, <1>2 DEF Sessions

\* A new session is opened only without an earlier one.
LEMMA OpensOne ==
  ASSUME TypeOK, Sessions, ~Shutting', session = 0, NEW queue,
         OpensSession(queue), ~Shutting
  PROVE  Sessions'
  <1>1. PICK s \in Sockets :
          /\ session' = s /\ sock[s] = "new" /\ run' = "opening"
          /\ sock' = [sock EXCEPT ![s] = "opening"]
    BY DEF OpensSession
  <1>2. \A r \in Sockets : sock'[r] = IF r = s THEN "opening" ELSE sock[r]
    BY <1>1 DEF TypeOK
  <1>3. s # 0 /\ \A r \in Sockets : r # 0
    BY DEF Sockets
  <1>4. \A r \in Sockets : sock[r] \in {"new", "shut"}
    BY <1>3 DEF Sessions
  <1>5. \A r \in Sockets : sock'[r] # "closing"
    BY <1>2, <1>4
  <1>6. \A r \in Sockets : sock'[r] \notin {"new", "shut", "closing"} <=>
        r = session'
    BY <1>1, <1>2, <1>4
  <1> QED BY <1>1, <1>3, <1>5, <1>6 DEF Sessions

\* The state of a socket in use changes to another state in use.
LEMMA SocketMoves ==
  ASSUME TypeOK, Sessions, NEW s \in Sockets,
         sock[s] \notin {"new", "shut", "closing"},
         NEW v, v \notin {"new", "shut", "closing"},
         sock' = [sock EXCEPT ![s] = v],
         session' = session,
         run' \in {"opening", "auth"} => run \in {"opening", "auth"},
         run' \in {"connect", "queued", "backoff", "over"} =>
           run \in {"connect", "queued", "backoff", "over"} \/ session = 0,
         Shutting <=> Shutting'
  PROVE  Sessions'
  <1>2. \A r \in Sockets : sock'[r] = IF r = s THEN v ELSE sock[r]
    BY DEF TypeOK
  <1> QED BY <1>2 DEF Sessions

LEMMA SessionsStay ==
  ASSUME TypeOK, Turns, Sessions, Next
  PROVE  Sessions'
  <1> USE HaLinkAssumption DEF Names, Closers
  <1>q. Queue(lock)
    BY DEF Turns
  <1>same. ASSUME UNCHANGED <<run, closer>> PROVE Shutting <=> Shutting'
    BY <1>same DEF Shutting
  <1>rest. ASSUME closer' = closer, run' # "refused", run # "refused"
           PROVE  Shutting <=> Shutting'
    BY <1>rest DEF Shutting
  <1>alone. ASSUME NEW x \in Names, Leads(lock, x), Shutting
            PROVE  Has(x) /\ (run = "refused" => x = "run")
                   /\ \A c \in Closers : closer[c] = "shutting" => x = c
    <2>1. \A y \in Names : Has(y) => y = x
      BY <1>alone, NobodyElseShuts
    <2> QED BY <2>1, <1>alone DEF Shutting, Has
  <1>free. ASSUME lock = <<>> PROVE ~Shutting
    <2>1. \A x \in Names : ~Has(x)
      BY <1>free, <1>q, HeadQueue DEF Turns
    <2> QED BY <2>1 DEF Shutting, Has
  <1>1. CASE Connect
    <2>1. CASE lock = <<>>
      <3>1. OpensSession(<<>>) /\ session = 0 /\ closer' = closer
        BY <1>1, <2>1 DEF Connect
      <3>2. ~Shutting /\ run' = "opening"
        BY <1>free, <2>1, <3>1 DEF OpensSession
      <3>3. ~Shutting'
        BY <3>1, <3>2 DEF Shutting
      <3> QED BY <3>1, <3>2, <3>3, OpensOne
    <2>2. CASE lock # <<>>
      BY <1>1, <2>2, <1>rest, SessionsKept DEF Connect
    <2> QED BY <2>1, <2>2
  <1>2. CASE ConnectGranted
    <2>1. OpensSession(Tail(lock)) /\ session = 0 /\ closer' = closer
          /\ run = "queued" /\ Head(lock) = "run"
      BY <1>2 DEF ConnectGranted
    <2>2. Leads(lock, "run")
      BY <2>1, <1>q, HeadQueue DEF Turns, Wants
    <2>3. run' = "opening"
      BY <2>1 DEF OpensSession
    <2>4. ~Has("run")
      BY <2>1 DEF Has, Turns
    <2>5. ~Shutting
      BY <2>2, <2>4, <1>alone
    <2>6. ~Shutting'
      BY <2>1, <2>3, <2>5 DEF Shutting
    <2> QED BY <2>1, <2>5, <2>6, OpensOne
  <1>3. CASE Unconfigured
    BY <1>3, <1>rest, SessionsKept DEF Unconfigured, Retrying
  <1>4. CASE Opened
    <2>1. session \in Sockets /\ sock[session] \notin {"new", "shut", "closing"}
      BY <1>4 DEF Opened, Sessions, TypeOK, Sockets
    <2>2. Shutting <=> Shutting'
      BY <1>4, <1>rest DEF Opened
    <2> QED BY <1>4, <2>1, <2>2, SocketMoves DEF Opened
  <1>5. CASE Connected
    <2>1. session \in Sockets /\ sock[session] \notin {"new", "shut", "closing"}
      BY <1>5 DEF Connected, Sessions, TypeOK, Sockets
    <2>2. Shutting <=> Shutting'
      BY <1>5, <1>rest DEF Connected
    <2> QED BY <1>5, <2>1, <2>2, SocketMoves DEF Connected
  <1>6. CASE Refused
    <2>1. Teardown("run", Tail(lock)) /\ run = "auth" /\ run' = "refused"
      BY <1>6 DEF Refused
    <2>2. Shutting' /\ ~Shutting
      BY <2>1 DEF Shutting, Sessions
    <2> QED BY <2>1, <2>2, TeardownShuts
  <1>7. CASE RefusedEnds
    <2>1. Shutting
      BY <1>7 DEF RefusedEnds, Shutting
    <2>2. run' \notin {"opening", "auth"}
      BY <1>7 DEF RefusedEnds, Retrying
    <2> QED BY <1>7, <2>1, <2>2, ShutEnds DEF RefusedEnds
  \* _close_session with a queue where nobody shuts.
  <1>closes. ASSUME NEW c \in Closers, NEW queue, CloseStarts(c, queue),
                    closer[c] # "shutting",
                    queue = <<>> => ~Shutting
                    /\ run' \notin {"opening", "auth"},
                    run' = run
                    \/ run \notin {"connect", "queued", "backoff", "over",
                       "refused"},
                    run' # run => run' = "closing"
             PROVE  Sessions'
    <2>1. CASE queue = <<>>
      <3>1. Teardown(c, <<>>) /\ closer' = [closer EXCEPT ![c] = "shutting"]
        BY <1>closes, <2>1 DEF CloseStarts
      <3>2. closer'[c] = "shutting"
        BY <3>1 DEF TypeOK
      <3>3. Shutting'
        BY <3>2 DEF Shutting
      <3> QED BY <3>1, <3>3, <1>closes, <2>1, TeardownShuts
    <2>2. CASE queue # <<>>
      <3>1. closer' = [closer EXCEPT ![c] = "waiting"] /\ UNCHANGED <<session,
            sock>>
        BY <1>closes, <2>2 DEF CloseStarts
      <3>2. Shutting <=> Shutting'
        BY <3>1, <1>closes DEF Shutting, TypeOK
      <3> QED BY <3>1, <3>2, <1>closes, SessionsKept
    <2> QED BY <2>1, <2>2
  <1>empty. ASSUME lock = <<>> PROVE ~Shutting /\ run \notin {"opening", "auth"}
    <2>1. \A x \in Names : ~Has(x)
      BY <1>empty, <1>q, HeadQueue DEF Turns
    <2> QED BY <2>1 DEF Shutting, Has
  <1>8. CASE ConnectRaises
    <2>1. /\ CloseStarts("run", Tail(lock)) /\ run \in {"opening", "auth"}
          /\ run' = "closing"
      BY <1>8 DEF ConnectRaises
    <2>2. ~Shutting /\ closer["run"] # "shutting"
      <3>1. session # 0
        BY <2>1 DEF Sessions
      <3> QED BY <3>1 DEF Sessions, Shutting
    <2> QED BY <2>1, <2>2, <1>closes
  <1>9. CASE BackoffEnds
    BY <1>9, <1>rest, SessionsKept DEF BackoffEnds
  <1>10. CASE Deliver
    BY <1>10, <1>rest, SessionsKept DEF Deliver
  <1>11. CASE ReceiveEnds
    <2>1. CASE running
      <3>1. CloseStarts("run", lock) /\ run = "receive" /\ run' = "closing"
        BY <1>11, <2>1 DEF ReceiveEnds
      <3>2. closer["run"] # "shutting"
        BY <3>1 DEF Turns
      <3> QED BY <3>1, <3>2, <1>closes, <1>empty
    <2>2. CASE ~running
      BY <1>11, <2>2, <1>rest, SessionsKept DEF ReceiveEnds
    <2> QED BY <2>1, <2>2
  <1>12. CASE Exit
    <2>1. CASE session # 0
      <3>1. CloseStarts("run", lock) /\ run = "exit" /\ run' = "closing"
        BY <1>12, <2>1 DEF Exit
      <3>2. closer["run"] # "shutting"
        BY <3>1 DEF Turns
      <3> QED BY <3>1, <3>2, <1>closes, <1>empty
    <2>2. CASE session = 0
      BY <1>12, <2>2, <1>rest, SessionsKept DEF Exit
    <2> QED BY <2>1, <2>2
  <1>13. ASSUME NEW c \in Closers, CloseGranted(c) PROVE Sessions'
    <2>1. /\ Teardown(c, Tail(lock)) /\ closer[c] = "waiting" /\ Head(lock) = c
          /\ closer' = [closer EXCEPT ![c] = "shutting"] /\ run' = run
      BY <1>13 DEF CloseGranted
    <2>2. InQueue(lock, c) /\ c \in Names
      <3>1. Wants(c)
        BY <2>1 DEF Wants, Turns
      <3> QED BY <3>1 DEF Turns
    <2>3. Leads(lock, c)
      BY <2>1, <2>2, <1>q, HeadQueue
    <2>4. \A y \in Names : Has(y) => y = c
      BY <2>3, <2>2, NobodyElseShuts
    <2>5. ~Shutting /\ run \notin {"opening", "auth"}
      BY <2>4, <2>1 DEF Shutting, Has, Turns
    <2>6. closer'[c] = "shutting"
      BY <2>1 DEF TypeOK
    <2>7. Shutting'
      BY <2>6 DEF Shutting
    <2> QED BY <2>1, <2>5, <2>7, TeardownShuts
  <1>14. CASE RunCloses
    <2>1. Shutting
      BY <1>14 DEF RunCloses, Shutting
    <2>2. run' \notin {"opening", "auth"}
      BY <1>14 DEF RunCloses, Retrying
    <2> QED BY <1>14, <2>1, <2>2, ShutEnds DEF RunCloses
  <1>15. CASE DropConnection
    <2>1. CloseStarts("admin", lock) /\ run' = run /\ closer["admin"] = "rest"
      BY <1>15 DEF DropConnection
    <2> QED BY <2>1, <1>closes, <1>empty
  \* Who shuts is not connecting.
  <1>shuts. ASSUME NEW c \in Closers, closer[c] = "shutting"
            PROVE  Shutting /\ run \notin {"opening", "auth"}
    <2>1. Shutting /\ session = 0
      BY <1>shuts DEF Shutting, Sessions
    <2> QED BY <2>1 DEF Sessions
  <1>16. CASE DropEnds
    BY <1>16, <1>shuts, ShutEnds DEF DropEnds
  <1>17. CASE Disconnect
    <2>1. CloseStarts("stopper", lock) /\ run' = run
          /\ closer["stopper"] = "rest"
      BY <1>17 DEF Disconnect
    <2> QED BY <2>1, <1>closes, <1>empty
  <1>18. CASE DisconnectEnds
    BY <1>18, <1>shuts, ShutEnds DEF DisconnectEnds
  <1>19. ASSUME NEW u \in Users,
           \/ Query(u) \/ CallService(u) \/ RestReturns(u) \/ RestFails(u)
           \/ RestUnsent(u) \/ SendGranted(u) \/ Sent(u) \/ CommandFails(u)
           \/ CommandSucceeds(u) \/ WatchEnds(u) \/ CancelUser(u) \/ Answer(u)
         PROVE  Sessions'
    <2>1. UNCHANGED <<run, session, sock, closer>>
      BY <1>19 DEF Query, CallService, RestReturns, RestFails, RestUnsent,
           SendGranted, Sent, CommandFails, CommandSucceeds, WatchEnds,
           CancelUser, Answer, link
    <2> QED BY <2>1, <1>same, SessionsKept
  <1>20. CASE StateChanges
    BY <1>20, <1>same, SessionsKept DEF StateChanges
  <1>21. ASSUME NEW s \in Sockets, Breaks(s) PROVE Sessions'
    BY <1>21, <1>same, SocketMoves DEF Breaks
  <1>22. ASSUME NEW s \in Sockets, Noticed(s) PROVE Sessions'
    BY <1>22, <1>same, SocketMoves DEF Noticed
  <1> QED
    BY <1>1, <1>2, <1>3, <1>4, <1>5, <1>6, <1>7, <1>8, <1>9, <1>10, <1>11,
       <1>12, <1>13, <1>14, <1>15, <1>16, <1>17, <1>18, <1>19, <1>20, <1>21,
       <1>22
    DEF Next, RunStep, AdminStep, StopStep, UserStep, Environment

-----------------------------------------------------------------------------
(* The order of the queue.                                                 *)

\* Who newly stands behind another has just asked for the lock: the
\* administrator while the client runs, a user while there is a session.
LEMMA OrderStays ==
  ASSUME TypeOK, Turns, Next,
         NEW x, NEW y, Before(lock', x, y), ~Before(lock, x, y)
  PROVE  /\ InQueue(lock, x)
         /\ y = "admin" => running
         /\ y \in Users => session # 0 /\ run' = run
  <1> USE HaLinkAssumption DEF Names, Closers
  <1>q. Queue(lock)
    BY DEF Turns
  <1>1. lock' # lock
    OBVIOUS
  <1>2. lock' # Tail(lock) \/ lock = <<>>
    BY <1>q, TailQueue
  <1>3. ASSUME NEW c, lock' = Without(lock, c) PROVE FALSE
    BY <1>3, <1>q, WithoutQueue
  <1>5. ASSUME NEW c \in Closers, lock' = <<c>> \o <<>> PROVE FALSE
    <2>1. <<c>> \in Seq(Names) /\ <<c>> \o <<>> = <<c>>
      BY ConcatEmptySeq
    <2>2. <<c>> \o <<>> = Append(<<>>, c) /\ c \in Names
      BY <2>1
    <2>3. ~InQueue(<<>>, c) /\ Queue(<<>>) /\ ~InQueue(<<>>, x)
          /\ ~Before(<<>>, x, y)
      BY NobodyInEmpty
    <2>4. ~Before(Append(<<>>, c), x, y)
      BY <2>2, <2>3, AppendQueue
    <2> QED BY <2>2, <2>4, <1>5
  <1>6. ASSUME NEW c \in Closers, lock # <<>>, Head(lock) = c,
               lock' = <<c>> \o Tail(lock)
        PROVE FALSE
    BY <1>6, <1>q, HeadQueue
  <1>appends. ASSUME NEW c \in Names, lock' = Append(lock, c), ~Wants(c)
        PROVE  InQueue(lock, x) /\ y = c
    <2>1. ~InQueue(lock, c)
      BY <1>appends DEF Turns
    <2> QED BY <2>1, <1>appends, <1>q, AppendQueue
  <1>closes. ASSUME NEW c \in Closers, CloseStarts(c, lock), ~Wants(c)
        PROVE  InQueue(lock, x) /\ y = c
    <2>1. ~InQueue(lock, c)
      BY <1>closes DEF Turns
    <2> QED BY <2>1, <1>closes, <1>q, CloseStartsQueue
  <1>sends. ASSUME NEW u \in Users, SendCommand(u), ~Wants(u)
        PROVE  InQueue(lock, x) /\ y = u
    BY <1>sends, <1>appends DEF SendCommand
  <1>10. CASE Connect
    <2>1. CASE lock = <<>>
      BY <2>1, <1>10, <1>5 DEF Connect, OpensSession
    <2>2. CASE lock # <<>>
      BY <2>2, <1>10, <1>appends DEF Connect, Wants, Turns
    <2> QED BY <2>1, <2>2
  <1>11. CASE ConnectGranted
    <2>1. run = "queued" /\ Head(lock) = "run"
          /\ lock' = <<"run">> \o Tail(lock)
      BY <1>11 DEF ConnectGranted, OpensSession
    <2>2. InQueue(lock, "run")
      BY <2>1 DEF Turns, Wants
    <2>3. lock # <<>>
      BY <2>2, <1>q, HeadQueue
    <2> QED BY <2>1, <2>3, <1>6
  <1>12. ASSUME NEW c, c \in Names, Leads(lock, c), lock' = Tail(lock)
         PROVE  FALSE
    BY <1>12, <1>q, HeadQueue, <1>2
  <1>13. CASE Connected \/ RefusedEnds
    BY <1>13, <1>12 DEF Connected, RefusedEnds, Turns, Has
  <1>14. CASE Refused
    <2>1. run = "auth" /\ lock' = <<"run">> \o Tail(lock)
      BY <1>14 DEF Refused, Teardown
    <2>2. Leads(lock, "run")
      BY <2>1 DEF Turns, Has
    <2> QED BY <2>1, <2>2, <1>6, <1>q, HeadQueue
  <1>15. CASE ConnectRaises
    <2>1. CloseStarts("run", Tail(lock)) /\ run \in {"opening", "auth"}
      BY <1>15 DEF ConnectRaises
    <2>2. Leads(lock, "run")
      BY <2>1 DEF Turns, Has
    <2>3. /\ Queue(Tail(lock))
          /\ \A z : InQueue(Tail(lock), z) <=> InQueue(lock, z)
             /\ ~Leads(lock, z)
          /\ \A z, w : Before(Tail(lock), z, w) => Before(lock, z, w)
      BY <2>2, <1>q, HeadQueue, TailQueue
    <2>4. Before(Tail(lock), x, y) \/ (InQueue(Tail(lock), x) /\ y = "run")
      BY <2>1, <2>2, <2>3, CloseStartsQueue
    <2> QED BY <2>3, <2>4
  <1>16. CASE ReceiveEnds
    BY <1>16, <1>1, <1>closes DEF ReceiveEnds, Wants
  <1>17. CASE Exit
    BY <1>17, <1>1, <1>closes DEF Exit, Wants
  <1>18. ASSUME NEW c \in Closers, CloseGranted(c) PROVE FALSE
    <2>1. closer[c] = "waiting" /\ Head(lock) = c /\ lock' = <<c>> \o Tail(lock)
      BY <1>18 DEF CloseGranted, Teardown
    <2>2. InQueue(lock, c)
      BY <2>1 DEF Turns, Wants
    <2>3. lock # <<>>
      BY <2>2, <1>q, HeadQueue
    <2> QED BY <2>1, <2>3, <1>6
  <1>19. CASE RunCloses \/ DropEnds
    BY <1>19, <1>12 DEF RunCloses, DropEnds, Turns, Has
  <1>20. CASE DropConnection
    BY <1>20, <1>closes DEF DropConnection, Wants
  <1>21. CASE Disconnect
    BY <1>21, <1>closes DEF Disconnect, Wants
  <1>22. CASE DisconnectEnds
    <2>1. closer["stopper"] = "shutting" /\ lock' = Without(Tail(lock), "run")
      BY <1>22 DEF DisconnectEnds
    <2>2. Leads(lock, "stopper")
      BY <2>1 DEF Turns, Has
    <2>3. /\ Queue(Tail(lock))
          /\ \A z, w : Before(Tail(lock), z, w) => Before(lock, z, w)
      BY <2>2, <1>q, HeadQueue, TailQueue
    <2> QED BY <2>1, <2>3, WithoutQueue
  <1>23. ASSUME NEW u \in Users, Query(u)
         PROVE  InQueue(lock, x) /\ y = u /\ session # 0 /\ run' = run
    BY <1>23, <1>1, <1>sends DEF Query, Wants, Usable, TypeOK, link
  <1>24. ASSUME NEW u \in Users, RestUnsent(u)
         PROVE  InQueue(lock, x) /\ y = u /\ session # 0 /\ run' = run
    BY <1>24, <1>1, <1>sends DEF RestUnsent, Wants, IsConnected, Usable,
       TypeOK, link
  <1>25. ASSUME NEW u \in Users, SendGranted(u) PROVE FALSE
    <2>1. Leads(lock, u)
      <3>1. InQueue(lock, u) /\ Head(lock) = u
        BY <1>25 DEF SendGranted, Turns, Wants
      <3> QED BY <3>1, <1>q, HeadQueue
    <2> QED BY <2>1, <1>25, <1>12, <1>1 DEF SendGranted
  <1>26. ASSUME NEW u \in Users, Sent(u) \/ CommandFails(u) PROVE FALSE
    BY <1>26, <1>12, <1>1 DEF Sent, CommandFails, Turns, Has
  <1>27. ASSUME NEW u \in Users, CancelUser(u) PROVE FALSE
    BY <1>27, <1>3 DEF CancelUser
  <1>28. ASSUME NEW u \in Users,
           \/ CallService(u) \/ RestReturns(u) \/ RestFails(u)
           \/ CommandSucceeds(u) \/ WatchEnds(u) \/ Answer(u)
         PROVE  FALSE
    BY <1>28, <1>1 DEF CallService, RestReturns, RestFails, CommandSucceeds,
       WatchEnds, Answer
  <1>29. CASE Unconfigured \/ Opened \/ BackoffEnds \/ Deliver \/ StateChanges
    BY <1>29, <1>1 DEF Unconfigured, Opened, BackoffEnds, Deliver, StateChanges
  <1>30. ASSUME NEW s \in Sockets, Breaks(s) \/ Noticed(s) PROVE FALSE
    BY <1>30, <1>1 DEF Breaks, Noticed
  <1> QED
    BY <1>10, <1>11, <1>13, <1>14, <1>15, <1>16, <1>17, <1>18, <1>19, <1>20,
       <1>21, <1>22, <1>23, <1>24, <1>25, <1>26, <1>27, <1>28, <1>29, <1>30
    DEF Next, RunStep, AdminStep, StopStep, UserStep, Environment

-----------------------------------------------------------------------------
(* The shutdown and the changes of the settings.                           *)

LEMMA CloserOf ==
  ASSUME TypeOK, NEW c \in Closers, NEW queue, CloseStarts(c, queue)
  PROVE  \A d \in Closers :
           closer'[d] = IF d # c THEN closer[d]
                        ELSE IF queue = <<>> THEN "shutting" ELSE "waiting"
  BY DEF CloseStarts, TypeOK

\* How a step may move running and the closers of the administrator and the
\* shutdown.
ClosersMove ==
  /\ running' => running
  /\ \/ closer'["admin"] \in {closer["admin"], "rest"}
     \/ closer["admin"] = "waiting"
     \/ running /\ running'
  /\ closer'["stopper"] = "over" =>
       \/ closer["stopper"] = "over"
       \/ closer["stopper"] = "shutting" /\ closer'["admin"] = closer["admin"]
  /\ closer["stopper"] = "rest" => closer'["stopper"] = "rest" \/ ~running'
  /\ closer["stopper"] = "over" => closer'["stopper"] = "over"

LEMMA ClosersMoveSo ==
  ASSUME TypeOK, Next
  PROVE  ClosersMove
  <1> USE DEF Closers
  <1>1. ASSUME UNCHANGED <<closer, running>> PROVE ClosersMove
    BY <1>1 DEF ClosersMove
  <1>2. ASSUME NEW c \in {"run", "admin"}, NEW queue, CloseStarts(c, queue),
               c = "admin" => running, running' = running
        PROVE  ClosersMove
    BY <1>2, CloserOf DEF TypeOK, ClosersMove
  <1>3. CASE ConnectRaises
    <2>1. CloseStarts("run", Tail(lock)) /\ running' = running
      BY <1>3 DEF ConnectRaises
    <2> QED BY <2>1, <1>2
  <1>4. CASE ReceiveEnds
    <2>1. running' = running /\ (CloseStarts("run", lock) \/ closer' = closer)
      BY <1>4 DEF ReceiveEnds
    <2> QED BY <2>1, <1>1, <1>2
  <1>5. CASE Exit
    <2>1. running' = running /\ (CloseStarts("run", lock) \/ closer' = closer)
      BY <1>5 DEF Exit
    <2> QED BY <2>1, <1>1, <1>2
  <1>6. CASE RunCloses \/ DropEnds
    BY <1>6 DEF RunCloses, DropEnds, TypeOK, ClosersMove
  <1>7. CASE DropConnection
    <2>1. CloseStarts("admin", lock) /\ running /\ running' = running
      BY <1>7 DEF DropConnection
    <2> QED BY <2>1, <1>2
  <1>8. CASE Disconnect
    <2>1. CloseStarts("stopper", lock) /\ ~running'
          /\ closer["stopper"] = "rest"
      BY <1>8 DEF Disconnect
    <2>2. closer'["admin"] = closer["admin"] /\ closer'["stopper"] # "over"
      BY <2>1, CloserOf
    <2> QED BY <2>1, <2>2 DEF ClosersMove
  <1>9. CASE DisconnectEnds
    BY <1>9 DEF DisconnectEnds, TypeOK, ClosersMove
  <1>10. ASSUME NEW c \in Closers, CloseGranted(c) PROVE ClosersMove
    <2>1. /\ running' = running /\ closer[c] = "waiting"
          /\ closer' = [closer EXCEPT ![c] = "shutting"]
      BY <1>10 DEF CloseGranted
    <2> QED BY <2>1 DEF TypeOK, ClosersMove
  <1>11. CASE Connect \/ ConnectGranted \/ Unconfigured \/ Opened \/ Connected
              \/ Refused \/ RefusedEnds \/ BackoffEnds \/ Deliver
              \/ StateChanges
    BY <1>11, <1>1
    DEF Connect, ConnectGranted, Unconfigured, Opened, Connected, Refused,
        RefusedEnds, BackoffEnds, Deliver, StateChanges
  <1>12. ASSUME NEW u \in Users,
           \/ Query(u) \/ CallService(u) \/ RestReturns(u) \/ RestFails(u)
           \/ RestUnsent(u) \/ SendGranted(u) \/ Sent(u) \/ CommandFails(u)
           \/ CommandSucceeds(u) \/ WatchEnds(u) \/ CancelUser(u) \/ Answer(u)
         PROVE  ClosersMove
    BY <1>12, <1>1
    DEF Query, CallService, RestReturns, RestFails, RestUnsent, SendGranted,
        Sent, CommandFails, CommandSucceeds, WatchEnds, CancelUser, Answer, link
  <1>13. ASSUME NEW s \in Sockets, Breaks(s) \/ Noticed(s) PROVE ClosersMove
    BY <1>13, <1>1 DEF Breaks, Noticed
  <1> QED
    BY <1>3, <1>4, <1>5, <1>6, <1>7, <1>8, <1>9, <1>10, <1>11, <1>12, <1>13
    DEF Next, RunStep, AdminStep, StopStep, UserStep, Environment

LEMMA StoppedStays ==
  ASSUME TypeOK, Turns, Stopped, Next
  PROVE  Stopped'
  <1> USE HaLinkAssumption DEF Names, Closers
  <1>1. closer'["stopper"] # "rest" => ~running'
    BY ClosersMoveSo DEF ClosersMove, Stopped
  <1>2. ~Before(lock', "stopper", "admin")
    <2> SUFFICES ASSUME Before(lock', "stopper", "admin") PROVE FALSE
      OBVIOUS
    <2>1. InQueue(lock, "stopper") /\ running
      BY OrderStays DEF Stopped
    <2>2. Wants("stopper")
      BY <2>1 DEF Turns
    <2> QED BY <2>1, <2>2 DEF Wants, Stopped
  <1>3. ASSUME closer'["stopper"] = "over" PROVE closer'["admin"] = "rest"
    <2>1. CASE closer["stopper"] = "over"
      BY <2>1, ClosersMoveSo DEF ClosersMove, Stopped
    <2>2. CASE closer["stopper"] = "shutting"
          /\ closer'["admin"] = closer["admin"]
      <3>1. Leads(lock, "stopper")
        BY <2>2 DEF Turns, Has
      <3>2. ~InQueue(lock, "admin")
        BY <3>1, HeadQueue DEF Turns, Stopped
      <3>3. ~Wants("admin") /\ closer["admin"] # "over"
        BY <3>2 DEF Turns
      <3> QED BY <2>2, <3>3 DEF Wants, TypeOK
    <2> QED BY <1>3, <2>1, <2>2, ClosersMoveSo DEF ClosersMove
  <1> QED BY <1>1, <1>2, <1>3 DEF Stopped

-----------------------------------------------------------------------------
(* The commands.                                                           *)

CommandsOf(u) ==
  /\ pc[u] = "queued" /\ session # 0 => cmd[u] \in {"open", "ok"}
  /\ pc[u] = "sending" => cmd[u] \in {"open", "ok"}
  /\ pc[u] \in {"sending", "awaiting"} /\ cmd[u] = "open" =>
       attached /\ session = sentOn[u]

LEMMA CommandsAre ==
  Commands <=> /\ \A u \in Users : run = "queued" => ~Before(lock, "run", u)
               /\ \A u \in Users : CommandsOf(u)
  BY DEF Commands, CommandsFollowTheirSocket, CommandsOf

\* A step that leaves a command and the session alone, or ends the command.
LEMMA CommandKept ==
  ASSUME NEW u \in Users, CommandsOf(u),
         \/ pc'[u] = pc[u] /\ sentOn'[u] = sentOn[u]
            /\ (cmd'[u] = cmd[u] \/ (cmd[u] = "open" /\ cmd'[u] = "ok"))
         \/ pc'[u] \notin {"queued", "sending", "awaiting"},
         session' = session, attached => attached'
  PROVE  CommandsOf(u)'
  BY DEF CommandsOf

\* A teardown by one that has the lock.
LEMMA TeardownCommands ==
  ASSUME TypeOK, NEW u \in Users, pc[u] # "sending", CommandsOf(u),
         NEW c, NEW queue, Teardown(c, queue), pc' = pc
  PROVE  CommandsOf(u)'
  <1>1. session' = 0 /\ cmd'[u] # "open"
    BY DEF Teardown
  <1> QED BY <1>1 DEF CommandsOf

LEMMA CloseStartsCommands ==
  ASSUME TypeOK, NEW u \in Users, CommandsOf(u), NEW c \in Closers, NEW queue,
         CloseStarts(c, queue), queue = <<>> => pc[u] # "sending",
         pc' = pc, sentOn' = sentOn
  PROVE  CommandsOf(u)'
  <1>1. CASE queue = <<>>
    <2>1. Teardown(c, <<>>)
      BY <1>1 DEF CloseStarts
    <2> QED BY <1>1, <2>1, TeardownCommands
  <1>2. CASE queue # <<>>
    BY <1>2, CommandKept DEF CloseStarts
  <1> QED BY <1>1, <1>2

\* A new session, when nobody is in the queue.
LEMMA OpensCommands ==
  ASSUME TypeOK, NEW u \in Users, CommandsOf(u), session = 0,
         pc[u] \notin {"queued", "sending"}, UNCHANGED <<pc, cmd, sentOn>>
  PROVE  CommandsOf(u)'
  BY DEF CommandsOf, TypeOK

LEMMA SendCommands ==
  ASSUME TypeOK, NEW u \in Users, CommandsOf(u), NEW v \in Users,
         SendCommand(v), Usable, UNCHANGED link
  PROVE  CommandsOf(u)'
  <1>0. attached /\ session # 0
    BY DEF Usable, TypeOK
  <1>1. CASE u = v
    <2>1. cmd'[u] = "open"
      BY <1>1 DEF SendCommand, TypeOK
    <2>2. CASE lock = <<>>
      <3>1. pc'[u] = "sending" /\ sentOn'[u] = session
        BY <1>1, <2>2 DEF SendCommand, Transmits, TypeOK
      <3> QED BY <1>0, <2>1, <3>1 DEF CommandsOf, link
    <2>3. CASE lock # <<>>
      <3>1. pc'[u] = "queued"
        BY <1>1, <2>3 DEF SendCommand, TypeOK
      <3> QED BY <1>0, <2>1, <3>1 DEF CommandsOf, link
    <2> QED BY <2>2, <2>3
  <1>2. CASE u # v
    <2>1. pc'[u] = pc[u] /\ cmd'[u] = cmd[u] /\ sentOn'[u] = sentOn[u]
      BY <1>2 DEF SendCommand, Transmits, TypeOK
    <2> QED BY <2>1, CommandKept DEF link
  <1> QED BY <1>1, <1>2

LEMMA CommandsStay ==
  ASSUME TypeOK, Turns, Sessions, Commands, Next
  PROVE  Commands'
  <1> USE HaLinkAssumption DEF Names, Closers
  <1>q. Queue(lock)
    BY DEF Turns
  <1>o. ASSUME NEW u \in Users, run' = "queued" PROVE ~Before(lock', "run", u)
    <2> SUFFICES ASSUME Before(lock', "run", u) PROVE FALSE
      OBVIOUS
    <2>1. CASE run = "queued"
      <3>1. session = 0 /\ ~Before(lock, "run", u)
        BY <2>1 DEF Sessions, Commands
      <3> QED BY <3>1, OrderStays
    <2>2. CASE run # "queued"
      <3>1. InQueue(lock, "run")
        <4>1. CASE Before(lock, "run", u)
          BY <4>1, <1>q, HeadQueue
        <4>2. CASE ~Before(lock, "run", u)
          BY <4>2, OrderStays
        <4> QED BY <4>1, <4>2
      <3>2. Wants("run")
        BY <3>1 DEF Turns
      <3>3. run \in {"opening", "auth", "refused", "closing"}
        BY <3>2, <2>2 DEF Wants
      <3>4. run = "connect"
        <4>1. CASE Connect
          BY <4>1 DEF Connect
        <4>2. ~Connect => run' # "queued" \/ run' = run
          BY DEF Next, RunStep, AdminStep, StopStep, UserStep, Environment,
             Connect, ConnectGranted, OpensSession, Unconfigured, Retrying,
             Opened, Connected, Refused,
             RefusedEnds, ConnectRaises, BackoffEnds, Deliver, ReceiveEnds,
             Exit, CloseGranted, RunCloses,
             DropConnection, DropEnds, Disconnect, DisconnectEnds, StateChanges,
             Query, CallService, RestReturns, RestFails, RestUnsent,
             SendGranted, Sent, CommandFails, CommandSucceeds, WatchEnds,
             CancelUser, Answer, link, Breaks, Noticed
        <4> QED BY <2>2, <1>o, <4>1, <4>2
      <3> QED BY <3>3, <3>4
    <2> QED BY <2>1, <2>2
  <1>s. SUFFICES ASSUME NEW u \in Users PROVE CommandsOf(u)'
    BY <1>o, CommandsAre DEF CommandsOf, Commands, CommandsFollowTheirSocket
  <1>c. CommandsOf(u)
    BY CommandsAre
  <1>lead. ASSUME NEW x \in Names, Leads(lock, x), x # u PROVE pc[u] # "sending"
    BY <1>lead, NobodyElseShuts DEF Has
  <1>free. ASSUME lock = <<>> PROVE pc[u] \notin {"queued", "sending"}
    BY <1>free, <1>q, HeadQueue DEF Turns, Wants
  <1>1. CASE Connect
    <2>1. CASE lock = <<>>
      BY <1>1, <2>1, <1>free, <1>c, OpensCommands DEF Connect, users
    <2>2. CASE lock # <<>>
      BY <1>1, <2>2, <1>c, CommandKept DEF Connect, users
    <2> QED BY <2>1, <2>2
  <1>2. CASE ConnectGranted
    <2>1. run = "queued" /\ Head(lock) = "run" /\ session = 0
      BY <1>2 DEF ConnectGranted
    <2>2. Leads(lock, "run")
      BY <2>1, <1>q, HeadQueue DEF Turns, Wants
    <2>3. ~InQueue(lock, u)
      BY <2>1, <2>2, <1>q, HeadQueue DEF Commands
    <2>4. pc[u] \notin {"queued", "sending"}
      BY <2>3 DEF Turns, Wants
    <2> QED BY <1>2, <2>1, <2>4, <1>c, OpensCommands DEF ConnectGranted, users
  <1>3. CASE Unconfigured \/ Opened \/ Connected \/ RefusedEnds \/ BackoffEnds
             \/ RunCloses \/ DropEnds
    BY <1>3, <1>c, CommandKept
    DEF Unconfigured, Opened, Connected, RefusedEnds, BackoffEnds, RunCloses,
        DropEnds, users
  <1>4. CASE Refused
    <2>1. Leads(lock, "run")
      BY <1>4 DEF Refused, Turns, Has
    <2>2. pc[u] # "sending"
      BY <2>1, <1>lead
    <2> QED BY <1>4, <2>2, <1>c, TeardownCommands DEF Refused
  <1>5. CASE ConnectRaises
    <2>1. Leads(lock, "run")
      BY <1>5 DEF ConnectRaises, Turns, Has
    <2>2. pc[u] # "sending"
      BY <2>1, <1>lead
    <2> QED BY <1>5, <2>2, <1>c, CloseStartsCommands DEF ConnectRaises
  <1>6. CASE Deliver
    BY <1>6, <1>c, CommandKept DEF Deliver, TypeOK
  <1>7. CASE ReceiveEnds
    <2>1. CASE running
      BY <1>7, <2>1, <1>c, <1>free, CloseStartsCommands DEF ReceiveEnds
    <2>2. CASE ~running
      BY <1>7, <2>2, <1>c, CommandKept DEF ReceiveEnds
    <2> QED BY <2>1, <2>2
  <1>8. CASE Exit
    <2>1. CASE session # 0
      BY <1>8, <2>1, <1>c, <1>free, CloseStartsCommands DEF Exit
    <2>2. CASE session = 0
      BY <1>8, <2>2, <1>c, CommandKept DEF Exit
    <2> QED BY <2>1, <2>2
  <1>9. ASSUME NEW c \in Closers, CloseGranted(c) PROVE CommandsOf(u)'
    <2>1. InQueue(lock, c) /\ Head(lock) = c
      BY <1>9 DEF CloseGranted, Turns, Wants
    <2>2. Leads(lock, c)
      BY <2>1, <1>q, HeadQueue
    <2>3. pc[u] # "sending"
      BY <2>2, <1>lead
    <2> QED BY <1>9, <2>3, <1>c, TeardownCommands DEF CloseGranted
  <1>10. CASE DropConnection
    BY <1>10, <1>c, <1>free, CloseStartsCommands DEF DropConnection
  <1>11. CASE Disconnect
    BY <1>11, <1>c, <1>free, CloseStartsCommands DEF Disconnect
  <1>12. CASE DisconnectEnds
    BY <1>12, <1>c, CommandKept DEF DisconnectEnds
  <1>13. ASSUME NEW v \in Users, Query(v) PROVE CommandsOf(u)'
    <2>1. CASE Usable
      BY <1>13, <2>1, <1>c, SendCommands DEF Query
    <2>2. CASE ~Usable
      BY <1>13, <2>2, <1>c, CommandKept DEF Query, Ends, link, TypeOK
    <2> QED BY <2>1, <2>2
  <1>14. ASSUME NEW v \in Users, RestUnsent(v) PROVE CommandsOf(u)'
    BY <1>14, <1>c, SendCommands DEF RestUnsent, IsConnected
  <1>15. ASSUME NEW v \in Users, CallService(v) \/ RestReturns(v)
                \/ RestFails(v)
                  \/ CommandSucceeds(v) \/ WatchEnds(v)
         PROVE  CommandsOf(u)'
    <2>1. pc'[u] = pc[u] \/ pc'[u] \notin {"queued", "sending", "awaiting"}
      BY <1>15 DEF CallService, RestReturns, RestFails, CommandSucceeds,
         WatchEnds,
         Watches, Ends, TypeOK
    <2>2. UNCHANGED <<cmd, sentOn, session, attached>>
      BY <1>15 DEF CallService, RestReturns, RestFails, CommandSucceeds,
         WatchEnds, link
    <2> QED BY <2>1, <2>2, <1>c, CommandKept
  <1>16. ASSUME NEW v \in Users, SendGranted(v) PROVE CommandsOf(u)'
    <2>1. CASE Usable
      <3>1. attached /\ session # 0 /\ pc[v] = "queued"
        BY <1>16, <2>1 DEF Usable, TypeOK, SendGranted
      <3>2. /\ pc' = [pc EXCEPT ![v] = "sending"]
            /\ sentOn' = [sentOn EXCEPT ![v] = session]
            /\ UNCHANGED <<cmd, session, attached>>
        BY <1>16, <2>1 DEF SendGranted, Transmits, link
      <3>3. CASE u = v
        BY <3>1, <3>2, <3>3, <1>c DEF CommandsOf, TypeOK
      <3>4. CASE u # v
        BY <3>1, <3>2, <3>4, <1>c, CommandKept DEF TypeOK
      <3> QED BY <3>3, <3>4
    <2>2. CASE ~Usable
      <3>1. /\ pc' = [pc EXCEPT ![v] = "done"]
            /\ cmd' = [cmd EXCEPT ![v] = "none"]
            /\ UNCHANGED <<sentOn, session, attached>>
        BY <1>16, <2>2 DEF SendGranted, Ends, link
      <3> QED BY <3>1, <1>c, CommandKept DEF TypeOK
    <2> QED BY <2>1, <2>2
  <1>17. ASSUME NEW v \in Users, Sent(v) PROVE CommandsOf(u)'
    <2>1. /\ pc[v] = "sending" /\ pc' = [pc EXCEPT ![v] = "awaiting"]
          /\ UNCHANGED <<cmd, sentOn, session, attached>>
      BY <1>17 DEF Sent, link
    <2> QED BY <2>1, <1>c DEF CommandsOf, TypeOK
  <1>18. ASSUME NEW v \in Users, CommandFails(v) \/ CancelUser(v)
         PROVE  CommandsOf(u)'
    <2>1. /\ pc' = [pc EXCEPT ![v] = "done"]
          /\ cmd' = [cmd EXCEPT ![v] = "none"]
          /\ UNCHANGED <<sentOn, session, attached>>
      BY <1>18 DEF CommandFails, CancelUser, Ends, link
    <2> QED BY <2>1, <1>c, CommandKept DEF TypeOK
  <1>19. ASSUME NEW v \in Users, Answer(v) PROVE CommandsOf(u)'
    BY <1>19, <1>c, CommandKept DEF Answer
  <1>20. CASE StateChanges
    BY <1>20, <1>c, CommandKept DEF StateChanges, users
  <1>21. ASSUME NEW s \in Sockets, Breaks(s) \/ Noticed(s) PROVE CommandsOf(u)'
    BY <1>21, <1>c, CommandKept DEF Breaks, Noticed, users
  <1> QED
    BY <1>1, <1>2, <1>3, <1>4, <1>5, <1>6, <1>7, <1>8, <1>9, <1>10, <1>11,
       <1>12, <1>13, <1>14, <1>15, <1>16, <1>17, <1>18, <1>19, <1>20, <1>21
    DEF Next, RunStep, AdminStep, StopStep, UserStep, Environment

-----------------------------------------------------------------------------
(* The state waiters.                                                      *)

WaiterOf(u) ==
  /\ (\E c \in Closers : closer[c] = "waiting") /\ waiter[u] = "open" =>
       born[u] = 0
  /\ waiter[u] = "open" /\ born[u] # 0 => attached /\ session = born[u]

LEMMA WaitersAre == Waiters <=> \A u \in Users : WaiterOf(u)
  BY DEF Waiters, WaitersFallWithTheirSocket, WaiterOf

\* A step after which no waiter is open that was not, and with no new teardown
\* waiting, while the client keeps its session.
LEMMA WaiterKept ==
  ASSUME NEW u \in Users, WaiterOf(u),
         waiter'[u] = "open" => waiter[u] = "open" /\ born'[u] = born[u],
         \A c \in Closers : closer'[c] = "waiting" => closer[c] = "waiting",
         \/ session' = session /\ (attached => attached')
         \/ ~attached
         \/ \E c \in Closers : closer[c] = "waiting"
  PROVE  WaiterOf(u)'
  BY DEF WaiterOf

LEMMA WaiterFell ==
  ASSUME NEW u \in Users, WaitersReset
  PROVE  WaiterOf(u)'
  BY DEF WaitersReset, WaiterOf

LEMMA WaitersStay ==
  ASSUME TypeOK, Turns, Sessions, Waiters, Next
  PROVE  Waiters'
  <1> USE HaLinkAssumption DEF Closers
  <1>s. SUFFICES ASSUME NEW u \in Users PROVE WaiterOf(u)'
    BY DEF WaiterOf, Waiters, WaitersFallWithTheirSocket
  <1>c. WaiterOf(u)
    BY WaitersAre
  <1>1. CASE Connect \/ ConnectGranted
    <2>1. session = 0 /\ UNCHANGED <<closer, waiter, born>>
      BY <1>1 DEF Connect, ConnectGranted, users
    <2>2. ~attached
      BY <2>1 DEF TypeOK
    <2> QED BY <2>1, <2>2, <1>c, WaiterKept
  <1>2. CASE Unconfigured \/ Opened \/ Connected \/ RefusedEnds \/ BackoffEnds
    BY <1>2, <1>c, WaiterKept
    DEF Unconfigured, Opened, Connected, RefusedEnds, BackoffEnds, users
  <1>3. CASE Refused
    BY <1>3, WaiterFell DEF Refused
  <1>4. CASE ConnectRaises \/ DropConnection \/ Disconnect
    BY <1>4, WaiterFell DEF ConnectRaises, DropConnection, Disconnect,
       CloseStarts
  <1>5. CASE ReceiveEnds
    <2>1. CASE running
      BY <1>5, <2>1, WaiterFell DEF ReceiveEnds, CloseStarts
    <2>2. CASE ~running
      BY <1>5, <2>2, <1>c, WaiterKept DEF ReceiveEnds
    <2> QED BY <2>1, <2>2
  <1>6. CASE Exit
    <2>1. CASE session # 0
      BY <1>6, <2>1, WaiterFell DEF Exit, CloseStarts
    <2>2. CASE session = 0
      BY <1>6, <2>2, <1>c, WaiterKept DEF Exit
    <2> QED BY <2>1, <2>2
  <1>7. CASE Deliver
    <2>1. waiter'[u] = "open" => waiter[u] = "open"
      BY <1>7 DEF Deliver
    <2> QED BY <1>7, <2>1, <1>c, WaiterKept DEF Deliver
  <1>8. ASSUME NEW c \in Closers, CloseGranted(c) PROVE WaiterOf(u)'
    <2>1. /\ closer[c] = "waiting"
          /\ closer' = [closer EXCEPT ![c] = "shutting"]
          /\ UNCHANGED <<waiter, born>>
      BY <1>8 DEF CloseGranted
    <2>2. \A d \in Closers : closer'[d] = "waiting" => closer[d] = "waiting"
      BY <2>1 DEF TypeOK
    <2> QED BY <2>1, <2>2, <1>c, WaiterKept
  <1>9. CASE RunCloses \/ DropEnds
    <2>1. \A d \in Closers : closer'[d] = "waiting" => closer[d] = "waiting"
      BY <1>9 DEF RunCloses, DropEnds, TypeOK
    <2>2. UNCHANGED <<waiter, born, session, attached>>
      BY <1>9 DEF RunCloses, DropEnds, users
    <2> QED BY <2>1, <2>2, <1>c, WaiterKept
  <1>10. CASE DisconnectEnds
    <2>1. \A d \in Closers : closer'[d] = "waiting" => closer[d] = "waiting"
      BY <1>10 DEF DisconnectEnds, TypeOK
    <2>2. UNCHANGED <<born, session, attached>>
          /\ (waiter'[u] = "open" => waiter[u] = "open")
      BY <1>10 DEF DisconnectEnds, WaitersReset
    <2> QED BY <2>1, <2>2, <1>c, WaiterKept
  <1>11. ASSUME NEW v \in Users, CallService(v) PROVE WaiterOf(u)'
    <2>1. UNCHANGED <<closer, session, attached>>
      BY <1>11 DEF CallService, link
    <2>2. CASE u = v
      <3>1. waiter'[u] = "open" => attached
        BY <1>11, <2>2 DEF CallService, TypeOK, IsConnected, Usable
      <3>2. /\ (\E c \in Closers : closer[c] = "waiting") => born'[u] = 0
            /\ born'[u] \in {0, session}
        BY <1>11, <2>2 DEF CallService, TypeOK
      <3> QED BY <2>1, <3>1, <3>2 DEF WaiterOf
    <2>3. CASE u # v
      <3>1. waiter'[u] = waiter[u] /\ born'[u] = born[u]
        BY <1>11, <2>3 DEF CallService, TypeOK
      <3> QED BY <2>1, <3>1, <1>c, WaiterKept
    <2> QED BY <2>2, <2>3
  <1>12. ASSUME NEW v \in Users,
           \/ Query(v) \/ RestReturns(v) \/ RestFails(v) \/ RestUnsent(v)
           \/ SendGranted(v) \/ Sent(v) \/ CommandFails(v) \/ CommandSucceeds(v)
           \/ WatchEnds(v) \/ CancelUser(v) \/ Answer(v)
         PROVE  WaiterOf(u)'
    <2>1. UNCHANGED <<closer, session, attached>>
      BY <1>12 DEF Query, RestReturns, RestFails, RestUnsent, SendGranted, Sent,
         CommandFails, CommandSucceeds, WatchEnds, CancelUser, Answer, link
    <2>2. \/ UNCHANGED <<waiter, born>>
          \/ WaiterGone(v)
      BY <1>12 DEF Query, RestReturns, RestFails, RestUnsent, SendGranted, Sent,
         CommandFails, CommandSucceeds, WatchEnds, CancelUser, Answer
    <2>3. waiter'[u] = "open" => waiter[u] = "open" /\ born'[u] = born[u]
      BY <2>2 DEF WaiterGone, TypeOK
    <2> QED BY <2>1, <2>3, <1>c, WaiterKept
  <1>13. CASE StateChanges
    BY <1>13, <1>c, WaiterKept DEF StateChanges, users
  <1>14. ASSUME NEW s \in Sockets, Breaks(s) \/ Noticed(s) PROVE WaiterOf(u)'
    BY <1>14, <1>c, WaiterKept DEF Breaks, Noticed, users
  <1> QED
    BY <1>1, <1>2, <1>3, <1>4, <1>5, <1>6, <1>7, <1>8, <1>9, <1>10, <1>11,
       <1>12, <1>13, <1>14
    DEF Next, RunStep, AdminStep, StopStep, UserStep, Environment

-----------------------------------------------------------------------------
(* Lost events.                                                            *)

LEMMA GapKept ==
  ASSUME Gap, missed' = missed,
         \A s \in Sockets : sock'[s] = "open" => sock[s] = "open"
  PROVE  Gap'
  BY DEF Gap

\* After a teardown no socket is open.
LEMMA TeardownGap ==
  ASSUME TypeOK, Sessions, NEW c, NEW queue, Teardown(c, queue)
  PROVE  Gap'
  <1>1. \A s \in Sockets : sock'[s] # "open"
    BY DEF Teardown, Sessions
  <1> QED BY <1>1 DEF Gap

LEMMA CloseStartsGap ==
  ASSUME TypeOK, Sessions, Gap, NEW c \in Closers, NEW queue,
         CloseStarts(c, queue)
  PROVE  Gap'
  <1>1. CASE queue = <<>>
    BY <1>1, TeardownGap DEF CloseStarts
  <1>2. CASE queue # <<>>
    BY <1>2, GapKept DEF CloseStarts
  <1> QED BY <1>1, <1>2

LEMMA GapStays ==
  ASSUME TypeOK, Turns, Sessions, Gap, Next
  PROVE  Gap'
  <1> USE HaLinkAssumption DEF Closers
  <1>1. CASE Connect \/ ConnectGranted
    <2>1. \A s \in Sockets : sock'[s] = "open" => sock[s] = "open"
      BY <1>1 DEF Connect, ConnectGranted, OpensSession, TypeOK
    <2>2. missed' = missed
      BY <1>1 DEF Connect, ConnectGranted, counts
    <2> QED BY <2>1, <2>2, GapKept
  <1>2. CASE Unconfigured \/ Opened \/ RefusedEnds \/ BackoffEnds
             \/ RunCloses \/ DropEnds \/ DisconnectEnds
    <2>1. \A s \in Sockets : sock'[s] = "open" => sock[s] = "open"
      BY <1>2 DEF Unconfigured, Opened, RefusedEnds, BackoffEnds, RunCloses,
         DropEnds,
         DisconnectEnds, Shut, TypeOK
    <2>2. missed' = missed
      BY <1>2 DEF Unconfigured, Opened, RefusedEnds, BackoffEnds, RunCloses,
         DropEnds,
         DisconnectEnds, counts
    <2> QED BY <2>1, <2>2, GapKept
  <1>3. CASE Connected
    BY <1>3 DEF Connected, Announces, Gap
  <1>4. CASE Refused
    BY <1>4, TeardownGap DEF Refused
  <1>5. CASE ConnectRaises \/ DropConnection \/ Disconnect
    BY <1>5, CloseStartsGap DEF ConnectRaises, DropConnection, Disconnect
  <1>6. CASE ReceiveEnds
    <2>1. CASE running
      BY <1>6, <2>1, CloseStartsGap DEF ReceiveEnds
    <2>2. CASE ~running
      BY <1>6, <2>2, GapKept DEF ReceiveEnds
    <2> QED BY <2>1, <2>2
  <1>7. CASE Exit
    <2>1. CASE session # 0
      BY <1>7, <2>1, CloseStartsGap DEF Exit
    <2>2. CASE session = 0
      BY <1>7, <2>2, GapKept DEF Exit
    <2> QED BY <2>1, <2>2
  <1>8. ASSUME NEW c \in Closers, CloseGranted(c) PROVE Gap'
    BY <1>8, TeardownGap DEF CloseGranted
  <1>9. CASE Deliver
    BY <1>9, GapKept DEF Deliver, counts
  <1>10. ASSUME NEW u \in Users,
           \/ Query(u) \/ CallService(u) \/ RestReturns(u) \/ RestFails(u)
           \/ RestUnsent(u) \/ SendGranted(u) \/ Sent(u) \/ CommandFails(u)
           \/ CommandSucceeds(u) \/ WatchEnds(u) \/ CancelUser(u) \/ Answer(u)
         PROVE  Gap'
    <2>1. UNCHANGED <<missed, sock>>
      BY <1>10 DEF Query, CallService, RestReturns, RestFails, RestUnsent,
           SendGranted, Sent, CommandFails, CommandSucceeds, WatchEnds,
           CancelUser, Answer, link, counts
    <2> QED BY <2>1, GapKept
  <1>11. CASE StateChanges
    <2>1. sock' = sock
          /\ (missed' = missed \/ \A s \in Sockets : sock[s] # "open")
      BY <1>11 DEF StateChanges
    <2> QED BY <2>1 DEF Gap
  <1>12. ASSUME NEW s \in Sockets, Breaks(s) PROVE Gap'
    <2>1. missed' = missed /\ \A r \in Sockets : sock'[r] = "open" =>
          sock[r] = "open"
      BY <1>12 DEF Breaks, counts, TypeOK
    <2> QED BY <2>1, GapKept
  <1>13. ASSUME NEW s \in Sockets, Noticed(s) PROVE Gap'
    <2>1. s = session
      BY <1>13 DEF Noticed, Sessions
    <2>2. \A r \in Sockets : sock'[r] # "open"
      BY <1>13, <2>1 DEF Noticed, Sessions, TypeOK
    <2> QED BY <2>2 DEF Gap
  <1> QED
    BY <1>1, <1>2, <1>3, <1>4, <1>5, <1>6, <1>7, <1>8, <1>9, <1>10, <1>11,
       <1>12, <1>13
    DEF Next, RunStep, AdminStep, StopStep, UserStep, Environment

-----------------------------------------------------------------------------
(* The theorems.                                                           *)

LEMMA IInvHoldsFirst == Init => IInv
  <1> SUFFICES ASSUME Init PROVE IInv
    OBVIOUS
  <1> USE HaLinkAssumption DEF Init
  <1>1. TypeOK
    <2>1. <<>> \in Seq(Users \cup Closers) /\ <<>> \in Seq(Users \cup {"event"})
      BY EmptySeq
    <2>2. inbox \in [Sockets -> Seq(Users \cup {"event"})]
      BY <2>1
    <2>3. 0 \in 0..MaxSockets /\ 0 \in 0..MaxEvents /\ 0 \in 0..MaxDrops
      OBVIOUS
    <2> QED BY <2>1, <2>2, <2>3 DEF TypeOK
  <1>2. Turns
    BY NobodyInEmpty DEF Turns, Wants, Has, Closers, Names
  <1>3. Sessions
    BY DEF Sessions, Shutting, Closers, Sockets
  <1>4. Stopped
    BY NobodyInEmpty DEF Stopped, Closers
  <1>5. Commands
    BY DEF Commands, CommandsFollowTheirSocket
  <1>6. Waiters
    BY DEF Waiters, WaitersFallWithTheirSocket
  <1>7. Gap
    BY DEF Gap
  <1> QED BY <1>1, <1>2, <1>3, <1>4, <1>5, <1>6, <1>7 DEF IInv

LEMMA IInvStays == IInv /\ [Next]_vars => IInv'
  <1> SUFFICES ASSUME IInv, [Next]_vars PROVE IInv'
    OBVIOUS
  <1>1. CASE Next
    BY <1>1, TypesStay, TurnsStay, SessionsStay, StoppedStays, CommandsStay,
       WaitersStay, GapStays DEF IInv
  <1>2. CASE UNCHANGED vars
    BY <1>2 DEF vars, link, users, counts, IInv, TypeOK, Turns, Wants, Has,
       Sessions, Shutting,
      Stopped, Commands, CommandsFollowTheirSocket, Waiters,
      WaitersFallWithTheirSocket, Gap
  <1> QED BY <1>1, <1>2

LEMMA IInvAlways == Spec => []IInv
  BY IInvHoldsFirst, IInvStays, PTL DEF Spec

\* The types of HaLink.
THEOREM Typing == Spec => []TypeOK
  <1>1. IInv => TypeOK
    BY DEF IInv
  <1> QED BY <1>1, IInvAlways, PTL

\* At most one session is open, and none once the client is stopped
\* (websocket.py 138-142, 309-313): for any number of sessions.
THEOREM OneConnectionAlways == Spec => []OneConnection
  <1>1. IInv => OneConnection
    <2> SUFFICES ASSUME IInv PROVE OneConnection
      OBVIOUS
    <2> USE HaLinkAssumption DEF IInv
    <2> DEFINE opened == {s \in Sockets : sock[s] \notin {"new", "shut"}}
    <2>1. \A r, s \in opened : r = s
      BY DEF Sessions, Sockets
    <2>2. Cardinality(opened) <= 1
      <3>1. CASE opened = {}
        BY <3>1, FS_EmptySet
      <3>2. ASSUME NEW s \in opened PROVE Cardinality(opened) <= 1
        <4>1. opened = {s}
          BY <2>1, <3>2
        <4>2. Cardinality({s}) = 1
          BY FS_Singleton
        <4>3. 1 <= 1
          OBVIOUS
        <4> QED BY <4>1, <4>2, <4>3
      <3> QED BY <3>1, <3>2
    <2>3. run \in {"connect", "queued"} => session = 0
      BY DEF Sessions
    <2>4. ASSUME run = "over", closer["stopper"] = "over" PROVE opened = {}
      <3>1. session = 0 /\ closer["admin"] = "rest"
        BY <2>4 DEF Sessions, Stopped
      <3>2. ~Shutting
        BY <2>4, <3>1 DEF Shutting, Turns, Closers
      <3> QED BY <3>1, <3>2 DEF Sessions, Sockets
    <2> QED BY <2>2, <2>3, <2>4 DEF OneConnection
  <1> QED BY <1>1, IInvAlways, PTL

\* No command is sent for a caller that gave up, and none waits on a socket
\* that is gone, nor does a state waiter (websocket.py 202-254, 434-443): for
\* any number of users and sessions.
THEOREM UsersFollowTheirSocketAlways == Spec => []UsersFollowTheirSocket
  <1>1. IInv => UsersFollowTheirSocket
    BY DEF IInv, UsersFollowTheirSocket, Commands, Waiters
  <1> QED BY <1>1, IInvAlways, PTL

\* Whenever the client receives on a working connection, every lost event was
\* announced (websocket.py 303-308, 527-545).
THEOREM NoSilentGapAlways == Spec => []NoSilentGap
  <1>1. IInv => NoSilentGap
    <2> SUFFICES ASSUME IInv, run = "receive", attached, sock[session] = "open"
                 PROVE ~missed
      BY DEF NoSilentGap
    <2>1. session \in Sockets
      BY DEF IInv, TypeOK, Sockets
    <2> QED BY <2>1 DEF IInv, Gap
  <1> QED BY <1>1, IInvAlways, PTL
=============================================================================
