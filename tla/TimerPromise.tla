---------------------------- MODULE TimerPromise ----------------------------
(***************************************************************************)
(* What the timer scheduler promises its callers, without tasks, rows being*)
(* loaded, retries or a recovery coroutine.                                *)
(*                                                                         *)
(* Accepting a timer, and each call that starts it anew, owes it one ring; *)
(* a restart of the process may owe it one more, as nobody knows whether   *)
(* the ring of the life before went out.  A ring is never owed twice, a    *)
(* paused timer is silent, and a finished one stays finished.  The one     *)
(* exception: a timer that went through a restart may ring although it was *)
(* paused or cancelled meanwhile, as recovery works on the rows it loaded. *)
(***************************************************************************)
EXTENDS Naturals

CONSTANT Timers

VARIABLES
  phase,     \* "free", "running", "paused" or "done"
  owed,      \* rings the timer may still give
  restarted  \* timers that went through a restart

promise == <<phase, owed, restarted>>

Init ==
  /\ phase = [t \in Timers |-> "free"]
  /\ owed = [t \in Timers |-> 0]
  /\ restarted = {}

\* schedule, or the next occurrence of a recurring alarm
Accept(t) ==
  /\ phase[t] = "free"
  /\ phase' = [phase EXCEPT ![t] = "running"]
  /\ owed' = [owed EXCEPT ![t] = @ + 1]
  /\ UNCHANGED restarted

\* resume and reschedule
StartAnew(t) ==
  /\ phase[t] \in {"running", "paused"}
  /\ phase' = [phase EXCEPT ![t] = "running"]
  /\ owed' = [owed EXCEPT ![t] = @ + 1]
  /\ UNCHANGED restarted

Pause(t) ==
  /\ phase[t] = "running"
  /\ phase' = [phase EXCEPT ![t] = "paused"]
  /\ UNCHANGED <<owed, restarted>>

\* fired, missed or cancelled
Finish(t) ==
  /\ phase[t] \in {"running", "paused"}
  /\ phase' = [phase EXCEPT ![t] = "done"]
  /\ UNCHANGED <<owed, restarted>>

Ring(t) ==
  /\ owed[t] > 0
  /\ phase[t] = "running" \/ t \in restarted
  /\ owed' = [owed EXCEPT ![t] = @ - 1]
  /\ UNCHANGED <<phase, restarted>>

\* A start of the process loads the timers S.
Restart(S) ==
  /\ \A t \in S : phase[t] # "free"
  /\ restarted' = restarted \cup S
  /\ owed' = [t \in Timers |-> IF t \in S THEN owed[t] + 1 ELSE owed[t]]
  /\ UNCHANGED phase

Next ==
  \/ \E t \in Timers :
       Accept(t) \/ StartAnew(t) \/ Pause(t) \/ Finish(t) \/ Ring(t)
  \/ \E S \in SUBSET Timers : Restart(S)

Spec == Init /\ [][Next]_promise
=============================================================================
