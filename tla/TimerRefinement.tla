--------------------------- MODULE TimerRefinement ---------------------------
(* TimerScheduler implements TimerPromise.                                 *)
EXTENDS TimerScheduler

PhaseOf(r) ==
  CASE r.state = "free" -> "free"
    [] r.state = "pending" -> "running"
    [] r.state = "paused" -> "paused"
    [] r.state \in Terminal -> "done"

Phase == [t \in Timers |-> PhaseOf(row[t])]
Owed == [t \in Timers |-> arms[t] + boots[t] - rings[t]]
Restarted == {t \in Timers : boots[t] > 0}

Promise == INSTANCE TimerPromise WITH
  phase <- Phase, owed <- Owed, restarted <- Restarted

\* The scheduler keeps its promise: whatever calls, retries, failures and
\* restarts do, each ring was owed, a timer that is paused or cancelled is
\* silent at once (until a restart), and nothing brings a finished one back.
KeepsPromise == Promise!Spec
=============================================================================
