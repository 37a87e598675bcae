-------------------------- MODULE MCTimerScheduler --------------------------
(* Model-checking instances of TimerScheduler.                             *)
EXTENDS TimerRefinement, TLC

\* Row ids are interchangeable: nothing chooses among them.
Symmetry == Permutations(Timers)

\* What TimerSafety.cfg explores: callers that race on one timer while no
\* statement fails and nothing restarts, and timers that nobody calls about over
\* a stop and one failure, or two that leave no row unmarked (the two of a load
\* and its retry).
Racing ==
  /\ crashes = 0 /\ faults = 0
  /\ \A t \in Timers : row[t].kind # "series"
  /\ Cardinality({t \in Timers : row[t].state # "free"}) <= 1

Failing ==
  /\ \A c \in Clients : api[c] = NoCall
  /\ \/ faults + outages <= 1
     \/ outages = 0 /\ lost = {}
  /\ \A t \in Timers :
       arms[t] <= 1 /\ row[t].state \notin {"paused", "cancelled"}

Explored == Failing' \/ Racing'
=============================================================================
