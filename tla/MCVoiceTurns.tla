---------------------------- MODULE MCVoiceTurns ----------------------------
(* Model-checking instance of VoiceTurns: two utterances and two profiles, *)
(* followed in three ways.                                                 *)
EXTENDS VoiceTurns, TLC

Symmetry == Permutations(Profiles)

\* The two turns and their entries, while one enrollment may be armed; an
\* enrollment armed too late for both sessions is of no interest to them.
Talking ==
  /\ arms <= 1 /\ armed.asked <= 1 /\ expired = {} /\ profiles = Profiles
  /\ arms = 0 \/ marked # {} \/ ses[LastTurn] = "off"
  /\ cache = NoCache /\ samples = {}
  /\ \A u \in Turns : /\ store[u] = "none" /\ drop[u] = "none"
                      /\ ~Committing(u) /\ proc[u] \notin {"load", "read"}

\* The enrollments that two sessions feed, without any turns; no entry expires
\* under its session, and profiles are deleted only before the second
\* enrollment.
Enrolling ==
  /\ cur > 0 => entry # 0 \/ ses[cur] \in {"off", "over"}
  /\ arms = 2 => deleting = NoProfile /\ profiles = Profiles
  /\ \A u \in Turns : turn[u] = "none" /\ store[u] = "none" /\ how[u] # "cut"

\* The recordings of two sessions, without turns or enrollments.
Recording ==
  /\ arms = 0 /\ profiles = Profiles
  /\ \A u \in Turns : turn[u] = "none"

\* A run follows the steps that stay in one of them.
Explored == Talking' \/ Enrolling' \/ Recording'
=============================================================================
