---- MODULE MCEntityIndex ----
EXTENDS EntityIndex
\* A rename is two events, and most of the states.
Single == Kinds \ {"rename"}

\* All syncs, one at a time; a prime that fails, or an event handler or the
\* periodic sync after it; a loss of the connection; a resync that overlaps the
\* periodic sync, or the prime.
SyncScenarios ==
  { [kinds |-> Single, active |-> Syncs,
     overlap |-> 1, drops |-> 0, faults |-> 0],
    [kinds |-> Kinds, active |-> {"prime", "periodic"},
     overlap |-> 1, drops |-> 0, faults |-> 1],
    [kinds |-> Kinds, active |-> {"periodic", "reconnect"},
     overlap |-> 1, drops |-> 1, faults |-> 0],
    [kinds |-> Single, active |-> {"periodic", "reconnect"},
     overlap |-> 2, drops |-> 0, faults |-> 0],
    [kinds |-> Single, active |-> {"prime", "reconnect"},
     overlap |-> 2, drops |-> 0, faults |-> 0] }

\* A prime that waits for the connection while the client reconnects.
StartScenario ==
  { [kinds |-> {"push"}, active |-> {"prime", "reconnect"},
     overlap |-> 2, drops |-> 0, faults |-> 0] }
====
