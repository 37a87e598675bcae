--------------------------- MODULE MCActionCache ---------------------------
EXTENDS ActionCache, TLC

Symmetry == Permutations(Keys) \cup Permutations(Entities)
              \cup Permutations(Workers) \cup Permutations(Validators)

\* Two threads store, delete, flush, invalidate and evict; one thread stores
\* and replays while a run of the validator is under way; two runs overlap.
SafetyScenarios ==
  { [ops |-> {"store", "forget", "flush", "entity", "shutdown"},
     stores |-> 3, invalidations |-> 2, busy |-> 2, passes |-> 0],
    [ops |-> {"store", "replay", "validate", "fault"},
     stores |-> 2, invalidations |-> 1, busy |-> 1, passes |-> 1],
    [ops |-> {"store", "validate"},
     stores |-> 2, invalidations |-> 0, busy |-> 1, passes |-> 2] }
=============================================================================
