\* Turns of one conversation that overlap.
CONSTANTS
  Conversations = {c1}
  Turns = {u1, u2, u3}
  Untraced = {}
  Calls = {k1}
  Requesters = {r1}
  Mute = {}
  None = None
  MaxEntries = 1
  ApprovalTtl = 1
  ChangeTtl = 1
  TombstoneTtl = 2
  JudgeTime = 1
  MaxAgents = 1
  Overlaps = {2}
  MaxTime = 1
  MaxRestarts = 0
SPECIFICATION Spec
INVARIANT OneOpenQuestion
CHECK_DEADLOCK FALSE
