\* Three turns in two conversations, one at a time or two at once.
CONSTANTS
  Conversations = {c1, c2}
  Turns = {u1, u2, u3}
  Untraced = {u3}
  Calls = {k1, k2}
  Requesters = {r1, r2, r3}
  Mute = {r3}
  None = None
  MaxEntries = 1
  ApprovalTtl = 0
  ChangeTtl = 0
  TombstoneTtl = 1
  JudgeTime = 1
  MaxAgents = 2
  Overlaps = {1, 2}
  MaxTime = 2
  MaxRestarts = 1
SPECIFICATION Spec
SYMMETRY Symmetry
VIEW View
INVARIANT DoneOnce
PROPERTIES ConfirmedCalls DropIsFinal CallsAddUp
CHECK_DEADLOCK FALSE
