\* One turn of any kind with three agents, so that a turn of several agents
\* has two legs beside each other and a send-agent after them; an agent
\* streams up to two tokens before its last chunk.
CONSTANTS
  Legs = {a1, a2, a3}
  Lead = a1
  Sender = a2
  MaxChunks = 2
SPECIFICATION Spec
INVARIANTS CommandOnce OneLastFrame SpokenOnce ReminderTold NothingOutlivesAnswer
PROPERTIES NoCommandAfterAnswer EveryTurnEnds
CHECK_DEADLOCK FALSE
