---------------------------- MODULE MCApproval ----------------------------
EXTENDS Approval, TLC

Symmetry == Permutations(Conversations) \cup Permutations(Turns \ Untraced)
              \cup Permutations(Calls) \cup Permutations(Requesters \ Mute)

\* What is still reachable.  A batch that no entry and no turn refers to can
\* never be answered, asked about or executed again, and the history of a
\* turn's questions is only compared with what is still to come of them.
LiveBatches ==
  UNION {Items(approvals[c]) : c \in Conversations}
    \cup ({turn[t].item : t \in Turns} \ {None})

LiveAskers ==
  {AskedIn(b) : b \in LiveBatches} \cup {t \in Turns : turn[t].at # "done"}

LiveChanges ==
  UNION {Items(proposals[c]) : c \in Conversations}
    \cup ({turn[t].change : t \in Turns} \ {None})

View ==
  <<now, approvals, proposals, turn, restarts, overlap,
    [b \in LiveBatches |-> <<batch[b], b \in dropped>>],
    {x \in ran : AskedIn(x.item) \in LiveAskers},
    {x \in applied : x.change \in LiveChanges}>>
=============================================================================
