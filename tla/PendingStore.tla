---------------------------- MODULE PendingStore ----------------------------
(***************************************************************************)
(* container/app/agents/pending_store.py: the open question of each        *)
(* conversation, in memory.  An entry is active until its TTL, then a      *)
(* tombstone (only what a late answer needs), then forgotten.              *)
(*                                                                         *)
(* The operators take the store and the time and return the new store; the *)
(* modules that keep a store apply them in one step, as the event loop     *)
(* does.  The map is ordered by the time of the put, so the entry evicted  *)
(* first is the one stored longest ago; entries put in one tick of the     *)
(* clock may go in any order.                                              *)
(***************************************************************************)
EXTENDS Integers, FiniteSets

CONSTANTS
  Conversations,
  MaxEntries,     \* DEFAULT_MAX_ENTRIES
  TombstoneTtl,   \* DEFAULT_TOMBSTONE_TTL_SECONDS, the same in both flows
  None            \* the payload of no entry

ASSUME StoreAssumption == MaxEntries \in Nat \ {0} /\ TombstoneTtl \in Nat

Kinds == {"none", "active", "tombstone"}

NoEntry == [kind |-> "none", at |-> 0, item |-> None]
EmptyStore == [c \in Conversations |-> NoEntry]

Active(item, now) == [kind |-> "active", at |-> now, item |-> item]

Store(items) ==
  [Conversations -> {NoEntry} \cup
     [kind : Kinds \ {"none"}, at : Nat, item : items]]

Occupied(s) == {c \in Conversations : s[c].kind # "none"}

\* What the passing of time makes of an entry when it is next looked at.
Aged(e, now, ttl) ==
  IF e.kind = "none" \/ now - e.at > TombstoneTtl THEN NoEntry
  ELSE IF now - e.at > ttl THEN [e EXCEPT !.kind = "tombstone"]
  ELSE e

\* get_entry: the entry with its status, and the store it leaves.
Entry(s, c, now, ttl) == Aged(s[c], now, ttl)
Seen(s, c, now, ttl) == [s EXCEPT ![c] = Entry(s, c, now, ttl)]

Popped(s, c) == [s EXCEPT ![c] = NoEntry]

Purged(s, now, ttl) == [c \in Conversations |-> Aged(s[c], now, ttl)]

OldestBut(s, c) ==
  {d \in Occupied(s) \ {c} :
     \A e \in Occupied(s) \ {c} : s[d].at <= s[e].at}

\* The stores put can leave: one entry too many evicts the oldest.
Puts(s, c, item, now, ttl) ==
  LET stored == [Purged(s, now, ttl) EXCEPT ![c] = Active(item, now)]
  IN  IF Cardinality(Occupied(stored)) <= MaxEntries THEN {stored}
      ELSE {Popped(stored, d) : d \in OldestBut(stored, c)}
=============================================================================
