---------------------------- MODULE FakeDatabase ----------------------------
(***************************************************************************)
(* The store that every connection task of the mini-redis server shares    *)
(* (db.rs): a key-value map and a map of publish/subscribe channels, both  *)
(* behind one mutex.  No code path panics while it holds the mutex, so it  *)
(* is never poisoned: each operation below is one critical section and the *)
(* "failed to acquire db lock" branches are dead.                          *)
(*                                                                         *)
(* A channel is a tokio broadcast channel.  The payload of a message is    *)
(* its number in its channel, so a channel is the number tail[ch] of       *)
(* messages accepted so far and a receiver is a cursor: the number of the  *)
(* last message it was given.  The ring keeps the last Capacity messages.  *)
(***************************************************************************)
EXTENDS Integers, Sequences, FiniteSets

CONSTANTS
  Conns,     \* the client sockets, one connection task each
  Keys, Vals, Absent,
  Chans,
  Capacity   \* messages a broadcast ring keeps (channel(30) in db.rs)

ASSUME CapacityAssumption == Capacity \in Nat \ {0}
ASSUME AbsentAssumption == Absent \notin Vals
ASSUME FiniteAssumption == IsFiniteSet(Conns) /\ IsFiniteSet(Chans)

VARIABLES
  refs,      \* Arc::strong_count of the shared data
  keyval,    \* InnerDataStore.keyval
  pubsub,    \* the channel names in InnerDataStore.pubsub
  tail,      \* messages accepted by each channel
  subs,      \* the channels each connection holds a receiver of
  cursor     \* the receivers' positions; a dropped receiver's is kept as a mark

dbVars == <<refs, keyval, pubsub, tail, subs, cursor>>

DbTypeOK ==
  /\ refs \in Int
  /\ keyval \in [Keys -> Vals \cup {Absent}]
  /\ pubsub \in SUBSET Chans
  /\ tail \in [Chans -> Nat]
  /\ subs \in [Conns -> SUBSET Chans]
  /\ cursor \in [Conns -> [Chans -> Nat]]

DbInit ==
  /\ refs = 1
  /\ keyval = [k \in Keys |-> Absent]
  /\ pubsub = {}
  /\ tail = [ch \in Chans |-> 0]
  /\ subs = [c \in Conns |-> {}]
  /\ cursor = [c \in Conns |-> [ch \in Chans |-> 0]]

-----------------------------------------------------------------------------
(* Key-value half *)

DbSet(k, v) ==
  /\ keyval' = [keyval EXCEPT ![k] = v]
  /\ UNCHANGED <<refs, pubsub, tail, subs, cursor>>

-----------------------------------------------------------------------------
(* Handles: FakeDatabase is an Arc *)

CloneHandle ==
  /\ refs' = refs + 1
  /\ UNCHANGED <<keyval, pubsub, tail, subs, cursor>>

\* Bug: the handle that is being dropped is not counted.
DropHandleOffByOne ==
  /\ keyval' = IF refs <= 2 THEN [k \in Keys |-> Absent] ELSE keyval
  /\ UNCHANGED <<refs, pubsub, tail, subs, cursor>>

\* Drop::drop: the count is read while this handle still counts, and only a
\* handle that finds itself the last one clears the map.
DropHandle ==
  /\ keyval' = IF refs = 1 THEN [k \in Keys |-> Absent] ELSE keyval
  /\ UNCHANGED <<refs, pubsub, tail, subs, cursor>>

\* After drop() has returned, the Arc inside is dropped and the count falls.
ReleaseHandle ==
  /\ refs' = refs - 1
  /\ UNCHANGED <<keyval, pubsub, tail, subs, cursor>>

-----------------------------------------------------------------------------
(* Publish/subscribe half *)

Receivers(ch) == {c \in Conns : ch \in subs[c]}

\* `send` fails when no receiver is left and keeps nothing; publish reports 0.
DbPublish(ch) ==
  /\ tail' = IF Receivers(ch) = {} THEN tail ELSE [tail EXCEPT ![ch] = @ + 1]
  /\ UNCHANGED <<refs, keyval, pubsub, subs, cursor>>

\* Bug: a receiver replays the channel from its first message.
DbSubscribeFromStart(c, ch) ==
  /\ pubsub' = pubsub \cup {ch}
  /\ subs' = [subs EXCEPT ![c] = @ \cup {ch}]
  /\ cursor' = [cursor EXCEPT ![c][ch] = 0]
  /\ UNCHANGED <<refs, keyval, tail>>

\* A new receiver starts at the tail and sees later messages only.
DbSubscribe(c, ch) ==
  /\ pubsub' = pubsub \cup {ch}
  /\ subs' = [subs EXCEPT ![c] = @ \cup {ch}]
  /\ cursor' = [cursor EXCEPT ![c][ch] = tail[ch]]
  /\ UNCHANGED <<refs, keyval, tail>>

Backlog(c, ch) == tail[ch] - cursor[c][ch]

\* The message a poll of the receiver yields: the next one, or, when the ring
\* has overwritten it, the oldest one kept (the stream ignores `Lagged`).
NextMessage(c, ch) ==
  IF Backlog(c, ch) > Capacity THEN tail[ch] - Capacity + 1
  ELSE cursor[c][ch] + 1

\* Bug: a lagged receiver is left pending instead of polled again.
PollStallsOnLag(c, ch) ==
  /\ ch \in subs[c]
  /\ Backlog(c, ch) \in 1..Capacity
  /\ cursor' = [cursor EXCEPT ![c][ch] = NextMessage(c, ch)]
  /\ UNCHANGED <<refs, keyval, pubsub, tail, subs>>

Poll(c, ch) ==
  /\ ch \in subs[c]
  /\ Backlog(c, ch) > 0
  /\ cursor' = [cursor EXCEPT ![c][ch] = NextMessage(c, ch)]
  /\ UNCHANGED <<refs, keyval, pubsub, tail, subs>>

DropReceivers(c, chns) ==
  /\ subs' = [subs EXCEPT ![c] = @ \ chns]
  /\ UNCHANGED <<refs, keyval, pubsub, tail, cursor>>
=============================================================================
