--------------------------- MODULE MCRedisServer ----------------------------
(***************************************************************************)
(* Instances of RedisServer for TLC.  CommandRequests exercises every      *)
(* handler outside and inside a stream, PubSubRequests a subscriber beside *)
(* a publisher.                                                            *)
(***************************************************************************)
EXTENDS RedisServer, TLC

CONSTANTS c1, c2, ch1, ch2, k1, v1

Subscribe(chns) == [cmd |-> "subscribe", chns |-> chns]
Unsubscribe(chns) == [cmd |-> "unsubscribe", chns |-> chns]
Publish(ch) == [cmd |-> "publish", chn |-> ch]

\* Every handler from c1, a publisher c2 that overruns a ring of two.
CommandRequests ==
  (c1 :> {[cmd |-> "get", key |-> k1], [cmd |-> "set", key |-> k1, val |-> v1],
          [cmd |-> "other", more |-> FALSE], Subscribe(<<ch1, ch2>>), Unsubscribe(<<ch1>>)})
  @@ (c2 :> {Publish(ch1)})

\* c1 subscribes and unsubscribes, c2 publishes.
PubSubRequests ==
  (c1 :> {Subscribe(<<ch1>>), Unsubscribe(<<ch1>>)})
  @@ (c2 :> {Publish(ch1)})

CommandBound == (c1 :> 2) @@ (c2 :> 3)
PubSubBound == (c1 :> 2) @@ (c2 :> 2)
=============================================================================
