-------------------------- MODULE MCRedisTaskQueue --------------------------
(* Small instances of RedisTaskQueue for TLC. *)
EXTENDS RedisTaskQueue, TLC

CONSTANTS t1, t2, k1, p1, p2, s1, s2

\* Two processes of one coroutine each, or one process of two coroutines.
TwoProcs == (s1 :> p1) @@ (s2 :> p2)
OneProc == (s1 :> p1) @@ (s2 :> p1)

\* One task without a key; two calls with one key.
Unkeyed == (t1 :> NoKey)
BothUnkeyed == (t1 :> NoKey) @@ (t2 :> NoKey)
SameKey == (t1 :> k1) @@ (t2 :> k1)
=============================================================================
