------------------------------- MODULE MCDBPool -------------------------------
(* Instances of DBPool: as many threads as a pool has connections, each    *)
(* of which may want two at once.  The pool of Redis contexts of the same  *)
(* process is checked beside it: the two share nothing, so only one of     *)
(* them moves in a behaviour.                                              *)
EXTENDS DBPool, RedisClient

CONSTANTS t1, t2, t3, m, s1, c1, c2, c3, c4

VARIABLE part           \* "mysql" or "redis"

PoolsInit == Init /\ RedisInit /\ part \in {"mysql", "redis"}

PoolsNext ==
    \/ part = "mysql" /\ Next /\ UNCHANGED <<redisVars, part>>
    \/ part = "redis" /\ RedisNext /\ UNCHANGED <<vars, part>>

PoolsSpec == PoolsInit /\ [][PoolsNext]_<<vars, redisVars, part>> /\ Fairness
===============================================================================
