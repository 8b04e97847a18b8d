------------------------------ MODULE RedisClient ------------------------------
(***************************************************************************)
(* The contexts a process keeps for its Redis commands                     *)
(* (common/redis_client.cpp).  A command takes a context from the pool or  *)
(* connects, and gives the context back when it returns, also if it failed:*)
(* a context that broke is used again and fails again, and none is freed.  *)
(*                                                                         *)
(* Redis is external.  The names leave room for DBPool, which shares the   *)
(* process and nothing else.                                               *)
(***************************************************************************)
EXTENDS Integers, Sequences, FiniteSets, Functions

CONSTANTS
    Callers,            \* threads that use Redis
    Contexts,           \* redisContext objects
    Null,               \* none
    MaxRedisOutages     \* bound on how often Redis goes down

VARIABLES
    pool,               \* pool_
    ctx,                \* of a caller in a command: its RedisConn's ctx_
    calling,            \* callers in a command
    worn,               \* contexts that lost their connection
    redis,              \* "up" or "down"
    redisOutages

redisVars == <<pool, ctx, calling, worn, redis, redisOutages>>

ASSUME CallersAssumption == IsFiniteSet(Callers)
ASSUME ContextsAssumption ==
    IsFiniteSet(Contexts) /\ Null \notin Contexts /\ Cardinality(Contexts) > Cardinality(Callers)
ASSUME RedisOutagesAssumption == MaxRedisOutages \in Nat

Pooled == {pool[i] : i \in DOMAIN pool}
Held == {ctx[t] : t \in Callers} \ {Null}
Open == Pooled \cup Held

RedisInit ==
    /\ pool = <<>>
    /\ ctx = [t \in Callers |-> Null]
    /\ calling = {}
    /\ worn = {}
    /\ redis = "up" /\ redisOutages = 0

(* redisConnect: a new context, if Redis answers *)
Connect(t) ==
    /\ IF redis = "up" THEN \E c \in Contexts \ Open : ctx' = [ctx EXCEPT ![t] = c]
       ELSE UNCHANGED ctx
    /\ UNCHANGED pool

(* The fault: pooled contexts are not looked for *)
ConnectAlways(t) ==
    /\ t \notin calling
    /\ calling' = calling \cup {t}
    /\ Connect(t)
    /\ UNCHANGED <<worn, redis, redisOutages>>

(* GetContext: the context given back last, a new one from an empty pool,  *)
(* or nullptr.                                                             *)
GetContext(t) ==
    /\ t \notin calling
    /\ calling' = calling \cup {t}
    /\ IF pool = <<>> THEN Connect(t)
       ELSE /\ ctx' = [ctx EXCEPT ![t] = pool[Len(pool)]]
            /\ pool' = SubSeq(pool, 1, Len(pool) - 1)
    /\ UNCHANGED <<worn, redis, redisOutages>>

(* The command returns, with or without a reply (redisCommand is NULL on a *)
(* worn context), and ~RedisConn gives the context back: ReleaseContext.   *)
ReleaseContext(t) ==
    /\ t \in calling
    /\ calling' = calling \ {t}
    /\ ctx' = [ctx EXCEPT ![t] = Null]
    /\ pool' = IF ctx[t] = Null THEN pool ELSE Append(pool, ctx[t])
    /\ UNCHANGED <<worn, redis, redisOutages>>

RedisDown ==
    /\ redis = "up" /\ redisOutages < MaxRedisOutages
    /\ redis' = "down" /\ redisOutages' = redisOutages + 1
    /\ worn' = worn \cup Open
    /\ UNCHANGED <<pool, ctx, calling>>

RedisUp ==
    /\ redis = "down"
    /\ redis' = "up"
    /\ UNCHANGED <<pool, ctx, calling, worn, redisOutages>>

RedisNext ==
    \/ \E t \in Callers : GetContext(t) \/ ReleaseContext(t)
    \/ RedisDown
    \/ RedisUp

RedisSpec == RedisInit /\ [][RedisNext]_redisVars

-------------------------------------------------------------------------------
(* The variables have the types the code gives them. *)
ContextsTypeOK ==
    /\ pool \in Seq(Contexts)
    /\ ctx \in [Callers -> Contexts \cup {Null}]
    /\ calling \subseteq Callers
    /\ \A t \in Callers \ calling : ctx[t] = Null
    /\ worn \subseteq Contexts
    /\ redis \in {"up", "down"} /\ redisOutages \in 0..MaxRedisOutages

(* "Hiredis context is not thread-safe" (redis_client.h line 41): no       *)
(* context is used by two threads, or used and pooled, or pooled twice.    *)
ContextsNotShared ==
    /\ \A t, u \in Callers : t # u /\ ctx[t] # Null => ctx[t] # ctx[u]
    /\ \A i, j \in DOMAIN pool : pool[i] = pool[j] => i = j
    /\ Pooled \cap Held = {}

(* The pool has no limit, but however often Redis fails a process never    *)
(* has more contexts than threads: it connects only if all are in use.     *)
ContextsBounded ==
    ContextsNotShared /\ Cardinality(Open) <= Cardinality(Callers)
===============================================================================
