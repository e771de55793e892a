------------------------------ MODULE MCShared -------------------------------
(***************************************************************************)
(* What the services share, for TLC, each part in behaviours of its own   *)
(* (the others stay at an initial state): the header of a file under two  *)
(* layers, the cache in redis under two calls at once, the cache in       *)
(* memory, the sandbox catalog, the semaphore, the connection limiter and *)
(* the proxy's pool.                                                      *)
(***************************************************************************)
EXTENDS Header, RedisCache, MemoryCache, Catalog, Semaphore, ConnLimiter, ProxyPool

VARIABLE part

sharedVars == <<part, headerVars, redisVars, memVars, catalogVars, semVars,
                limiterVars, poolVars>>

\* The caller "big" needs all of the higher limit.
MCNeed == [c \in Callers |-> IF c = "big" THEN 2 ELSE 1]

\* No limit, one and two.
MCMaxLimits == {-1, 1, 2}

Init ==
    /\ HeaderInit /\ RedisInit /\ MemInit /\ CatalogInit /\ SemInit /\ LimiterInit /\ PoolInit
    /\ part \in {"header", "redis", "memory", "catalog", "semaphore", "limiter", "pool"}
    /\ part # "semaphore" => limit = CHOOSE l \in Limits : TRUE

Next ==
    \/ /\ part = "header" /\ HeaderNext
       /\ UNCHANGED <<part, redisVars, memVars, catalogVars, semVars, limiterVars, poolVars>>
    \/ /\ part = "redis" /\ RedisNext
       /\ UNCHANGED <<part, headerVars, memVars, catalogVars, semVars, limiterVars, poolVars>>
    \/ /\ part = "memory" /\ MemNext
       /\ UNCHANGED <<part, headerVars, redisVars, catalogVars, semVars, limiterVars, poolVars>>
    \/ /\ part = "catalog" /\ CatalogNext
       /\ UNCHANGED <<part, headerVars, redisVars, memVars, semVars, limiterVars, poolVars>>
    \/ /\ part = "semaphore" /\ SemNext
       /\ UNCHANGED <<part, headerVars, redisVars, memVars, catalogVars, limiterVars, poolVars>>
    \/ /\ part = "limiter" /\ LimiterNext
       /\ UNCHANGED <<part, headerVars, redisVars, memVars, catalogVars, semVars, poolVars>>
    \/ /\ part = "pool" /\ PoolNext
       /\ UNCHANGED <<part, headerVars, redisVars, memVars, catalogVars, semVars, limiterVars>>

Spec == /\ Init /\ [][Next]_sharedVars
        /\ part = "redis" => RedisFairness
        /\ part = "memory" => MemFairness
=============================================================================
