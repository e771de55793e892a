------------------------------- MODULE Catalog -------------------------------
(***************************************************************************)
(* The sandbox catalog in redis with a short-lived local cache in each    *)
(* instance (packages/shared/pkg/sandbox-catalog/catalog_redis.go): where *)
(* one sandbox runs.  A sandbox that is resumed runs as a new execution,  *)
(* and the old execution's DeleteSandbox may come late.                   *)
(*                                                                         *)
(* Executions are numbered in the order they are stored in; 0 is none.    *)
(* The local cache is in use (SandboxCatalogLocalCacheFlag).  External:   *)
(* redis, whose commands are atomic and may fail; ttlcache, whose entries *)
(* a hit does not prolong here.                                           *)
(***************************************************************************)
EXTENDS Integers

CONSTANTS
    Hosts,          \* instances with a catalog
    Requests,       \* calls at once
    MaxExecution    \* bound: executions of the sandbox

ASSUME CatalogAssumption == MaxExecution \in Nat \ {0}
ASSUME HostsAssumption == Hosts # {}

VARIABLES
    started,        \* executions so far
    catalog,        \* the execution redis holds
    local,          \* the execution each local cache holds
    request,        \* the calls: where each is, on which host, for which execution
    overtook,       \* history: executions stored between a Delete's GET and its DEL
    victims         \* history: executions removed by another execution's Delete

catalogVars == <<started, catalog, local, request, overtook, victims>>

Executions == 0..MaxExecution
NoRequest == [pc |-> "idle", host |-> CHOOSE h \in Hosts : TRUE, exec |-> 0]

CatalogTypeOK ==
    /\ started \in Executions /\ catalog \in Executions /\ local \in [Hosts -> Executions]
    /\ request \in [Requests -> [pc : {"idle", "cache", "set", "get", "del", "uncache"},
                                 host : Hosts, exec : Executions]]
    /\ overtook \subseteq Executions /\ victims \subseteq Executions

CatalogInit ==
    /\ started = 0 /\ catalog = 0 /\ local = [h \in Hosts |-> 0]
    /\ request = [r \in Requests |-> NoRequest]
    /\ overtook = {} /\ victims = {}
-----------------------------------------------------------------------------
Begin(r, pc, h, e) ==
    /\ request[r].pc = "idle"
    /\ request' = [request EXCEPT ![r] = [pc |-> pc, host |-> h, exec |-> e]]

Goto(r, pc) == request' = [request EXCEPT ![r] = IF pc = "idle" THEN NoRequest
                                                 ELSE [@ EXCEPT !.pc = pc]]

\* GetSandbox misses the local cache and finds an execution in redis.
GetSandbox(r, h) ==
    /\ local[h] = 0 /\ catalog # 0 /\ Begin(r, "cache", h, catalog)
    /\ UNCHANGED <<started, catalog, local, overtook, victims>>

\* The end of GetSandbox and of StoreSandbox: cache.Set.
CacheSet(r) ==
    /\ request[r].pc = "cache" /\ Goto(r, "idle")
    /\ local' = [local EXCEPT ![request[r].host] = request[r].exec]
    /\ UNCHANGED <<started, catalog, overtook, victims>>

\* StoreSandbox: SET, or an error.
StoreSandbox(r, h) ==
    /\ started < MaxExecution /\ started' = started + 1
    /\ \/ /\ catalog' = started' /\ Begin(r, "cache", h, started')
          /\ overtook' = IF \E d \in Requests : request[d].pc = "del"
                         THEN overtook \cup {started'} ELSE overtook
       \/ UNCHANGED <<catalog, request, overtook>>
    /\ UNCHANGED <<local, victims>>

\* Mutant of DeleteSandbox: without the look at the execution.
DeleteSandboxAny(r, h, e) ==
    /\ catalog # 0 /\ Begin(r, "del", h, e)
    /\ UNCHANGED <<started, catalog, local, overtook, victims>>

\* DeleteSandbox: GET; "Different execution is stored in the cache, we don't want to
\* remove it".
DeleteSandbox(r, h, e) ==
    /\ catalog # 0 /\ catalog = e /\ Begin(r, "del", h, e)
    /\ UNCHANGED <<started, catalog, local, overtook, victims>>

\* DEL, whatever is there now; its error is not looked at.
DeleteDel(r) ==
    /\ request[r].pc = "del" /\ Goto(r, "uncache")
    /\ \/ /\ catalog' = 0
          /\ victims' = IF catalog \in {0, request[r].exec} THEN victims
                        ELSE victims \cup {catalog}
       \/ UNCHANGED <<catalog, victims>>
    /\ UNCHANGED <<started, local, overtook>>

\* cache.Delete, on this host only.
CacheDelete(r) ==
    /\ request[r].pc = "uncache" /\ Goto(r, "idle")
    /\ local' = [local EXCEPT ![request[r].host] = 0]
    /\ UNCHANGED <<started, catalog, overtook, victims>>

CatalogExpires ==
    /\ catalog # 0 /\ catalog' = 0
    /\ UNCHANGED <<started, local, request, overtook, victims>>

LocalExpires(h) ==
    /\ local[h] # 0 /\ local' = [local EXCEPT ![h] = 0]
    /\ UNCHANGED <<started, catalog, request, overtook, victims>>
-----------------------------------------------------------------------------
RequestStep(r) == CacheSet(r) \/ DeleteDel(r) \/ CacheDelete(r)

CatalogNext ==
    \/ CatalogExpires
    \/ \E h \in Hosts : LocalExpires(h)
    \/ \E r \in Requests :
           \/ RequestStep(r)
           \/ \E h \in Hosts : \/ GetSandbox(r, h) \/ StoreSandbox(r, h)
                               \/ \E e \in 1..started : DeleteSandbox(r, h, e)
-----------------------------------------------------------------------------
\* A late DeleteSandbox of an old execution removes the entry of a newer one only if that
\* was stored between its GET and its DEL (catalog_redis.go:118-136).
DeleteSparesOthers == victims \subseteq overtook
=============================================================================
