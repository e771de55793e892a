----------------------------- MODULE MemoryCache -----------------------------
(***************************************************************************)
(* The in-process cache (packages/shared/pkg/cache/memory.go), one entry  *)
(* and all that may be under way for it.                                  *)
(*                                                                         *)
(* Values are the versions of the data behind the cache; 0 is no entry.   *)
(* No lock is taken between reading the data and storing it.  Misses are  *)
(* deduplicated by asked key (fetchGroup); with ExtractKeyFunc what is    *)
(* asked for by "alias" is stored under "id".  Refreshes are deduplicated *)
(* by the stored item (its own "once"), so that a replaced item's refresh *)
(* and its successor's run together.  External: ttlcache; a hit touches   *)
(* the entry, which then lives for another TTL.                           *)
(***************************************************************************)
EXTENDS Integers

CONSTANTS
    Refreshes,      \* bound: refresh goroutines at once
    Setters,        \* bound: Set calls at once
    MaxMemVersion   \* bound: versions of the data

ASSUME MemAssumption == MaxMemVersion \in Nat \ {0}

MemAsked == {"id", "alias"}

VARIABLES
    data,       \* the version dataCallback reads
    mem,        \* the version the cache holds
    busy,       \* the held item has a refresh of its own
    flight,     \* fetchGroup
    job,        \* the refresh goroutines
    setter      \* the Set calls

memVars == <<data, mem, busy, flight, job, setter>>

MemVersions == 0..MaxMemVersion
NoFlight == [pc |-> "idle", val |-> 0]
Flight == [pc : {"idle", "check", "call", "store"}, val : MemVersions]

MemTypeOK ==
    /\ data \in 1..MaxMemVersion /\ mem \in MemVersions /\ busy \in BOOLEAN
    /\ flight \in [MemAsked -> Flight]
    /\ job \in [Refreshes -> Flight] /\ setter \in [Setters -> Flight]

MemInit ==
    /\ data = 1 /\ mem = 0 /\ busy = FALSE
    /\ flight = [k \in MemAsked |-> NoFlight]
    /\ job = [r \in Refreshes |-> NoFlight] /\ setter = [s \in Setters |-> NoFlight]
-----------------------------------------------------------------------------
DataUpdate ==
    /\ data < MaxMemVersion /\ data' = data + 1
    /\ UNCHANGED <<mem, busy, flight, job, setter>>

\* cache.Set and cache.Delete: a new item or none, with no refresh of its own.
Put(v) == mem' = v /\ busy' = FALSE

MemExpire == mem # 0 /\ Put(0) /\ UNCHANGED <<data, flight, job, setter>>
MemDelete == mem # 0 /\ Put(0) /\ UNCHANGED <<data, flight, job, setter>>

\* Set of what the caller has read before.
MemSet(s) ==
    \/ /\ setter[s].pc = "idle"
       /\ setter' = [setter EXCEPT ![s] = [pc |-> "store", val |-> data]]
       /\ UNCHANGED <<data, mem, busy, flight, job>>
    \/ /\ setter[s].pc = "store" /\ Put(setter[s].val)
       /\ setter' = [setter EXCEPT ![s] = NoFlight]
       /\ UNCHANGED <<data, flight, job>>

\* GetOrSet finds nothing and is the first to ask.
Miss(k) ==
    /\ flight[k].pc = "idle" /\ (k = "id" => mem = 0)
    /\ flight' = [flight EXCEPT ![k].pc = "check"]
    /\ UNCHANGED <<data, mem, busy, job, setter>>

\* getAndSet: look again, call, store under the value's own key.
GetAndSet(k) ==
    /\ \/ /\ flight[k].pc = "check"
          /\ flight' = [flight EXCEPT ![k].pc = IF k = "id" /\ mem # 0 THEN "idle" ELSE "call"]
          /\ UNCHANGED <<mem, busy>>
       \/ /\ flight[k].pc = "call"
          /\ \/ flight' = [flight EXCEPT ![k] = [pc |-> "store", val |-> data]]
             \/ flight' = [flight EXCEPT ![k] = NoFlight]
          /\ UNCHANGED <<mem, busy>>
       \/ /\ flight[k].pc = "store" /\ Put(flight[k].val)
          /\ flight' = [flight EXCEPT ![k] = NoFlight]
    /\ UNCHANGED <<data, job, setter>>

\* GetOrSet hits an item that is due: its value is returned, its refresh started.
HitDue(r) ==
    /\ mem # 0 /\ ~busy /\ job[r].pc = "idle"
    /\ busy' = TRUE /\ job' = [job EXCEPT ![r].pc = "call"]
    /\ UNCHANGED <<data, mem, flight, setter>>

\* Mutant of Refresh: a failed refresh leaves the item.
RefreshOrLeave(r) ==
    /\ \/ /\ job[r].pc = "call"
          /\ \/ job' = [job EXCEPT ![r] = [pc |-> "store", val |-> data]] /\ UNCHANGED <<mem, busy>>
             \/ job' = [job EXCEPT ![r] = NoFlight] /\ busy' = FALSE /\ UNCHANGED mem
       \/ job[r].pc = "store" /\ Put(job[r].val) /\ job' = [job EXCEPT ![r] = NoFlight]
    /\ UNCHANGED <<data, flight, setter>>

\* refresh: call, store; an error deletes the entry, whichever item it now is.
Refresh(r) ==
    /\ \/ /\ job[r].pc = "call"
          /\ \/ job' = [job EXCEPT ![r] = [pc |-> "store", val |-> data]] /\ UNCHANGED <<mem, busy>>
             \/ job' = [job EXCEPT ![r] = NoFlight] /\ Put(0)
       \/ job[r].pc = "store" /\ Put(job[r].val) /\ job' = [job EXCEPT ![r] = NoFlight]
    /\ UNCHANGED <<data, flight, setter>>
-----------------------------------------------------------------------------
MemNext ==
    \/ DataUpdate \/ MemExpire \/ MemDelete
    \/ \E s \in Setters : MemSet(s)
    \/ \E k \in MemAsked : Miss(k) \/ GetAndSet(k)
    \/ \E r \in Refreshes : HitDue(r) \/ Refresh(r)

\* Calls go on; an item is read after its RefreshInterval, or it is not and expires.
MemFairness ==
    /\ \A k \in MemAsked : WF_memVars(GetAndSet(k))
    /\ \A r \in Refreshes : WF_memVars(Refresh(r))
    /\ \A s \in Setters : WF_memVars(setter[s].pc = "store" /\ MemSet(s))
    /\ WF_memVars(MemExpire \/ \E r \in Refreshes : HitDue(r))
-----------------------------------------------------------------------------
\* Fetches, refreshes and Sets race with each other and with Delete, and an older value can
\* replace a newer one (memory.go:149, 178); but when the data no longer changes, the cache
\* holds the current version or none from some time on.
MemConverges == <>[](mem \in {0, data})
=============================================================================
