----------------------------- MODULE RedisCache ------------------------------
(***************************************************************************)
(* The cache shared through redis (packages/shared/pkg/cache/redis.go):   *)
(* what the instances of a program do with one entry, under a distributed *)
(* lock per asked key that expires by itself.                             *)
(*                                                                         *)
(* Values are the versions of the data behind the cache; 0 is no entry.   *)
(* With ExtractKeyFunc a value asked for by another key ("alias") is      *)
(* stored under its own ("id"), and the lock is that of the key asked     *)
(* for.  A task is one call that got through singleflight, which lets one *)
(* of a kind through per instance and key; tasks of different instances   *)
(* are not restrained.  The lock is configured (LockTTL # RedisLockOff).  *)
(* External: redis, whose commands are atomic and may fail; redislock,    *)
(* which releases a lock by its owner's token only; time.                 *)
(***************************************************************************)
EXTENDS Integers

CONSTANTS
    Tasks,          \* calls under way at once, over all instances
    MaxVersion      \* bound: versions of the data

ASSUME RedisAssumption == MaxVersion \in Nat \ {0}

Asked == {"id", "alias"}
Kinds == {"fetch", "refresh", "Delete", "DeleteByPrefix", "Set"}
NoTask == "no task"

VARIABLES
    db,         \* the version dataCallback reads
    entry,      \* the version redis holds
    ttl,        \* the entry has an expiry time
    lock,       \* the task that owns each lock; a task that ended without releasing it: Left
    task,       \* the calls under way
    floor,      \* history: what a Delete that had the lock was called to make visible
    staleBy     \* history: ways by which a value older than that was stored

redisVars == <<db, entry, ttl, lock, task, floor, staleBy>>

Left == "left"
ASSUME TasksAssumption == NoTask \notin Tasks /\ Left \notin Tasks
Versions == 0..MaxVersion
Idle == [pc |-> "idle", kind |-> "fetch", key |-> "id", locked |-> FALSE, val |-> 0]

RedisTypeOK ==
    /\ db \in 1..MaxVersion /\ entry \in Versions /\ ttl \in BOOLEAN /\ floor \in Versions
    /\ lock \in [Asked -> Tasks \cup {NoTask, Left}]
    /\ task \in [Tasks -> [pc : {"idle", "lock", "check", "call", "store", "release"},
                           kind : Kinds, key : Asked, locked : BOOLEAN, val : Versions]]
    /\ staleBy \subseteq {"fetch", "refresh", "alias", "Set", "overdue"}

RedisInit ==
    /\ db = 1 /\ entry = 0 /\ ttl = FALSE /\ lock = [k \in Asked |-> NoTask]
    /\ task = [t \in Tasks |-> Idle]
    /\ floor = 0 /\ staleBy = {}
-----------------------------------------------------------------------------
DbUpdate ==
    /\ db < MaxVersion /\ db' = db + 1
    /\ UNCHANGED <<entry, ttl, lock, task, floor, staleBy>>

\* The entry's time is over.
Expire ==
    /\ entry # 0 /\ ttl
    /\ entry' = 0 /\ ttl' = FALSE
    /\ UNCHANGED <<db, lock, task, floor, staleBy>>

\* LockTTL is over: the owner has died, or it is late.
LockExpires(k) ==
    /\ lock[k] # NoTask
    /\ lock' = [lock EXCEPT ![k] = NoTask]
    /\ UNCHANGED <<db, entry, ttl, task, floor, staleBy>>

\* A call is made.  GetOrSet by a key that has no entry, or when redis does not answer;
\* a refresh by a hit that finds the entry due (handleRefresh); DeleteByPrefix when
\* collectKeys finds the entry; Set with what its caller has read.  A Delete is called
\* after the data changed: what it saw then is to be visible afterwards.
StartCall(t, kind, k) ==
    /\ task[t].pc = "idle"
    /\ kind = "DeleteByPrefix" => entry # 0
    /\ kind = "refresh" => entry # 0 /\ ttl
    /\ k = "alias" => kind = "fetch"
    /\ task' = [task EXCEPT ![t] =
           [pc |-> IF kind \in {"fetch", "refresh", "Delete"} THEN "lock" ELSE "store",
            kind |-> kind, key |-> k, locked |-> FALSE,
            val |-> IF kind \in {"Set", "Delete"} THEN db ELSE 0]]
    /\ UNCHANGED <<db, entry, ttl, lock, floor, staleBy>>

AfterLock == [fetch |-> "check", refresh |-> "call", Delete |-> "store"]

AcquireLock(t) ==
    LET k == task[t].key IN
    /\ task[t].pc = "lock" /\ lock[k] = NoTask
    /\ lock' = [lock EXCEPT ![k] = t]
    /\ task' = [task EXCEPT ![t].pc = AfterLock[task[t].kind], ![t].locked = TRUE]
    /\ UNCHANGED <<db, entry, ttl, floor, staleBy>>

\* The lock is held for too long, or redis fails: a fetch and a Delete go on without
\* ("Continue without the lock to remove the stale data"), a refresh does not.
LockFails(t) ==
    /\ task[t].pc = "lock"
    /\ task' = [task EXCEPT ![t] = IF task[t].kind = "refresh" THEN Idle
                                   ELSE [task[t] EXCEPT !.pc = AfterLock[task[t].kind]]]
    /\ UNCHANGED <<db, entry, ttl, lock, floor, staleBy>>

\* The second look at redis, which may fail; under another key there is never anything.
DoubleCheck(t) ==
    /\ task[t].pc = "check"
    /\ \/ task' = [task EXCEPT ![t].pc = "call"]
       \/ /\ task[t].key = "id" /\ entry # 0
          /\ task' = [task EXCEPT ![t].pc = "release"]
    /\ UNCHANGED <<db, entry, ttl, lock, floor, staleBy>>

\* dataCallback reads the data, or fails.
Callback(t) ==
    /\ task[t].pc = "call"
    /\ \/ task' = [task EXCEPT ![t].pc = "store", ![t].val = db]
       \/ task' = [task EXCEPT ![t].pc = "release"]
    /\ UNCHANGED <<db, entry, ttl, lock, floor, staleBy>>

\* The task's own lock is no longer its own.
Overdue(t) == task[t].locked /\ lock[task[t].key] # t

Way(t) == IF Overdue(t) THEN "overdue"
          ELSE IF task[t].key = "alias" THEN "alias" ELSE task[t].kind

\* Mutant of MayStore: a fetch backfills also without the lock.
MayStoreAnyway(t) == task[t].kind \in {"fetch", "refresh", "Set"}

\* A fetch without the lock skips the backfill.
MayStore(t) == task[t].kind \in {"refresh", "Set"} \/ (task[t].kind = "fetch" /\ task[t].locked)

\* Mutant of SetInRedis: the value is stored without an expiry time.
SetForever(t) ==
    /\ task[t].pc = "store" /\ MayStore(t)
    /\ entry' = task[t].val /\ ttl' = FALSE
    /\ staleBy' = IF task[t].val < floor THEN staleBy \cup {Way(t)} ELSE staleBy
    /\ task' = [task EXCEPT ![t].pc = "release", ![t].val = 0]
    /\ UNCHANGED <<db, lock, floor>>

\* setInRedis.
SetInRedis(t) ==
    /\ task[t].pc = "store" /\ MayStore(t)
    /\ entry' = task[t].val /\ ttl' = TRUE
    /\ staleBy' = IF task[t].val < floor THEN staleBy \cup {Way(t)} ELSE staleBy
    /\ task' = [task EXCEPT ![t].pc = "release", ![t].val = 0]
    /\ UNCHANGED <<db, lock, floor>>

\* DEL, by Delete or in DeleteByPrefix's pipeline; the history counts a Delete that still
\* has its lock.
Del(t) ==
    /\ task[t].pc = "store" /\ task[t].kind \in {"Delete", "DeleteByPrefix"}
    /\ entry' = 0 /\ ttl' = FALSE
    /\ floor' = IF task[t].locked /\ ~Overdue(t) /\ task[t].val > floor
                THEN task[t].val ELSE floor
    /\ task' = [task EXCEPT ![t].pc = "release", ![t].val = 0]
    /\ UNCHANGED <<db, lock, staleBy>>

\* The command fails, or is left out.
StoresNothing(t) ==
    /\ task[t].pc = "store"
    /\ task' = [task EXCEPT ![t].pc = "release", ![t].val = 0]
    /\ UNCHANGED <<db, entry, ttl, lock, floor, staleBy>>

\* The task is over, and its own lock released or left to expire.
End(t, l) ==
    LET k == task[t].key IN
    /\ task' = [task EXCEPT ![t] = Idle]
    /\ lock' = IF task[t].locked /\ lock[k] = t THEN [lock EXCEPT ![k] = l] ELSE lock
    /\ UNCHANGED <<db, entry, ttl, floor, staleBy>>

\* The deferred releaseLock, which may fail.
ReleaseOwnLock(t) == task[t].pc = "release" /\ \E l \in {NoTask, Left} : End(t, l)

\* The instance dies.
InstanceDies(t) == task[t].pc # "idle" /\ End(t, Left)
-----------------------------------------------------------------------------
TaskStep(t) == \/ AcquireLock(t) \/ LockFails(t) \/ DoubleCheck(t) \/ Callback(t)
               \/ SetInRedis(t) \/ Del(t) \/ StoresNothing(t) \/ ReleaseOwnLock(t)

RedisNext ==
    \/ DbUpdate \/ Expire
    \/ \E k \in Asked : LockExpires(k)
    \/ \E t \in Tasks : \/ \E kind \in Kinds, k \in Asked : StartCall(t, kind, k)
                        \/ TaskStep(t) \/ InstanceDies(t)

\* A call goes on; an entry that is no longer the data's is stored finitely often and
\* expires.
RedisFairness ==
    /\ \A t \in Tasks : WF_redisVars(TaskStep(t))
    /\ WF_redisVars(entry # db /\ Expire)
-----------------------------------------------------------------------------
\* After a Delete that had the lock, no fetch and no refresh of the key stores what is
\* older than the Delete was called for.  What can: a Set, which takes no lock
\* (redis.go:161); a fetch by another key, which holds that key's lock (redis.go:150 under
\* the lock of redis.go:119); an owner that outlived its lock.
LockedDeleteSticks == staleBy \subseteq {"Set", "alias", "overdue"}

\* Whatever was stored, by whatever way: when the data no longer changes, the cache holds
\* the current version or none from some time on (setInRedis, redis.go:385: TTL).
RedisConverges == <>[](entry \in {0, db})
=============================================================================
