------------------------------ MODULE Semaphore ------------------------------
(***************************************************************************)
(* The semaphore with an adjustable limit                                 *)
(* (packages/shared/pkg/utils/resizable_semaphore.go).                    *)
(*                                                                         *)
(* Everything but one thing happens under the mutex and is one step.  The *)
(* exception is Acquire on its way into cond.Wait: when its context ends, *)
(* context.AfterFunc broadcasts in a goroutine of its own, without the    *)
(* mutex, also between the look at ctx.Err and the wait.                  *)
(***************************************************************************)
EXTENDS Integers, FiniteSets

CONSTANTS
    Callers,        \* goroutines, each with one call of Acquire or TryAcquire
    Need,           \* how much each asks for
    Limits          \* the limits that are set, all > 0

ASSUME SemaphoreAssumption ==
    Limits \subseteq Nat \ {0} /\ Limits # {} /\ Need \in [Callers -> Nat \ {0}]

VARIABLES
    used, limit,
    sem,            \* where each caller is; "entering" Wait it holds the mutex
    done,           \* callers whose context has ended
    broadcast       \* callers whose AfterFunc has run

semVars == <<used, limit, sem, done, broadcast>>

SemTypeOK ==
    /\ used \in Nat /\ limit \in Limits
    /\ sem \in [Callers -> {"new", "entering", "asleep", "awake", "held", "failed", "over"}]
    /\ done \subseteq Callers /\ broadcast \subseteq done

SemInit ==
    /\ used = 0 /\ limit \in Limits
    /\ sem = [c \in Callers |-> "new"] /\ done = {} /\ broadcast = {}
-----------------------------------------------------------------------------
MutexFree == \A c \in Callers : sem[c] # "entering"
Fits(c) == used + Need[c] <= limit

\* cond.Broadcast wakes all that are asleep.
Awakened(s) == [c \in Callers |-> IF s[c] = "asleep" THEN "awake" ELSE s[c]]

\* Acquire's loop: there is room, or the context has ended, or it waits.
Acquire(c) ==
    /\ sem[c] \in {"new", "awake"} /\ MutexFree
    /\ used' = IF Fits(c) THEN used + Need[c] ELSE used
    /\ sem' = [sem EXCEPT ![c] = IF Fits(c) THEN "held"
                                 ELSE IF c \in done THEN "failed" ELSE "entering"]
    /\ UNCHANGED <<limit, done, broadcast>>

\* cond.Wait: on the list of sleepers, and the mutex is free.
Wait(c) ==
    /\ sem[c] = "entering" /\ sem' = [sem EXCEPT ![c] = "asleep"]
    /\ UNCHANGED <<used, limit, done, broadcast>>

ContextEnds(c) ==
    /\ c \notin done /\ done' = done \cup {c}
    /\ UNCHANGED <<used, limit, sem, broadcast>>

\* AfterFunc, until Acquire's deferred stop().
AfterFunc(c) ==
    /\ c \in done \ broadcast /\ sem[c] \in {"entering", "asleep", "awake"}
    /\ broadcast' = broadcast \cup {c} /\ sem' = Awakened(sem)
    /\ UNCHANGED <<used, limit, done>>

TryAcquire(c) ==
    /\ sem[c] = "new" /\ MutexFree
    /\ used' = IF Fits(c) THEN used + Need[c] ELSE used
    /\ sem' = [sem EXCEPT ![c] = IF Fits(c) THEN "held" ELSE "failed"]
    /\ UNCHANGED <<limit, done, broadcast>>

SetLimit(l) ==
    /\ MutexFree /\ l # limit
    /\ limit' = l /\ sem' = Awakened(sem)
    /\ UNCHANGED <<used, done, broadcast>>

\* Mutant of SemRelease: one sleeper is woken, as Signal would.
ReleaseSignal(c) ==
    /\ sem[c] = "held" /\ MutexFree
    /\ used' = used - Need[c]
    /\ \E d \in Callers :
           /\ (\A x \in Callers : sem[x] # "asleep") \/ sem[d] = "asleep"
           /\ sem' = [[sem EXCEPT ![c] = "over"]
                         EXCEPT ![d] = IF @ = "asleep" THEN "awake" ELSE @]
    /\ UNCHANGED <<limit, done, broadcast>>

\* Release of what was acquired.
SemRelease(c) ==
    /\ sem[c] = "held" /\ MutexFree
    /\ used' = used - Need[c] /\ sem' = Awakened([sem EXCEPT ![c] = "over"])
    /\ UNCHANGED <<limit, done, broadcast>>
-----------------------------------------------------------------------------
SemNext ==
    \/ \E l \in Limits : SetLimit(l)
    \/ \E c \in Callers : \/ Acquire(c) \/ Wait(c) \/ TryAcquire(c) \/ SemRelease(c)
                          \/ ContextEnds(c) \/ AfterFunc(c)

\* A goroutine that can run does.  Nothing obliges a holder to release.
SemFairness ==
    \A c \in Callers : /\ WF_semVars(sem[c] = "awake" /\ Acquire(c))
                       /\ WF_semVars(Wait(c)) /\ WF_semVars(AfterFunc(c))
-----------------------------------------------------------------------------
\* No caller sleeps while there is room for it: whatever order limits are set, smaller
\* callers overtake, and holders release in, the change that makes room wakes it
\* (resizable_semaphore.go:46-53, 77-105).
NoneSleepsOnRoom == \A c \in Callers : sem[c] = "asleep" => ~Fits(c)

\* "Wake ->cond.Wait when ctx is canceled." (resizable_semaphore.go:42): an Acquire whose
\* context has ended returns.
CancelWakes == \A c \in Callers :
    (c \in done /\ sem[c] \in {"entering", "asleep"}) ~> sem[c] \in {"held", "failed", "over"}
=============================================================================
