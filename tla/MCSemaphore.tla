----------------------------- MODULE MCSemaphore -----------------------------
(* A semaphore of two units for three callers, one of which needs both. *)
EXTENDS Semaphore

MCNeed == [c \in Callers |-> IF c = "big" THEN 2 ELSE 1]

SemSpec == SemInit /\ [][SemNext]_semVars /\ SemFairness
=============================================================================
