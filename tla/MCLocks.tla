------------------------------ MODULE MCLocks -------------------------------
(***************************************************************************)
(* Instances of Locks for TLC.                                             *)
(***************************************************************************)
EXTENDS Locks, TLC

CONSTANTS mutex, queue, acquire   \* semaphores, model values

TokensOf == [s \in Sem |-> IF s = queue THEN 2 ELSE 1]
EachKind ==
  [s \in Sem |-> CASE s = mutex -> "osMutexWait"
                   [] s = queue -> "osMessageQueueGet"
                   [] s = acquire -> "osSemaphoreAcquire"]
Threads == Permutations(Thread)
=============================================================================
