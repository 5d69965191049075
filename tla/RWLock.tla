------------------------------- MODULE RWLock -------------------------------
(***************************************************************************)
(* The reader-writer lock of pthread.c, one count: 1 is free, 0 is held by *)
(* a writer, and every reader takes 2 off.                                 *)
(*                                                                         *)
(* A writer that finds the lock taken makes SVC_CLOCK_WAIT, which has no   *)
(* handler: the call returns at once, with what osEventClockWait makes of  *)
(* a word it reads through thread_current, a pointer nothing sets.         *)
(*                                                                         *)
(* A loop around a conditional store is one step: what it stores depends   *)
(* on nothing but the count it replaces.                                   *)
(***************************************************************************)
EXTENDS Integers, FiniteSets

CONSTANTS
  User,       \* threads that use the lock
  MaxFree     \* bound: how far unlocks of nobody's lock raise the count

ASSUME RWLockAssumption == IsFiniteSet(User) /\ MaxFree \in Nat

VARIABLES
  rwCount,    \* rwlock->count
  readers, writers,   \* who was told it has the lock
  misled      \* history: a wrlock of a taken lock has reported it

rwVars == <<rwCount, readers, writers, misled>>

RWInit ==
  /\ rwCount = 1
  /\ readers = {} /\ writers = {}
  /\ misled = FALSE

Outside(t) == t \notin readers \cup writers

(* pthread_rwlock_trywrlock, and pthread_rwlock_wrlock of a free lock. *)
WrLock(t) ==
  /\ Outside(t) /\ rwCount > 0
  /\ rwCount' = 0
  /\ writers' = writers \cup {t}
  /\ UNCHANGED <<readers, misled>>

(* pthread_rwlock_wrlock of a lock that is taken: whether it reports the   *)
(* lock or an error depends on the word at an address near 0.              *)
WrTaken(t) ==
  /\ Outside(t) /\ rwCount <= 0
  /\ \/ UNCHANGED <<writers, misled>>
     \/ writers' = writers \cup {t} /\ misled' = TRUE
  /\ UNCHANGED <<rwCount, readers>>

SlipRdLock(t) ==
  /\ Outside(t)
  /\ rwCount' = rwCount - 2
  /\ readers' = readers \cup {t}
  /\ UNCHANGED <<writers, misled>>

(* pthread_rwlock_tryrdlock. *)
RdLock(t) ==
  /\ Outside(t) /\ rwCount # 0
  /\ rwCount' = rwCount - 2
  /\ readers' = readers \cup {t}
  /\ UNCHANGED <<writers, misled>>

SlipRWUnlock(t) ==
  /\ t \in readers \cup writers /\ rwCount < MaxFree
  /\ rwCount' = IF rwCount <= 0 THEN 1 ELSE rwCount + 2
  /\ readers' = readers \ {t} /\ writers' = writers \ {t}
  /\ UNCHANGED misled

(* pthread_rwlock_unlock, of either kind of holder. *)
RWUnlock(t) ==
  /\ t \in readers \cup writers /\ rwCount < MaxFree
  /\ rwCount' = IF rwCount = 0 THEN 1 ELSE rwCount + 2
  /\ readers' = readers \ {t} /\ writers' = writers \ {t}
  /\ UNCHANGED misled

RWNext ==
  \E t \in User : WrLock(t) \/ WrTaken(t) \/ RdLock(t) \/ RWUnlock(t)

RWSpec == RWInit /\ [][RWNext]_rwVars

-----------------------------------------------------------------------------
(* A writer is alone and a lock nobody holds is free, whatever locks and   *)
(* unlocks of several threads interleave on the one count, until a wrlock  *)
(* of a taken lock has reported a lock it did not get.                     *)
RWExclusion ==
  ~misled =>
    /\ writers # {} => readers = {} /\ Cardinality(writers) = 1
    /\ readers \cup writers = {} <=> rwCount = 1
=============================================================================
