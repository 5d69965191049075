--------------------------------- MODULE C11 --------------------------------
(***************************************************************************)
(* The mutex of c11_mutex.c: a count and the thread that took it last,     *)
(* which unlocking leaves there.                                           *)
(*                                                                         *)
(* mtx_timedlock of a mutex that is taken makes SVC_CLOCK_WAIT, which has  *)
(* no handler: the call returns at once and reads an event word that some  *)
(* earlier wait of the thread has left.                                    *)
(***************************************************************************)
EXTENDS Integers, FiniteSets

CONSTANTS
  Locker,     \* threads that use the mutex
  Leftover,   \* the event words earlier waits may have left: sets of flags
  MaxDepth,   \* bound: how deep a thread locks a mutex it owns
  MaxTaken,   \* bound: how far below 0 failed attempts take the count
  NULL

VARIABLES
  mtx,        \* mtx->count
  owner,      \* mtx->owner
  at,         \* where a thread is
  depth       \* how often it was told that it has the mutex

c11Vars == <<mtx, owner, at, depth>>

C11Init ==
  /\ mtx = 1 /\ owner = NULL
  /\ at = [t \in Locker |-> "out"]
  /\ depth = [t \in Locker |-> 0]

Go(t, place) == at' = [at EXCEPT ![t] = place]
Locked(t) == depth' = [depth EXCEPT ![t] = @ + 1] /\ Go(t, "out")

(* The semaphore_enter of mtx_trylock, from mtx_lock or by itself. *)
MtxEnter(t) ==
  /\ at[t] = "out" /\ depth[t] < MaxDepth /\ mtx >= -MaxTaken
  /\ mtx' = IF mtx # 0 THEN mtx - 1 ELSE mtx
  /\ Go(t, IF mtx > 0 THEN "took" ELSE "busy")
  /\ UNCHANGED <<owner, depth>>

(* The thread that took the count becomes the owner. *)
MtxOwn(t) ==
  /\ at[t] = "took"
  /\ owner' = t
  /\ Locked(t)
  /\ UNCHANGED mtx

(* The owner is compared.  Who finds itself there locks once more; others  *)
(* get thrd_busy, with which mtx_trylock returns.                          *)
MtxCompare(t) ==
  /\ at[t] = "busy"
  /\ \/ owner = t /\ mtx' = mtx - 1 /\ Locked(t)
     \/ owner # t /\ (Go(t, "out") \/ Go(t, "wait")) /\ UNCHANGED <<mtx, depth>>
  /\ UNCHANGED owner

(* mtx_timedlock comes back from its system call at once. *)
MtxNoWait(t) ==
  /\ at[t] = "wait"
  /\ \E word \in Leftover :
       IF "Semaphore" \in word
       THEN owner' = t /\ Locked(t)
       ELSE Go(t, "out") /\ UNCHANGED <<owner, depth>>
  /\ UNCHANGED mtx

MtxUnlock(t) ==
  /\ at[t] = "out" /\ depth[t] > 0
  /\ mtx' = mtx + 1
  /\ depth' = [depth EXCEPT ![t] = @ - 1]
  /\ UNCHANGED <<owner, at>>

C11Next ==
  \E t \in Locker :
    MtxEnter(t) \/ MtxOwn(t) \/ MtxCompare(t) \/ MtxNoWait(t) \/ MtxUnlock(t)

C11Spec == C11Init /\ [][C11Next]_c11Vars

-----------------------------------------------------------------------------
(* No two threads hold the mutex: while one has it, others get thrd_busy.  *)
C11Exclusion ==
  Cardinality({t \in Locker : depth[t] > 0 \/ at[t] = "took"}) <= 1
=============================================================================
