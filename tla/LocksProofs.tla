----------------------------- MODULE LocksProofs ----------------------------
(***************************************************************************)
(* The reader-writer lock of pthread.c, for any number of threads: its     *)
(* count says how many threads hold it and as what, and a step moves one   *)
(* thread.                                                                 *)
(***************************************************************************)
EXTENDS Locks, FiniteSetTheorems, TLAPS

(* A set with one element more or less. *)
LEMMA AddOne ==
  ASSUME NEW S, IsFiniteSet(S), NEW x
  PROVE  /\ Cardinality(S) \in Nat
         /\ IsFiniteSet(S \cup {x}) /\ IsFiniteSet(S \ {x})
         /\ x \notin S => Cardinality(S \cup {x}) = Cardinality(S) + 1
         /\ x \in S => Cardinality(S \ {x}) = Cardinality(S) - 1
         /\ x \in S => Cardinality(S) > 0
BY FS_AddElement, FS_RemoveElement, FS_CardinalityType, FS_EmptySet

(***************************************************************************)
(* The invariant.                                                          *)
(***************************************************************************)

(* Exclusion is not inductive: that a reader may enter beside the others   *)
(* and the lock is free after the last of them depends on the count being  *)
(* exactly what its holders have taken off.                                *)
RWAccounts ==
  /\ readers \subseteq User /\ writers \subseteq User
  /\ \/ readers = {} /\ writers = {} /\ rwCount = 1
     \/ readers = {} /\ rwCount = 0 /\ \E t \in User : writers = {t}
     \/ readers # {} /\ writers = {} /\ rwCount = 1 - 2 * Cardinality(readers)

RWInv == misled \/ RWAccounts

LEMMA ReadersCount ==
  ASSUME RWAccounts
  PROVE  /\ IsFiniteSet(readers) /\ Cardinality(readers) \in Nat
         /\ readers # {} => Cardinality(readers) > 0 /\ rwCount < 0
<1>1. IsFiniteSet(readers)
  BY RWLockAssumption, FS_Subset DEF RWAccounts
<1>2. Cardinality(readers) \in Nat /\ (readers # {} => Cardinality(readers) > 0)
  BY <1>1, AddOne
<1>3. readers # {} => rwCount = 1 - 2 * Cardinality(readers)
  BY DEF RWAccounts
<1> QED  BY <1>1, <1>2, <1>3

LEMMA RWKeeps ==
  ASSUME RWInv, [RWNext]_rwVars
  PROVE  RWInv'
<1> SUFFICES ASSUME ~misled, ~misled'  PROVE RWAccounts'
  <2>1. misled => misled'
    BY DEF RWNext, WrLock, WrTaken, RdLock, RWUnlock, rwVars
  <2> QED  BY <2>1 DEF RWInv
<1>a. RWAccounts
  BY DEF RWInv
<1>f. /\ IsFiniteSet(readers) /\ Cardinality(readers) \in Nat
      /\ readers # {} => Cardinality(readers) > 0 /\ rwCount < 0
  BY <1>a, ReadersCount
<1>1. ASSUME NEW t \in User, WrLock(t)  PROVE RWAccounts'
  <2>1. readers = {} /\ writers = {} /\ rwCount' = 0
    BY <1>1, <1>a, <1>f DEF WrLock, RWAccounts
  <2>2. readers' = {} /\ writers' = {t}
    BY <1>1, <2>1 DEF WrLock
  <2> QED  BY <2>1, <2>2 DEF RWAccounts
<1>2. ASSUME NEW t \in User, WrTaken(t)  PROVE RWAccounts'
  <2>1. UNCHANGED rwVars
    BY <1>2 DEF WrTaken, rwVars
  <2> QED  BY <1>a, <2>1 DEF rwVars, RWAccounts
<1>3. ASSUME NEW t \in User, RdLock(t)  PROVE RWAccounts'
  <2>1. writers = {} /\ writers' = {} /\ t \notin readers
    BY <1>3, <1>a DEF RdLock, Outside, RWAccounts
  <2>2. readers' = readers \cup {t} /\ rwCount' = rwCount - 2
    BY <1>3 DEF RdLock
  <2>3. Cardinality(readers') = Cardinality(readers) + 1
    BY <1>f, <2>1, <2>2, AddOne
  <2>4. rwCount = 1 - 2 * Cardinality(readers)
    <3>1. readers = {} => Cardinality(readers) = 0
      BY FS_EmptySet
    <3> QED  BY <1>3, <1>a, <2>1, <3>1 DEF RdLock, RWAccounts
  <2>5. rwCount' = 1 - 2 * Cardinality(readers')
    BY <1>f, <2>2, <2>3, <2>4
  <2>6. readers' \subseteq User /\ readers' # {}
    BY <1>a, <2>2 DEF RWAccounts
  <2> QED  BY <2>1, <2>5, <2>6 DEF RWAccounts
<1>4. ASSUME NEW t \in User, RWUnlock(t)  PROVE RWAccounts'
  <2>1. CASE t \in writers
    <3>1. readers = {} /\ writers = {t} /\ rwCount = 0
      BY <1>a, <2>1 DEF RWAccounts
    <3>2. readers' = {} /\ writers' = {} /\ rwCount' = 1
      BY <1>4, <3>1 DEF RWUnlock
    <3> QED  BY <3>2 DEF RWAccounts
  <2>2. CASE t \notin writers
    <3>1. t \in readers /\ readers' = readers \ {t}
      BY <1>4, <2>2 DEF RWUnlock
    <3>2. writers = {} /\ writers' = {} /\ rwCount = 1 - 2 * Cardinality(readers)
      BY <1>4, <1>a, <3>1 DEF RWUnlock, RWAccounts
    <3>3. rwCount' = rwCount + 2
      BY <1>4, <1>f, <3>1 DEF RWUnlock
    <3>4. Cardinality(readers') = Cardinality(readers) - 1
      BY <1>f, <3>1, AddOne
    <3>5. rwCount' = 1 - 2 * Cardinality(readers')
      BY <1>f, <3>2, <3>3, <3>4
    <3>6. readers' = {} => Cardinality(readers') = 0
      BY FS_EmptySet
    <3>7. readers' \subseteq User
      BY <1>a, <3>1 DEF RWAccounts
    <3> QED  BY <3>2, <3>5, <3>6, <3>7 DEF RWAccounts
  <2> QED  BY <2>1, <2>2
<1>5. ASSUME UNCHANGED rwVars  PROVE RWAccounts'
  BY <1>a, <1>5 DEF rwVars, RWAccounts
<1> QED  BY <1>1, <1>2, <1>3, <1>4, <1>5 DEF RWNext

(* Until a wrlock of a taken lock has reported a lock it did not get, a    *)
(* writer of pthread.c's lock is alone and a lock nobody holds is free,    *)
(* for any number of threads.                                              *)
THEOREM RWExclusionCorrect == Spec => []RWExclusion
<1>1. Init => RWInv
  BY DEF Init, RWInit, RWInv, RWAccounts
<1>2. RWInv /\ [Next]_vars => RWInv'
  <2> SUFFICES ASSUME RWInv, [Next]_vars  PROVE RWInv'
    OBVIOUS
  <2>1. [RWNext]_rwVars
    BY DEF Next, vars
  <2> QED  BY <2>1, RWKeeps
<1>3. RWInv => RWExclusion
  <2>1. ASSUME RWAccounts, writers # {}  PROVE readers = {} /\ Cardinality(writers) = 1
    BY <2>1, FS_Singleton DEF RWAccounts
  <2>2. ASSUME RWAccounts  PROVE readers \cup writers = {} <=> rwCount = 1
    BY <2>2, ReadersCount DEF RWAccounts
  <2> QED  BY <2>1, <2>2 DEF RWInv, RWExclusion
<1> QED  BY <1>1, <1>2, <1>3, PTL DEF Spec
=============================================================================
