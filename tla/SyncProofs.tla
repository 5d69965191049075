----------------------------- MODULE SyncProofs -----------------------------
(***************************************************************************)
(* What the calls over SVC_EVENT_WAIT make of the event word, for any      *)
(* number of threads and semaphores: those that fail on a timeout never    *)
(* make up a token, those that succeed on a grant never lose one.          *)
(*                                                                         *)
(* What a call will report depends on how the wait ended, so the invariant *)
(* relates the word of a thread inside a call to what the kernel gave it   *)
(* (Calls), and a thread outside of one to what it was told (Told).        *)
(***************************************************************************)
EXTENDS Sync, FiniteSetTheorems, TLAPS

(* The calls that fail on a timeout, and those that succeed on a grant. *)
Strict(s) ==
  Kind[s] \in {"osSemaphoreAcquire", "osMemoryPoolAlloc", "osMessageQueueGet"}
Keeping(s) ==
  Kind[s] \in {"osMutexWait", "osSemaphoreWait", "osMessageQueueGet"}

Counts ==
  \A s \in Sem :
    /\ Strict(s) => sem[s] + Cardinality(holders[s]) <= Tokens[s]
    /\ Keeping(s) => sem[s] + Cardinality(holders[s]) >= Tokens[s]

Waiting(t) ==
  status[t] = {"Semaphore", "Timeout"} /\ wsem[t] = on[t]
    /\ \A s \in on[t] : t \notin holders[s]
Granted(t) ==
  status[t] = {"Semaphore", "Running"} /\ \A s \in on[t] : t \in holders[s]
GaveUp(t) ==
  status[t] = {"Timeout", "Running"} /\ \A s \in on[t] : t \notin holders[s]

Call(t) ==
  /\ pc[t] \in {"idle", "busy"} => Runnable(t)
  /\ IF pc[t] = "idle" THEN on[t] = {} ELSE \E s \in Sem : on[t] = {s}
  /\ on[t] \cap believes[t] = {}
  /\ pc[t] = "busy" => \A s \in on[t] : t \notin holders[s]
  /\ pc[t] = "wait" => Waiting(t) \/ Granted(t) \/ GaveUp(t)

Told(t) ==
  \A s \in Sem : s \notin on[t] =>
    /\ t \in holders[s] => s \in believes[t]
    /\ Strict(s) /\ s \in believes[t] => t \in holders[s]

Calls == \A t \in Thread : Call(t) /\ Told(t)

SyncInv == SyncTypeOK /\ Counts /\ Calls

(***************************************************************************)
(* Counts.                                                                 *)
(***************************************************************************)

(* A token taken stays accounted for. *)
LEMMA TakeCounts ==
  ASSUME SyncTypeOK, Counts, NEW t \in Thread, NEW s \in Sem,
         sem[s] > 0, t \notin holders[s],
         sem' = [sem EXCEPT ![s] = @ - 1],
         holders' = [holders EXCEPT ![s] = @ \cup {t}]
  PROVE  Counts' /\ sem' \in [Sem -> Nat] /\ holders' \in [Sem -> SUBSET Thread]
<1>1. sem \in [Sem -> Nat] /\ holders \in [Sem -> SUBSET Thread]
  BY DEF SyncTypeOK
<1>2. IsFiniteSet(holders[s]) /\ Cardinality(holders[s]) \in Nat
  BY <1>1, ThreadsAssumption, FS_Subset, FS_CardinalityType
<1>3. Cardinality(holders[s] \cup {t}) = Cardinality(holders[s]) + 1
  BY <1>2, FS_AddElement
<1>4. /\ sem'[s] = sem[s] - 1 /\ holders'[s] = holders[s] \cup {t}
      /\ \A r \in Sem \ {s} : sem'[r] = sem[r] /\ holders'[r] = holders[r]
  BY <1>1
<1>5. sem'[s] + Cardinality(holders'[s]) = sem[s] + Cardinality(holders[s])
  <2>1. Cardinality(holders'[s]) = Cardinality(holders[s]) + 1 /\ sem'[s] = sem[s] - 1
    BY <1>3, <1>4
  <2>2. sem[s] \in Nat
    BY <1>1
  <2> QED  BY <1>2, <2>1, <2>2
<1>6. Counts'
  BY <1>4, <1>5 DEF Counts, Strict, Keeping
<1>7. sem[s] - 1 \in Nat
  BY <1>1
<1> QED  BY <1>1, <1>6, <1>7

(* A token given back stays accounted for; who gives back one it does not  *)
(* hold was told so by a call that may take a timeout for a token.         *)
LEMMA LeaveCounts ==
  ASSUME SyncTypeOK, Counts, NEW t \in Thread, NEW s \in Sem,
         Strict(s) => t \in holders[s],
         sem' = [sem EXCEPT ![s] = @ + 1],
         holders' = [holders EXCEPT ![s] = @ \ {t}]
  PROVE  Counts' /\ sem' \in [Sem -> Nat] /\ holders' \in [Sem -> SUBSET Thread]
<1>1. sem \in [Sem -> Nat] /\ holders \in [Sem -> SUBSET Thread]
  BY DEF SyncTypeOK
<1>2. IsFiniteSet(holders[s]) /\ Cardinality(holders[s]) \in Nat
  BY <1>1, ThreadsAssumption, FS_Subset, FS_CardinalityType
<1>3. Cardinality(holders[s] \ {t}) =
        IF t \in holders[s] THEN Cardinality(holders[s]) - 1 ELSE Cardinality(holders[s])
  <2>1. t \notin holders[s] => holders[s] \ {t} = holders[s]
    OBVIOUS
  <2> QED  BY <1>2, <2>1, FS_RemoveElement
<1>4. /\ sem'[s] = sem[s] + 1 /\ holders'[s] = holders[s] \ {t}
      /\ \A r \in Sem \ {s} : sem'[r] = sem[r] /\ holders'[r] = holders[r]
  BY <1>1
<1>5. /\ sem'[s] + Cardinality(holders'[s]) >= sem[s] + Cardinality(holders[s])
      /\ t \in holders[s] =>
           sem'[s] + Cardinality(holders'[s]) = sem[s] + Cardinality(holders[s])
  <2>1. /\ sem'[s] = sem[s] + 1
        /\ Cardinality(holders'[s]) =
             IF t \in holders[s] THEN Cardinality(holders[s]) - 1
                                 ELSE Cardinality(holders[s])
    BY <1>3, <1>4
  <2>2. sem[s] \in Nat
    BY <1>1
  <2> QED  BY <1>2, <2>1, <2>2
<1>6. /\ sem[s] + Cardinality(holders[s]) \in Nat /\ Tokens[s] \in Nat
      /\ sem'[s] + Cardinality(holders'[s]) \in Nat
  <2>1. sem'[s] \in Nat /\ sem[s] \in Nat
    BY <1>1, <1>4
  <2>2. IsFiniteSet(holders'[s])
    BY <1>2, <1>4, FS_RemoveElement
  <2> QED  BY <1>2, <2>1, <2>2, TokensAssumption, FS_CardinalityType
<1>7. /\ Strict(s) => sem'[s] + Cardinality(holders'[s]) <= Tokens[s]
      /\ Keeping(s) => sem'[s] + Cardinality(holders'[s]) >= Tokens[s]
  <2> DEFINE before == sem[s] + Cardinality(holders[s])
             after == sem'[s] + Cardinality(holders'[s])
  <2>1. /\ Strict(s) => before <= Tokens[s]
        /\ Keeping(s) => before >= Tokens[s]
    BY DEF Counts
  <2>2. before \in Nat /\ after \in Nat /\ Tokens[s] \in Nat /\ after >= before
        /\ (Strict(s) => after = before)
    BY <1>5, <1>6
  <2> HIDE DEF before, after
  <2>3. (Strict(s) => after <= Tokens[s]) /\ (Keeping(s) => after >= Tokens[s])
    BY <2>1, <2>2
  <2> QED  BY <2>3 DEF after
<1>8. Counts'
  BY <1>4, <1>7 DEF Counts, Strict, Keeping
<1> QED  BY <1>1, <1>8

(* A token a call does not report is lost, if its kind allows that. *)
LEMMA DropCounts ==
  ASSUME SyncTypeOK, Counts, NEW t \in Thread, NEW s \in Sem,
         Keeping(s) => t \notin holders[s], sem' = sem,
         holders' = [holders EXCEPT ![s] = @ \ {t}]
  PROVE  Counts' /\ holders' \in [Sem -> SUBSET Thread]
<1>1. sem \in [Sem -> Nat] /\ holders \in [Sem -> SUBSET Thread]
  BY DEF SyncTypeOK
<1>2. /\ holders'[s] = holders[s] \ {t}
      /\ \A r \in Sem \ {s} : holders'[r] = holders[r]
  BY <1>1
<1>3. IsFiniteSet(holders[s]) /\ Cardinality(holders[s]) \in Nat
  BY <1>1, ThreadsAssumption, FS_Subset, FS_CardinalityType
<1>4. /\ Cardinality(holders'[s]) \in Nat
      /\ Cardinality(holders'[s]) <= Cardinality(holders[s])
      /\ t \notin holders[s] => holders'[s] = holders[s]
  BY <1>2, <1>3, FS_Subset, FS_CardinalityType
<1>5. /\ Strict(s) => sem[s] + Cardinality(holders'[s]) <= Tokens[s]
      /\ Keeping(s) => sem[s] + Cardinality(holders'[s]) >= Tokens[s]
  <2>1. /\ Strict(s) => sem[s] + Cardinality(holders[s]) <= Tokens[s]
        /\ Keeping(s) => sem[s] + Cardinality(holders[s]) >= Tokens[s]
    BY DEF Counts
  <2>2. sem[s] \in Nat /\ Tokens[s] \in Nat
    BY <1>1, TokensAssumption
  <2>3. Keeping(s) => holders'[s] = holders[s]
    BY <1>4
  <2>4. Strict(s) => sem[s] + Cardinality(holders'[s]) <= Tokens[s]
    BY <1>3, <1>4, <2>1, <2>2
  <2> QED  BY <2>1, <2>3, <2>4
<1>6. Counts'
  BY <1>2, <1>5 DEF Counts, Strict, Keeping
<1> QED  BY <1>1, <1>6

(***************************************************************************)
(* The invariant.                                                          *)
(***************************************************************************)

LEMMA SyncStart == SyncInit => SyncInv
<1> SUFFICES ASSUME SyncInit  PROVE SyncInv
  OBVIOUS
<1>1. SyncTypeOK
  BY TokensAssumption DEF SyncInit, SyncTypeOK, Flags
<1>2. Counts
  <2>1. \A s \in Sem : holders[s] = {} /\ sem[s] = Tokens[s] /\ Tokens[s] \in Nat
    BY TokensAssumption DEF SyncInit
  <2> QED  BY <2>1, FS_EmptySet DEF Counts
<1>3. Calls
  BY DEF SyncInit, Calls, Call, Told, Runnable
<1> QED  BY <1>1, <1>2, <1>3 DEF SyncInv

(* The calls of the other threads are as they were. *)
LEMMA OthersKeep ==
  ASSUME SyncInv, NEW t \in Thread,
         \A u \in Thread \ {t} :
           /\ status'[u] = status[u] /\ wsem'[u] = wsem[u] /\ pc'[u] = pc[u]
           /\ on'[u] = on[u] /\ believes'[u] = believes[u],
         \A u \in Thread \ {t}, s \in Sem : u \in holders'[s] <=> u \in holders[s],
         Call(t)', Told(t)'
  PROVE  Calls'
<1>1. \A u \in Thread : on[u] \subseteq Sem
  BY DEF SyncInv, SyncTypeOK
<1>2. ASSUME NEW u \in Thread \ {t}  PROVE Call(u)' /\ Told(u)'
  <2>1. /\ Runnable(u)' <=> Runnable(u)
        /\ Waiting(u)' <=> Waiting(u)
        /\ Granted(u)' <=> Granted(u)
        /\ GaveUp(u)' <=> GaveUp(u)
    BY <1>1 DEF Runnable, Waiting, Granted, GaveUp
  <2>2. Call(u) /\ Told(u)
    BY DEF SyncInv, Calls
  <2>3. Call(u)'
    BY <1>1, <2>1, <2>2 DEF Call
  <2>4. Told(u)'
    BY <2>2 DEF Told, Strict
  <2> QED  BY <2>3, <2>4
<1> QED  BY <1>2 DEF Calls

(* A call enters or gives back. *)
LEMMA EnterKeeps ==
  ASSUME SyncInv, NEW t \in Thread, NEW s \in Sem,
         EnterFree(t, s) \/ EnterBusy(t, s) \/ Release(t, s)
  PROVE  SyncInv'
<1>0. /\ SyncTypeOK /\ Counts /\ Call(t) /\ Told(t)
      /\ status \in [Thread -> SUBSET Flags] /\ wsem \in [Thread -> SUBSET Sem]
      /\ pc \in [Thread -> {"idle", "busy", "wait"}] /\ on \in [Thread -> SUBSET Sem]
      /\ believes \in [Thread -> SUBSET Sem] /\ holders \in [Sem -> SUBSET Thread]
  BY DEF SyncInv, SyncTypeOK, Calls
<1>i. pc[t] = "idle" /\ Runnable(t) /\ on[t] = {}
  BY <1>0 DEF EnterFree, EnterBusy, Release, Idle, Call
<1>1. CASE EnterFree(t, s)
  <2>1. t \notin holders[s]
    BY <1>0, <1>1, <1>i DEF EnterFree, Told
  <2>2. Counts' /\ sem' \in [Sem -> Nat] /\ holders' \in [Sem -> SUBSET Thread]
    BY <1>0, <1>1, <2>1, TakeCounts DEF EnterFree
  <2>3. SyncTypeOK'
    BY <1>0, <1>1, <2>2 DEF EnterFree, SyncTypeOK
  <2>4. /\ UNCHANGED <<status, wsem, pc, on>>
        /\ \A u \in Thread \ {t} : believes'[u] = believes[u]
        /\ \A u \in Thread \ {t}, r \in Sem : u \in holders'[r] <=> u \in holders[r]
        /\ \A r \in Sem : (r \in believes'[t] <=> r \in believes[t] \/ r = s)
                          /\ (t \in holders'[r] <=> t \in holders[r] \/ r = s)
    BY <1>0, <1>1 DEF EnterFree
  <2>5. Call(t)' /\ Told(t)'
    BY <1>0, <1>i, <2>4 DEF Call, Told, Runnable, Strict
  <2>6. Calls'
    BY <2>4, <2>5, OthersKeep
  <2> QED  BY <2>2, <2>3, <2>6 DEF SyncInv
<1>2. CASE EnterBusy(t, s)
  <2>1. UNCHANGED <<status, wsem, sem, holders, believes>> /\ s \notin believes[t]
    BY <1>2 DEF EnterBusy, eventWaitVars
  <2>2. /\ on'[t] = {s} /\ pc'[t] = "busy"
        /\ \A u \in Thread \ {t} : on'[u] = on[u] /\ pc'[u] = pc[u]
    BY <1>0, <1>2 DEF EnterBusy
  <2>3. t \notin holders[s]
    BY <1>0, <1>i, <2>1 DEF Told
  <2>4. Call(t)'
    BY <1>i, <2>1, <2>2, <2>3 DEF Call, Runnable
  <2>5. Told(t)'
    BY <1>0, <1>i, <2>1, <2>2 DEF Told, Strict
  <2>6. Calls'
    BY <2>1, <2>2, <2>4, <2>5, OthersKeep
  <2>7. SyncTypeOK' /\ Counts'
    BY <1>0, <1>2, <2>1 DEF EnterBusy, SyncTypeOK, Counts, Strict, Keeping
  <2> QED  BY <2>6, <2>7 DEF SyncInv
<1>3. CASE Release(t, s)
  <2>1. Strict(s) => t \in holders[s]
    BY <1>0, <1>3, <1>i DEF Release, Told
  <2>2. Counts' /\ sem' \in [Sem -> Nat] /\ holders' \in [Sem -> SUBSET Thread]
    BY <1>0, <1>3, <2>1, LeaveCounts DEF Release
  <2>3. SyncTypeOK'
    BY <1>0, <1>3, <2>2 DEF Release, SyncTypeOK
  <2>4. /\ UNCHANGED <<status, wsem, pc, on>>
        /\ \A u \in Thread \ {t} : believes'[u] = believes[u]
        /\ \A u \in Thread \ {t}, r \in Sem : u \in holders'[r] <=> u \in holders[r]
        /\ \A r \in Sem : (r \in believes'[t] <=> r \in believes[t] /\ r # s)
                          /\ (t \in holders'[r] <=> t \in holders[r] /\ r # s)
    BY <1>0, <1>3 DEF Release
  <2>5. Call(t)' /\ Told(t)'
    BY <1>0, <1>i, <2>4 DEF Call, Told, Runnable, Strict
  <2>6. Calls'
    BY <2>4, <2>5, OthersKeep
  <2> QED  BY <2>2, <2>3, <2>6 DEF SyncInv
<1> QED  BY <1>1, <1>2, <1>3

LEMMA SvcWaitKeeps ==
  ASSUME SyncInv, NEW t \in Thread, SvcWait(t)
  PROVE  SyncInv'
<1>0. /\ SyncTypeOK /\ Counts /\ Call(t) /\ Told(t)
      /\ status \in [Thread -> SUBSET Flags] /\ wsem \in [Thread -> SUBSET Sem]
      /\ pc \in [Thread -> {"idle", "busy", "wait"}] /\ on \in [Thread -> SUBSET Sem]
  BY DEF SyncInv, SyncTypeOK, Calls
<1>1. UNCHANGED <<sem, holders, on, believes>> /\ pc[t] = "busy"
  BY DEF SvcWait
<1>2. /\ status'[t] = {"Semaphore", "Timeout"} /\ wsem'[t] = on[t] /\ pc'[t] = "wait"
      /\ \A u \in Thread \ {t} :
           status'[u] = status[u] /\ wsem'[u] = wsem[u] /\ pc'[u] = pc[u]
  BY <1>0 DEF SvcWait
<1>3. /\ \E s \in Sem : on[t] = {s}
      /\ on[t] \cap believes[t] = {} /\ \A s \in on[t] : t \notin holders[s]
  BY <1>0, <1>1 DEF Call
<1>4. Waiting(t)'
  BY <1>1, <1>2, <1>3 DEF Waiting
<1>5. Call(t)' /\ Told(t)'
  BY <1>0, <1>1, <1>2, <1>3, <1>4 DEF Call, Told, Strict
<1>6. Calls'
  BY <1>1, <1>2, <1>5, OthersKeep
<1>7. SyncTypeOK' /\ Counts'
  BY <1>0, <1>1 DEF SvcWait, SyncTypeOK, Counts, Flags, Strict, Keeping
<1> QED  BY <1>6, <1>7 DEF SyncInv

(* A call returns: what it reports depends on the kind, what it got on the *)
(* word.                                                                   *)
LEMMA ReturnKeeps ==
  ASSUME SyncInv, NEW t \in Thread, Return(t)
  PROVE  SyncInv'
<1>0. /\ SyncTypeOK /\ Counts /\ Call(t) /\ Told(t)
      /\ pc \in [Thread -> {"idle", "busy", "wait"}] /\ on \in [Thread -> SUBSET Sem]
      /\ believes \in [Thread -> SUBSET Sem] /\ holders \in [Sem -> SUBSET Thread]
  BY DEF SyncInv, SyncTypeOK, Calls
<1>1. UNCHANGED <<status, wsem, sem>> /\ pc[t] = "wait" /\ Runnable(t)
  BY DEF Return
<1>2. PICK s \in Sem : on[t] = {s} /\ s \notin believes[t]
  BY <1>0, <1>1 DEF Call
<1> DEFINE reported == ReportsToken(Kind[s], status[t])
<1>3. /\ on'[t] = {} /\ pc'[t] = "idle"
      /\ believes'[t] = IF reported THEN believes[t] \cup {s} ELSE believes[t]
      /\ holders' = IF reported THEN holders
                    ELSE [holders EXCEPT ![s] = @ \ {t}]
      /\ \A u \in Thread \ {t} :
           on'[u] = on[u] /\ pc'[u] = pc[u] /\ believes'[u] = believes[u]
  <2>1. {r \in on[t] : ReportsToken(Kind[r], status[t])} = IF reported THEN {s} ELSE {}
    BY <1>2
  <2>2. /\ believes' = [believes EXCEPT ![t] = @ \cup IF reported THEN {s} ELSE {}]
        /\ holders' = [r \in Sem |-> IF r \in on[t] \ (IF reported THEN {s} ELSE {})
                                     THEN holders[r] \ {t} ELSE holders[r]]
    BY <2>1 DEF Return
  <2> HIDE DEF reported
  <2>3. holders' = IF reported THEN holders ELSE [holders EXCEPT ![s] = @ \ {t}]
    BY <1>0, <1>2, <2>2
  <2>4. /\ on'[t] = {} /\ pc'[t] = "idle"
        /\ \A u \in Thread \ {t} : on'[u] = on[u] /\ pc'[u] = pc[u]
    BY <1>0 DEF Return
  <2>5. /\ believes'[t] = IF reported THEN believes[t] \cup {s} ELSE believes[t]
        /\ \A u \in Thread \ {t} : believes'[u] = believes[u]
    BY <1>0, <2>2
  <2> QED  BY <2>3, <2>4, <2>5
<1>4. /\ Keeping(s) /\ t \in holders[s] => reported
      /\ Strict(s) /\ reported => t \in holders[s]
  <2>1. Granted(t) \/ GaveUp(t)
    BY <1>0, <1>1 DEF Call, Waiting, Runnable
  <2>2. CASE Granted(t)
    <3>1. status[t] = {"Semaphore", "Running"} /\ t \in holders[s]
      BY <1>2, <2>2 DEF Granted
    <3>2. status[t] # {"Timeout"} /\ "Timeout" \notin status[t]
      BY <3>1
    <3> QED  BY <3>1, <3>2 DEF Keeping, ReportsToken
  <2>3. CASE GaveUp(t)
    <3>1. status[t] = {"Timeout", "Running"} /\ t \notin holders[s]
      BY <1>2, <2>3 DEF GaveUp
    <3>2. status[t] # {"Semaphore"} /\ "Timeout" \in status[t]
      BY <3>1
    <3> QED  BY <3>1, <3>2 DEF Strict, ReportsToken
  <2> QED  BY <2>1, <2>2, <2>3
<1> HIDE DEF reported
<1>5. Counts' /\ holders' \in [Sem -> SUBSET Thread]
  <2>1. CASE reported
    BY <1>0, <1>1, <1>3, <2>1 DEF Counts, Strict, Keeping
  <2>2. CASE ~reported
    BY <1>0, <1>1, <1>3, <1>4, <2>2, DropCounts
  <2> QED  BY <2>1, <2>2
<1>6. \A r \in Sem : t \in holders'[r] <=> t \in holders[r] /\ (r = s => reported)
  BY <1>0, <1>3
<1>7. Told(t)'
  BY <1>0, <1>2, <1>3, <1>4, <1>6 DEF Told, Strict
<1>8. Call(t)'
  BY <1>1, <1>3 DEF Call, Runnable
<1>9. \A u \in Thread \ {t}, r \in Sem : u \in holders'[r] <=> u \in holders[r]
  BY <1>0, <1>3
<1>10. Calls'
  BY <1>1, <1>3, <1>7, <1>8, <1>9, OthersKeep
<1>11. SyncTypeOK'
  <2>1. believes' \in [Thread -> SUBSET Sem]
    <3>1. {r \in on[t] : ReportsToken(Kind[r], status[t])} \subseteq Sem
      BY <1>0
    <3> QED  BY <1>0, <3>1 DEF Return
  <2> QED  BY <1>0, <1>1, <1>5, <2>1 DEF Return, SyncTypeOK
<1> QED  BY <1>5, <1>10, <1>11 DEF SyncInv

(* The kernel ends a wait, with a token or without. *)
LEMMA KernelKeeps ==
  ASSUME SyncInv, NEW t \in Thread, KernelGrant(t) \/ KernelTimeout(t)
  PROVE  SyncInv'
<1>0. /\ SyncTypeOK /\ Counts /\ Call(t) /\ Told(t)
      /\ status \in [Thread -> SUBSET Flags] /\ wsem \in [Thread -> SUBSET Sem]
      /\ holders \in [Sem -> SUBSET Thread] /\ pc \in [Thread -> {"idle", "busy", "wait"}]
  BY DEF SyncInv, SyncTypeOK, Calls
<1>1. UNCHANGED <<pc, on, believes>> /\ ~Runnable(t)
  BY DEF KernelGrant, KernelTimeout, callVars, Grant, TimedOut, Wake
<1>2. pc[t] = "wait" /\ Waiting(t)
  BY <1>0, <1>1 DEF Call, Granted, GaveUp, Runnable
<1>3. PICK s \in Sem : on[t] = {s} /\ s \notin believes[t]
  BY <1>0, <1>2 DEF Call
<1>4. status[t] = {"Semaphore", "Timeout"} /\ wsem[t] = {s} /\ t \notin holders[s]
  BY <1>2, <1>3 DEF Waiting
<1>5. CASE KernelGrant(t)
  <2>1. /\ status' = [status EXCEPT ![t] = {"Semaphore", "Running"}]
        /\ wsem' = [wsem EXCEPT ![t] = {}] /\ sem[s] > 0
        /\ sem' = [sem EXCEPT ![s] = @ - 1]
        /\ holders' = [holders EXCEPT ![s] = @ \cup {t}]
    BY <1>4, <1>5 DEF KernelGrant, Grant, Wake, Take
  <2>2. Counts' /\ sem' \in [Sem -> Nat] /\ holders' \in [Sem -> SUBSET Thread]
    BY <1>0, <1>4, <2>1, TakeCounts
  <2>3. /\ status'[t] = {"Semaphore", "Running"} /\ t \in holders'[s]
        /\ \A u \in Thread \ {t} : status'[u] = status[u] /\ wsem'[u] = wsem[u]
        /\ \A u \in Thread \ {t}, r \in Sem : u \in holders'[r] <=> u \in holders[r]
        /\ \A r \in Sem \ {s} : t \in holders'[r] <=> t \in holders[r]
    BY <1>0, <2>1
  <2>4. Granted(t)'
    BY <1>1, <1>3, <2>3 DEF Granted
  <2>5. Call(t)' /\ Told(t)'
    BY <1>0, <1>1, <1>2, <1>3, <2>3, <2>4 DEF Call, Told, Strict
  <2>6. Calls'
    BY <1>1, <2>3, <2>5, OthersKeep
  <2>7. SyncTypeOK'
    BY <1>0, <1>1, <2>1, <2>2 DEF SyncTypeOK, Flags
  <2> QED  BY <2>2, <2>6, <2>7 DEF SyncInv
<1>6. CASE KernelTimeout(t)
  <2>1. /\ status' = [status EXCEPT ![t] = {"Timeout", "Running"}]
        /\ UNCHANGED <<wsem, sem, holders>>
    BY <1>6 DEF KernelTimeout, TimedOut, Wake
  <2>2. status'[t] = {"Timeout", "Running"}
        /\ \A u \in Thread \ {t} : status'[u] = status[u]
    BY <1>0, <2>1
  <2>3. GaveUp(t)'
    BY <1>1, <1>3, <1>4, <2>1, <2>2 DEF GaveUp
  <2>4. Call(t)' /\ Told(t)'
    BY <1>0, <1>1, <1>2, <1>3, <2>1, <2>3 DEF Call, Told, Strict
  <2>5. Calls'
    BY <1>1, <2>1, <2>2, <2>4, OthersKeep
  <2>6. SyncTypeOK' /\ Counts'
    BY <1>0, <1>1, <2>1 DEF SyncTypeOK, Counts, Flags, Strict, Keeping
  <2> QED  BY <2>5, <2>6 DEF SyncInv
<1> QED  BY <1>5, <1>6

(* Every step keeps the invariant. *)
LEMMA SyncSteps == ASSUME SyncInv, [SyncNext]_syncVars PROVE SyncInv'
<1>1. CASE UNCHANGED syncVars
  <2>1. UNCHANGED <<status, wsem, sem, holders, pc, on, believes>>
    BY <1>1 DEF eventWaitVars, callVars, syncVars
  <2> QED
    BY <2>1 DEF SyncInv, SyncTypeOK, Counts, Calls, Call, Told, Runnable, Waiting,
      Granted, GaveUp, Strict, Keeping
<1> QED  BY <1>1, EnterKeeps, SvcWaitKeeps, ReturnKeeps, KernelKeeps DEF SyncNext

(***************************************************************************)
(* The theorems.                                                           *)
(***************************************************************************)

LEMMA SyncAlways == SyncSpec => []SyncInv
BY SyncStart, SyncSteps, PTL DEF SyncSpec

(* Whatever the calls make of the event word, no count falls below 0 and   *)
(* no word or set leaves its type: a release by a thread that only         *)
(* believes it holds a token raises a count, and never lowers one.         *)
THEOREM SyncTypeCorrect == SyncSpec => []SyncTypeOK
<1>1. SyncInv => SyncTypeOK
  BY DEF SyncInv
<1> QED  BY <1>1, SyncAlways, PTL

(* osSemaphoreAcquire, osMemoryPoolAlloc and osMessageQueueGet never make  *)
(* up a token, although every wait may end with a timeout: the tokens in   *)
(* the count and with the threads that believe they have one are no more   *)
(* than there were.                                                        *)
THEOREM ExclusionCorrect == SyncSpec => []Exclusion
<1>1. ASSUME SyncInv, NEW s \in Sem, Strict(s)
      PROVE  sem[s] + Cardinality(Believers(s)) <= Tokens[s]
  <2>1. /\ holders[s] \subseteq Thread /\ sem[s] \in Nat /\ Tokens[s] \in Nat
        /\ sem[s] + Cardinality(holders[s]) <= Tokens[s]
    BY <1>1, TokensAssumption DEF SyncInv, SyncTypeOK, Counts
  <2>2. Believers(s) \subseteq holders[s]
    BY <1>1 DEF SyncInv, Calls, Call, Told, Believers
  <2>3. IsFiniteSet(holders[s]) /\ Cardinality(holders[s]) \in Nat
    BY <2>1, ThreadsAssumption, FS_Subset, FS_CardinalityType
  <2>4. Cardinality(Believers(s)) <= Cardinality(holders[s])
        /\ Cardinality(Believers(s)) \in Nat
    BY <2>2, <2>3, FS_Subset, FS_CardinalityType
  <2> QED  BY <2>1, <2>3, <2>4
<1>2. SyncInv => Exclusion
  BY <1>1 DEF Exclusion, Strict
<1> QED  BY <1>2, SyncAlways, PTL

(* osMutexWait, osSemaphoreWait and osMessageQueueGet never lose a token:  *)
(* each is in the count, with a thread that knows it has it, or with one   *)
(* that is about to be told.                                               *)
THEOREM NoTokenLostCorrect == SyncSpec => []NoTokenLost
<1>1. ASSUME SyncInv, NEW s \in Sem, Keeping(s)
      PROVE  sem[s] + Cardinality(Believers(s) \cup BeingTold(s)) >= Tokens[s]
  <2> DEFINE with == Believers(s) \cup BeingTold(s)
  <2>1. /\ holders[s] \subseteq Thread /\ sem[s] \in Nat /\ Tokens[s] \in Nat
        /\ sem[s] + Cardinality(holders[s]) >= Tokens[s]
    BY <1>1, TokensAssumption DEF SyncInv, SyncTypeOK, Counts
  <2>2. ASSUME NEW t \in holders[s]  PROVE t \in with
    <3>1. t \in Thread /\ Call(t) /\ Told(t) /\ pc[t] \in {"idle", "busy", "wait"}
      BY <1>1, <2>1 DEF SyncInv, SyncTypeOK, Calls
    <3>2. s \notin on[t] => s \in believes[t]
      BY <3>1 DEF Told
    <3>3. s \in on[t] => pc[t] = "wait" /\ status[t] = {"Semaphore", "Running"}
      BY <3>1 DEF Call, Waiting, Granted, GaveUp
    <3> QED  BY <3>1, <3>2, <3>3 DEF Believers, BeingTold
  <2>3. IsFiniteSet(with)
    BY ThreadsAssumption, FS_Subset DEF Believers, BeingTold
  <2>4. Cardinality(holders[s]) <= Cardinality(with) /\ Cardinality(with) \in Nat
        /\ Cardinality(holders[s]) \in Nat
    BY <2>1, <2>2, <2>3, ThreadsAssumption, FS_Subset, FS_CardinalityType
  <2> HIDE DEF with
  <2>5. sem[s] + Cardinality(with) >= Tokens[s]
    BY <2>1, <2>4
  <2> QED  BY <2>5 DEF with
<1>2. SyncInv => NoTokenLost
  BY <1>1 DEF NoTokenLost, Keeping
<1> QED  BY <1>2, SyncAlways, PTL
=============================================================================
