-------------------------------- MODULE Sync --------------------------------
(***************************************************************************)
(* The blocking calls made of a semaphore_enter and, when the count is 0,  *)
(* of SVC_EVENT_WAIT: osMutexWait, osSemaphoreWait, osSemaphoreAcquire,    *)
(* osMemoryPoolAlloc and osMessageQueueGet.  They differ in how they read  *)
(* the event word when the wait is over.  The kernel under them is         *)
(* EventWait, which Thread implements.                                     *)
(*                                                                         *)
(* Every wait arms a timeout, for none of the calls passes the interval    *)
(* osWaitForever to the handler: they multiply it by 1000 first.  A thread *)
(* does what it was told: it gives back a token it believes it has, which  *)
(* for a queue is a message put back, and does not ask for another.        *)
(***************************************************************************)
EXTENDS EventWait

CONSTANTS
  Kind,       \* the call that guards each semaphore
  MaxCount    \* bound: how far a count is raised

Kinds == {"osMutexWait", "osSemaphoreWait", "osSemaphoreAcquire",
          "osMemoryPoolAlloc", "osMessageQueueGet"}
ASSUME KindAssumption == Kind \in [Sem -> Kinds] /\ MaxCount \in Nat
ASSUME TokensAssumption == Tokens \in [Sem -> Nat]
ASSUME ThreadsAssumption == IsFiniteSet(Thread)

VARIABLES
  pc,         \* where a thread is: "idle", "busy" (found 0) or "wait"
  on,         \* the semaphore of the call it is in, as a set
  believes    \* the semaphores it was told it has a token of

callVars == <<pc, on, believes>>
syncVars == <<eventWaitVars, callVars>>

SyncTypeOK ==
  /\ status \in [Thread -> SUBSET Flags]
  /\ wsem \in [Thread -> SUBSET Sem]
  /\ sem \in [Sem -> Nat]
  /\ holders \in [Sem -> SUBSET Thread]
  /\ pc \in [Thread -> {"idle", "busy", "wait"}]
  /\ on \in [Thread -> SUBSET Sem]
  /\ believes \in [Thread -> SUBSET Sem]

SyncInit ==
  /\ status = [t \in Thread |-> {"Running"}]
  /\ wsem = [t \in Thread |-> {}]
  /\ sem = Tokens
  /\ holders = [s \in Sem |-> {}]
  /\ pc = [t \in Thread |-> "idle"]
  /\ on = [t \in Thread |-> {}]
  /\ believes = [t \in Thread |-> {}]

(* Thread code, outside of any call. *)
Idle(t) == Runnable(t) /\ pc[t] = "idle"

SlipEnterFree(t, s) ==
  /\ Idle(t) /\ s \notin believes[t]
  /\ sem' = [sem EXCEPT ![s] = @ - 1]
  /\ holders' = [holders EXCEPT ![s] = @ \cup {t}]
  /\ believes' = [believes EXCEPT ![t] = @ \cup {s}]
  /\ UNCHANGED <<status, wsem, pc, on>>

(* The fast path: semaphore_enter found a positive count. *)
EnterFree(t, s) ==
  /\ Idle(t) /\ s \notin believes[t]
  /\ sem[s] > 0
  /\ sem' = [sem EXCEPT ![s] = @ - 1]
  /\ holders' = [holders EXCEPT ![s] = @ \cup {t}]
  /\ believes' = [believes EXCEPT ![t] = @ \cup {s}]
  /\ UNCHANGED <<status, wsem, pc, on>>

(* semaphore_enter found 0 and left it. *)
EnterBusy(t, s) ==
  /\ Idle(t) /\ s \notin believes[t]
  /\ sem[s] = 0
  /\ pc' = [pc EXCEPT ![t] = "busy"]
  /\ on' = [on EXCEPT ![t] = {s}]
  /\ UNCHANGED <<eventWaitVars, believes>>

(* SVC_EVENT_WAIT.  A token that was given back since is not missed: the   *)
(* scheduler looks at the count itself.                                    *)
SvcWait(t) ==
  /\ Runnable(t) /\ pc[t] = "busy"
  /\ status' = [status EXCEPT ![t] = {"Semaphore", "Timeout"}]
  /\ wsem' = [wsem EXCEPT ![t] = on[t]]
  /\ pc' = [pc EXCEPT ![t] = "wait"]
  /\ UNCHANGED <<sem, holders, on, believes>>

SlipReportsTimeout(kind, word) == word # {"Timeout"}

SlipReportsError(kind, word) == word = {"Semaphore"}

(* What a call makes of the event word, which keeps the Running flag beside *)
(* the reason: TRUE when it reports a token.                                *)
ReportsToken(kind, word) ==
  CASE kind \in {"osMutexWait", "osSemaphoreWait"} -> word # {"Timeout"}
    [] kind \in {"osSemaphoreAcquire", "osMemoryPoolAlloc"} ->
         word = {"Semaphore"}
    [] kind = "osMessageQueueGet" -> "Timeout" \notin word

(* The wait is over: the call reads the event word and returns.  A token   *)
(* it does not report is nobody's from then on.                            *)
Return(t) ==
  /\ Runnable(t) /\ pc[t] = "wait"
  /\ LET got == {s \in on[t] : ReportsToken(Kind[s], status[t])}
     IN  /\ believes' = [believes EXCEPT ![t] = @ \cup got]
         /\ holders' = [s \in Sem |-> IF s \in on[t] \ got
                                      THEN holders[s] \ {t} ELSE holders[s]]
  /\ pc' = [pc EXCEPT ![t] = "idle"]
  /\ on' = [on EXCEPT ![t] = {}]
  /\ UNCHANGED <<status, wsem, sem>>

(* osMutexRelease and the like: semaphore_leave, by who believes it may. *)
Release(t, s) ==
  /\ Idle(t) /\ s \in believes[t] /\ sem[s] < MaxCount
  /\ sem' = [sem EXCEPT ![s] = @ + 1]
  /\ holders' = [holders EXCEPT ![s] = @ \ {t}]
  /\ believes' = [believes EXCEPT ![t] = @ \ {s}]
  /\ UNCHANGED <<status, wsem, pc, on>>

(* The kernel, as EventWait has it. *)
KernelGrant(t) == (\E s \in Sem : Grant(t, s)) /\ UNCHANGED callVars
KernelTimeout(t) == TimedOut(t) /\ UNCHANGED callVars

SyncNext ==
  \E t \in Thread :
    \/ \E s \in Sem : EnterFree(t, s) \/ EnterBusy(t, s) \/ Release(t, s)
    \/ SvcWait(t) \/ Return(t)
    \/ KernelGrant(t) \/ KernelTimeout(t)

SyncSpec == SyncInit /\ [][SyncNext]_syncVars

-----------------------------------------------------------------------------
(* The threads that believe they have a token of s. *)
Believers(s) == {t \in Thread : s \in believes[t]}

(* The threads that were given one by the scheduler and have not returned. *)
BeingTold(s) ==
  {t \in Thread : pc[t] = "wait" /\ s \in on[t]
                    /\ status[t] = {"Semaphore", "Running"}}

(* A call that fails on a timeout never makes up a token, whatever grants, *)
(* timeouts and releases interleave: the tokens in the count and with the  *)
(* threads that believe they have one are no more than there were.  With   *)
(* one token that is mutual exclusion.  osMutexWait and osSemaphoreWait    *)
(* are not such calls: they take a timeout for a token.                    *)
Exclusion ==
  \A s \in Sem :
    Kind[s] \in {"osSemaphoreAcquire", "osMemoryPoolAlloc", "osMessageQueueGet"}
      => sem[s] + Cardinality(Believers(s)) <= Tokens[s]

(* A call that succeeds on a grant never loses a token: each is in the     *)
(* count, with a thread that knows it has one, or with one about to be     *)
(* told.  osSemaphoreAcquire and osMemoryPoolAlloc are not such calls:     *)
(* they take a grant for an error.                                         *)
NoTokenLost ==
  \A s \in Sem :
    Kind[s] \in {"osMutexWait", "osSemaphoreWait", "osMessageQueueGet"}
      => sem[s] + Cardinality(Believers(s) \cup BeingTold(s)) >= Tokens[s]

(* Who is told by osMutexWait that it has the mutex was given it.          *)
MutexObtained ==
  \A t \in Thread : \A s \in believes[t] :
    Kind[s] = "osMutexWait" => t \in holders[s]
=============================================================================
