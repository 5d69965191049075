----------------------------- MODULE EventWait ------------------------------
(***************************************************************************)
(* What the kernel of thread.c promises to the primitives built on         *)
(* SVC_EVENT_WAIT: the event word of each thread and the semaphores, with  *)
(* no ring, no stacks, no clock and no scheduler.  A thread parks itself;  *)
(* it is made runnable again by a token it is given, by a signal, or by a  *)
(* timeout that gives it nothing.  Thread implements this specification.   *)
(***************************************************************************)
EXTENDS Integers, FiniteSets

CONSTANTS Thread, Main, Sem, Tokens

VARIABLES
  status,     \* process.event.status
  wsem,       \* process.event.value, when it is the address of a semaphore
  sem,        \* the count of each semaphore
  holders     \* the threads that hold a token of each semaphore

eventWaitVars == <<status, wsem, sem, holders>>

Flags == {"Running", "Signal", "Semaphore", "Timeout"}
Runnable(t) == "Running" \in status[t]

EventWaitInit ==
  /\ status = [t \in Thread |-> IF t = Main THEN {"Running"} ELSE {}]
  /\ wsem = [t \in Thread |-> {}]
  /\ sem = Tokens
  /\ holders = [s \in Sem |-> {}]

Create(t) ==
  /\ status[t] = {}
  /\ status' = [status EXCEPT ![t] = {"Running"}]
  /\ wsem' = [wsem EXCEPT ![t] = {}]
  /\ UNCHANGED <<sem, holders>>

Complete(t) ==
  /\ Runnable(t) /\ t # Main
  /\ status' = [status EXCEPT ![t] = {}]
  /\ UNCHANGED <<wsem, sem, holders>>

(* Park on the flags; a thread does not wait for a token it holds. *)
Wait(t, flags, sems) ==
  /\ Runnable(t)
  /\ flags # {}
  /\ "Semaphore" \in flags => \A s \in sems : t \notin holders[s]
  /\ status' = [status EXCEPT ![t] = flags]
  /\ wsem' = [wsem EXCEPT ![t] = sems]
  /\ UNCHANGED <<sem, holders>>

Take(t, s) ==
  /\ sem[s] > 0 /\ t \notin holders[s]
  /\ sem' = [sem EXCEPT ![s] = @ - 1]
  /\ holders' = [holders EXCEPT ![s] = @ \cup {t}]

Try(t, s) ==
  /\ Runnable(t)
  /\ Take(t, s)
  /\ UNCHANGED <<status, wsem>>

Leave(t, s) ==
  /\ t \in holders[s]
  /\ sem' = [sem EXCEPT ![s] = @ + 1]
  /\ holders' = [holders EXCEPT ![s] = @ \ {t}]
  /\ UNCHANGED <<status, wsem>>

(* A parked thread is made runnable with a reason, which stays in its      *)
(* event word beside the Running flag.                                     *)
Wake(t, reason) ==
  /\ ~Runnable(t) /\ reason \in status[t]
  /\ status' = [status EXCEPT ![t] = {reason, "Running"}]

Grant(t, s) ==
  /\ Wake(t, "Semaphore")
  /\ s \in wsem[t]
  /\ Take(t, s)
  /\ wsem' = [wsem EXCEPT ![t] = {}]

Signalled(t) == Wake(t, "Signal") /\ UNCHANGED <<wsem, sem, holders>>
TimedOut(t) == Wake(t, "Timeout") /\ UNCHANGED <<wsem, sem, holders>>

EventWaitNext ==
  \E t \in Thread :
    \/ Create(t) \/ Complete(t) \/ Signalled(t) \/ TimedOut(t)
    \/ \E flags \in SUBSET Flags, sems \in SUBSET Sem : Wait(t, flags, sems)
    \/ \E s \in Sem : Try(t, s) \/ Leave(t, s) \/ Grant(t, s)

EventWaitSpec == EventWaitInit /\ [][EventWaitNext]_eventWaitVars
=============================================================================
