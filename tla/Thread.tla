------------------------------- MODULE Thread -------------------------------
(***************************************************************************)
(* The thread kernel of thread.c on one Cortex-M core: the ring of thread  *)
(* control blocks, the event waits that park a thread, the round-robin     *)
(* scheduler that runs in PendSV and polls the parked threads, the pool of *)
(* stacks, the SysTick that ends a time slice, and the counting semaphores *)
(* of semaphore.h every other primitive of the system waits on.            *)
(*                                                                         *)
(* Granularity.  SVC and PendSV share the lowest exception priority, so an *)
(* SVC handler is one step with respect to threads and to the scheduler.   *)
(* Interrupts have a higher priority: they may come between any two steps, *)
(* also between the exit of SVC and the entry of PendSV, and between two   *)
(* turns of the scheduler's loop; one turn of that loop is one step.       *)
(*                                                                         *)
(* Status words are sets of flags; osEventComplete, the value 0, is {}.    *)
(* The signal_queue drained at the head of osThreadScheduler is not here:  *)
(* it is static, its count starts at 0 and sig_queue_put refuses every put *)
(* while it is 0, so sig_queue_try always finds it empty.                  *)
(***************************************************************************)
EXTENDS Integers, FiniteSets

CONSTANTS
  Thread,         \* the thread control blocks, main_thread among them
  Main,           \* main_thread, the tcb_list anchor
  Sem,            \* semaphores
  Tokens,         \* initial count of each semaphore
  Flag,           \* the thread flags (signals) in use
  PoolBits,       \* stacks in stack_pool: 32 in the code
  ClockBits,      \* width of clock(): 32 in the code
  Scale,          \* microseconds per millisecond: 1000 in the code
  ShortSleep,     \* SVC_USLEEP spins below this many microseconds: 1000
  Slice,          \* SysTicks per time slice: 1000/BOARD_RTC_PERIOD
  Millisec,       \* the timeouts applications pass, in milliseconds
  Microsec,       \* the sleeps applications ask for, in microseconds
  Options,        \* the options passed to osThreadFlagsWait
  Priority,       \* the priorities applications set
  NotifyTargets,  \* the threads interrupts pass to osThreadNotify
  MaxCreate,      \* bound: thrd_create calls of a behaviour
  MaxExited       \* bound: threads that have ended, at a time

ClockSize == 2^ClockBits
osWaitForever == ClockSize - 1

osFlagsWaitAny == {}
osFlagsWaitAll == {"Running"}      \* 1, the bit osEventRunning has

NoSp == -1                         \* a NULL stack pointer
MainSp == PoolBits + 1             \* the stack main was booted on

ASSUME ThreadAssumption ==
  /\ IsFiniteSet(Thread)
  /\ Main \in Thread
  /\ Cardinality(Thread) <= PoolBits + 1   \* "no more than 32 threads"
ASSUME SemAssumption == Tokens \in [Sem -> Nat]
ASSUME BoundAssumption ==
  /\ PoolBits \in Nat /\ ClockBits \in Nat /\ ClockSize \in Nat \ {0}
  /\ Scale \in Nat /\ ShortSleep \in Nat
  /\ Slice \in Nat \ {0} /\ MaxCreate \in Nat
  /\ MaxExited \in Nat
ASSUME InputAssumption ==
  /\ Millisec \subseteq Nat /\ Microsec \subseteq 0..(ClockSize - 1)
  /\ Options \subseteq {osFlagsWaitAny, osFlagsWaitAll}
  /\ Priority \subseteq {"Normal", "Realtime"}
  /\ NotifyTargets \subseteq Thread

VARIABLES
  next,       \* TCB.next
  current,    \* current_thread
  sp,         \* TCB.sp: the stack it points into, or NoSp
  psp,        \* the stack the core runs on
  map,        \* stack_pool.map: the set of taken bits
  status,     \* process.event.status
  wsem,       \* process.event.value, read as the address of a semaphore
  wflags,     \* process.event.value, read as signal flags
  signals,    \* process.signals
  timestamp,  \* process.wait.timestamp
  timeout,    \* process.wait.timeout
  prio,       \* TCB.priority
  sem,        \* the count of each semaphore
  clock,      \* system_ticks
  slice,      \* system_microsec, in ticks
  mode,       \* "thread", "sched" (in PendSV) or "svc" (spinning in SVC_USLEEP)
  pend,       \* PendSV is pending
  spin,       \* locals of svc_handler_usleep: the time stamp and the interval
  holders,    \* history: the threads that hold a token of each semaphore
  exited,     \* history: the threads that have called an exit
  creations   \* history: thrd_create calls so far

tcbVars == <<next, sp, psp, map, prio>>
eventVars == <<status, wsem, wflags, timestamp, timeout>>
semVars == <<sem, holders>>
tickVars == <<clock, slice>>
cpuVars == <<current, mode, pend, spin>>
histVars == <<exited, creations>>
vars == <<tcbVars, eventVars, semVars, tickVars, cpuVars, histVars, signals>>

Pool == 0..(PoolBits - 1)
StatusFlag == {"Running", "Signal", "Semaphore", "Timeout"}

(* The threads that have not completed: status is not osEventComplete.     *)
Live == {t \in Thread : status[t] # {}}

Instant == 0..(ClockSize - 1)
TcbTypeOK ==
  /\ next \in [Thread -> Thread]
  /\ sp \in [Thread -> {NoSp} \cup 0..MainSp]
  /\ psp \in 0..MainSp
  /\ map \in SUBSET Pool
  /\ prio \in [Thread -> {"Normal", "Realtime"}]
EventTypeOK ==
  /\ status \in [Thread -> SUBSET StatusFlag]
  /\ wsem \in [Thread -> SUBSET Sem]
  /\ wflags \in [Thread -> SUBSET Flag]
  /\ timestamp \in [Thread -> Instant]
  /\ timeout \in [Thread -> Instant]
SemTypeOK ==
  /\ sem \in [Sem -> Int]
  /\ holders \in [Sem -> SUBSET Thread]
CpuTypeOK ==
  /\ current \in Thread
  /\ mode \in {"thread", "sched", "svc"}
  /\ pend \in BOOLEAN
  /\ spin \in [since : Instant, interval : Instant]
RestTypeOK ==
  /\ clock \in Instant /\ slice \in 0..(Slice - 1)
  /\ exited \in SUBSET Thread /\ creations \in 0..MaxCreate
  /\ signals \in [Thread -> SUBSET Flag]

TypeOK == TcbTypeOK /\ EventTypeOK /\ SemTypeOK /\ CpuTypeOK /\ RestTypeOK

Init ==
  /\ next = [t \in Thread |-> Main]
  /\ current = Main
  /\ sp = [t \in Thread |-> NoSp]
  /\ psp = MainSp
  /\ map = {}
  /\ status = [t \in Thread |-> IF t = Main THEN {"Running"} ELSE {}]
  /\ wsem = [t \in Thread |-> {}]
  /\ wflags = [t \in Thread |-> {}]
  /\ signals = [t \in Thread |-> {}]
  /\ timestamp = [t \in Thread |-> 0]
  /\ timeout = [t \in Thread |-> 0]
  /\ prio = [t \in Thread |-> "Normal"]
  /\ sem = Tokens
  /\ clock = 0
  /\ slice = 0
  /\ mode = "thread"
  /\ pend = FALSE
  /\ spin = [since |-> 0, interval |-> 0]
  /\ holders = [s \in Sem |-> {}]
  /\ exited = {}
  /\ creations = 0

(***************************************************************************)
(* Thread code: t executes when the core is in thread mode and no PendSV   *)
(* is about to be taken.  A thread past its exit spins in while(1).        *)
(***************************************************************************)
Exec(t) ==
  /\ mode = "thread"
  /\ ~pend
  /\ current = t
  /\ t \notin exited

(* Slips, here and below: a definition named Slip... is the definition      *)
(* that follows it with one plausible mistake.  No specification uses them;*)
(* they show that a property would notice the mistake.                     *)
SlipRequestSwitch == pend' = pend
(* __YIELD: request PendSV. *)
RequestSwitch == pend' = TRUE

(* thrd_create: initialise a TCB nobody uses and link it after the caller. *)
(* The store into current->next is a single LDREX/STREX, so the whole call *)
(* takes effect there.                                                     *)
ThrdCreate(t, new) ==
  /\ Exec(t)
  /\ new \notin Live
  /\ creations < MaxCreate
  /\ next' = [next EXCEPT ![new] = next[t], ![t] = new]
  /\ sp' = [sp EXCEPT ![new] = NoSp]
  /\ prio' = [prio EXCEPT ![new] = "Normal"]
  /\ signals' = [signals EXCEPT ![new] = {}]
  /\ status' = [status EXCEPT ![new] = {"Running"}]
  /\ wsem' = [wsem EXCEPT ![new] = {}]
  /\ wflags' = [wflags EXCEPT ![new] = {}]
  /\ exited' = exited \ {new}
  /\ creations' = creations + 1
  /\ UNCHANGED <<psp, map, timestamp, timeout, semVars, tickVars, cpuVars>>

(* The TCBs met on a walk along next from tcb_list: the least set that     *)
(* holds main and is closed under next.                                    *)
NextClosed(S) == Main \in S /\ \A t \in S : next[t] \in S
Ring == {t \in Thread : \A S \in SUBSET Thread : NextClosed(S) => t \in S}

SlipStackFree(p) == map' = map
(* osStackFree of the stack the saved stack pointer lies in. *)
StackFree(p) == map' = map \ {p}

SlipSvcKill(t) ==
  /\ status' = [status EXCEPT ![t] = {}]
  /\ StackFree(sp[t])
  /\ RequestSwitch
  /\ UNCHANGED <<next, sp, psp, prio>>

(* svc_handler_kill for the calling thread: unlink it behind the           *)
(* predecessor found on a walk from tcb_list (a walk that never returns    *)
(* when there is none), mark it complete, free its stack, switch.          *)
SvcKill(t) ==
  /\ \E p \in Ring :
       /\ next[p] = t
       /\ next' = [next EXCEPT ![p] = next[t]]
  /\ status' = [status EXCEPT ![t] = {}]
  /\ StackFree(sp[t])
  /\ RequestSwitch
  /\ UNCHANGED <<sp, psp, prio>>

(* SVC_EXIT, the system call of pthread_exit and exit, with the identifier *)
(* its handler is documented to take, that of the thread that ends; main,  *)
(* the anchor of the list, does not end this way.                          *)
SvcExit(t) ==
  /\ Exec(t) /\ Cardinality(exited) < MaxExited
  /\ t # Main
  /\ exited' = exited \cup {t}
  /\ SvcKill(t)
  /\ UNCHANGED <<wsem, wflags, timestamp, timeout, semVars, tickVars,
                 current, mode, spin, creations, signals>>

(* thrd_exit, and the return of a thread function: it makes SVC_SIGNAL,    *)
(* which osThreadInit registers no handler for.  svc_handler_main prints   *)
(* and returns, and the caller spins, linked and runnable as before.       *)
ThrdExit(t) ==
  /\ Exec(t) /\ Cardinality(exited) < MaxExited
  /\ exited' = exited \cup {t}
  /\ UNCHANGED <<tcbVars, eventVars, semVars, tickVars, cpuVars, creations,
                 signals>>

(* svc_handler_event_wait: park the caller on status flags and a value. *)
SvcEventWait(t, flags, sems, mask, interval) ==
  /\ IF interval # osWaitForever
       THEN /\ status' = [status EXCEPT ![t] = flags \cup {"Timeout"}]
            /\ timeout' = [timeout EXCEPT ![t] = interval]
            /\ timestamp' = [timestamp EXCEPT ![t] = clock]
       ELSE /\ status' = [status EXCEPT ![t] = flags]
            /\ UNCHANGED <<timeout, timestamp>>
  /\ wsem' = [wsem EXCEPT ![t] = sems]
  /\ wflags' = [wflags EXCEPT ![t] = mask]
  /\ RequestSwitch
  /\ UNCHANGED <<tcbVars, semVars, tickVars, current, mode, spin, histVars,
                 signals>>

(* The interval*1000 of osEventWait and of osThreadFlagsWait, in 32 bits. *)
ToMicrosec(ms) == (ms * Scale) % ClockSize

(* osEventWait for a semaphore: the slow path of mutexes, semaphores and   *)
(* pools.                                                                  *)
SemWait(t, s, ms) ==
  /\ Exec(t)
  /\ t \notin holders[s]
  /\ SvcEventWait(t, {"Semaphore"}, {s}, {}, ToMicrosec(ms))

(* osThreadFlagsWait, and osEventWait for osEventSignal. *)
FlagsWait(t, mask, options, ms) ==
  /\ Exec(t)
  /\ SvcEventWait(t, {"Signal"} \cup options, {}, mask, ToMicrosec(ms))

(* thrd_sleep: SVC_EVENT_WAIT with no event. *)
ThrdSleep(t, us) ==
  /\ Exec(t)
  /\ us # osWaitForever
  /\ SvcEventWait(t, {}, {}, {}, us)

(* Time since a stamp, as the code computes it: (uint32_t)(clock()-stamp). *)
Elapsed(since) == (clock - since) % ClockSize

(* svc_handler_usleep: a long sleep parks the caller; a short one spins in *)
(* the handler, where neither threads nor the scheduler can run.           *)
Usleep(t, us) ==
  /\ Exec(t)
  /\ IF us < ShortSleep
       THEN /\ spin' = [since |-> clock, interval |-> us]
            /\ mode' = "svc"
            /\ UNCHANGED <<eventVars, pend>>
       ELSE /\ timeout' = [timeout EXCEPT ![t] = us]
            /\ timestamp' = [timestamp EXCEPT ![t] = clock]
            /\ status' = [status EXCEPT ![t] = {"Timeout"}]
            /\ RequestSwitch
            /\ UNCHANGED <<mode, spin, wsem, wflags>>
  /\ UNCHANGED <<tcbVars, semVars, tickVars, current, histVars, signals>>

(* The condition of the busy loop: the handler spins while it holds. *)
UsleepSpins == Elapsed(spin.since) >= spin.interval

UsleepReturn ==
  /\ mode = "svc"
  /\ ~UsleepSpins
  /\ mode' = "thread"
  /\ UNCHANGED <<tcbVars, eventVars, semVars, tickVars, current, pend, spin,
                 histVars, signals>>

(* thrd_yield. *)
ThrdYield(t) ==
  /\ Exec(t)
  /\ RequestSwitch
  /\ UNCHANGED <<tcbVars, eventVars, semVars, tickVars, current, mode, spin,
                 histVars, signals>>

(* osThreadSetPriority, also the store osThreadCreate makes after the new  *)
(* thread is already linked.                                               *)
SetPriority(t, u, p) ==
  /\ Exec(t)
  /\ u \in Live
  /\ prio' = [prio EXCEPT ![u] = p]
  /\ UNCHANGED <<next, sp, psp, map, eventVars, semVars, tickVars, cpuVars,
                 histVars, signals>>

SlipSemaphoreEnter(t, s) ==
  /\ sem' = [sem EXCEPT ![s] = @ - 1]
  /\ holders' = [holders EXCEPT ![s] = @ \cup {t}]

(***************************************************************************)
(* Semaphores: semaphore_enter takes one unless the count is 0 and returns *)
(* the count it found; only a positive one is a token.                     *)
(***************************************************************************)
SemaphoreEnter(t, s) ==
  /\ sem' = [sem EXCEPT ![s] = IF @ = 0 THEN @ ELSE @ - 1]
  /\ holders' = [holders EXCEPT ![s] = IF sem[s] > 0 THEN @ \cup {t} ELSE @]

(* The fast path of a lock: a non-blocking semaphore_enter. *)
SemTry(t, s) ==
  /\ Exec(t)
  /\ t \notin holders[s]
  /\ SemaphoreEnter(t, s)
  /\ UNCHANGED <<tcbVars, eventVars, tickVars, cpuVars, histVars, signals>>

(* semaphore_leave, by a thread or an interrupt: a token of h goes back. *)
SemaphoreLeave(s, h) ==
  /\ h \in holders[s]
  /\ sem' = [sem EXCEPT ![s] = @ + 1]
  /\ holders' = [holders EXCEPT ![s] = @ \ {h}]
  /\ UNCHANGED <<tcbVars, eventVars, tickVars, cpuVars, histVars, signals>>

(* osSignalSet/osThreadFlagsSet and ..Clear, by a thread or an interrupt. *)
SignalSet(u, f) ==
  /\ u \in Live
  /\ signals' = [signals EXCEPT ![u] = @ \cup {f}]
  /\ UNCHANGED <<tcbVars, eventVars, semVars, tickVars, cpuVars, histVars>>

SignalClear(u, f) ==
  /\ u \in Live
  /\ signals' = [signals EXCEPT ![u] = @ \ {f}]
  /\ UNCHANGED <<tcbVars, eventVars, semVars, tickVars, cpuVars, histVars>>

(***************************************************************************)
(* Interrupts.                                                             *)
(***************************************************************************)

(* osThreadNotify: pend PendSV for another thread; for the current one set *)
(* ICSR.PENDSVCLR in a read-modify-write.  If PendSV was pending that      *)
(* writes SET and CLR together, whose effect the architecture leaves open. *)
Notify(u) ==
  /\ IF u # current
       THEN pend' = TRUE
       ELSE pend' \in IF pend THEN BOOLEAN ELSE {FALSE}
  /\ UNCHANGED <<tcbVars, eventVars, semVars, tickVars, current, mode, spin,
                 histVars, signals>>

SlipSysTickNoReset ==
  /\ clock' = (clock + 1) % ClockSize
  /\ slice' = slice + 1
  /\ pend' = (pend \/ (slice + 1 = Slice /\ prio[current] # "Realtime"))
  /\ UNCHANGED <<tcbVars, eventVars, semVars, current, mode, spin, histVars,
                 signals>>

SlipSysTickNoYield ==
  /\ clock' = (clock + 1) % ClockSize
  /\ slice' = (slice + 1) % Slice
  /\ UNCHANGED <<tcbVars, eventVars, semVars, cpuVars, histVars, signals>>

(* SysTick_Handler: advance the clock; at the end of a slice request a     *)
(* switch unless the current thread is realtime.  The callbacks osTimerWork*)
(* runs are the interrupts above.                                          *)
SysTick ==
  /\ clock' = (clock + 1) % ClockSize
  /\ slice' = (slice + 1) % Slice
  /\ pend' = (pend \/ (slice + 1 = Slice /\ prio[current] # "Realtime"))
  /\ UNCHANGED <<tcbVars, eventVars, semVars, current, mode, spin, histVars,
                 signals>>

(***************************************************************************)
(* PendSV_Handler and osThreadScheduler.                                   *)
(***************************************************************************)

SlipPendSV ==
  /\ mode = "thread"
  /\ pend
  /\ mode' = "sched"
  /\ pend' = FALSE
  /\ UNCHANGED <<tcbVars, eventVars, semVars, tickVars, current, spin,
                 histVars, signals>>

(* Entry: save the context of the current thread. *)
PendSV ==
  /\ mode = "thread"
  /\ pend
  /\ mode' = "sched"
  /\ pend' = FALSE
  /\ sp' = [sp EXCEPT ![current] = psp]
  /\ UNCHANGED <<next, psp, map, prio, eventVars, semVars, tickVars, current,
                 spin, histVars, signals>>

(* osStackAlloc: the lowest clear bit.  With no clear bit __builtin_ctz(0) *)
(* gives PoolBits and the shift sets nothing.                              *)
StackAlloc(idx) ==
  LET free == Pool \ map
  IN  \/ /\ idx \in free
         /\ \A i \in free : idx <= i
         /\ map' = map \cup {idx}
      \/ /\ free = {}
         /\ idx = PoolBits
         /\ map' = map

(* Leave the loop with thr: give it a stack if it has none, resume it. *)
Dispatch(thr) ==
  /\ mode' = "thread"
  /\ IF sp[thr] = NoSp
       THEN \E idx \in 0..PoolBits :
              /\ StackAlloc(idx)
              /\ sp' = [sp EXCEPT ![thr] = idx]
              /\ psp' = idx
       ELSE /\ psp' = sp[thr]
            /\ UNCHANGED <<sp, map>>

SlipSignalNoTest(thr) == wflags[thr] # {}
SlipSignalMask(thr) == signals[thr] \ wflags[thr] # {}
SlipExpired(thr) == "Timeout" \in status[thr]
SignalArrived(thr) == signals[thr] \cap wflags[thr] # {}
Expired(thr) ==
  "Timeout" \in status[thr] /\ Elapsed(timestamp[thr]) >= timeout[thr]

(* The turns of the loop, by what the event word of the next thread says.  *)
TurnRunning(thr) ==
  /\ "Running" \in status[thr]
  /\ Dispatch(thr)
  /\ UNCHANGED <<eventVars, semVars>>

TurnSignal(thr) ==
  /\ "Running" \notin status[thr] /\ "Signal" \in status[thr]
  /\ SignalArrived(thr)
  /\ wflags' = [wflags EXCEPT ![thr] = signals[thr] \cap @]
  /\ status' = [status EXCEPT ![thr] = {"Signal", "Running"}]
  /\ Dispatch(thr)
  /\ UNCHANGED <<wsem, timestamp, timeout, semVars>>

TurnSemaphore(thr) ==
  /\ status[thr] \cap {"Running", "Signal"} = {} /\ "Semaphore" \in status[thr]
  /\ \E s \in wsem[thr] : sem[s] > 0 /\ SemaphoreEnter(thr, s)
  /\ status' = [status EXCEPT ![thr] = {"Semaphore", "Running"}]
  /\ wsem' = [wsem EXCEPT ![thr] = {}]
  /\ Dispatch(thr)
  /\ UNCHANGED <<wflags, timestamp, timeout>>

(* The wait of thr for its event did not succeed in this turn. *)
NotGranted(thr) ==
  /\ "Running" \notin status[thr]
  /\ "Signal" \in status[thr] => ~SignalArrived(thr)
  /\ ("Signal" \notin status[thr] /\ "Semaphore" \in status[thr]) =>
       \A s \in wsem[thr] : sem[s] <= 0

(* semaphore_enter decrements a negative count and grants nothing. *)
FailedEnter(thr) ==
  /\ sem' = [s \in Sem |->
               IF /\ "Signal" \notin status[thr] /\ "Semaphore" \in status[thr]
                  /\ s \in wsem[thr] /\ sem[s] < 0
                 THEN sem[s] - 1 ELSE sem[s]]
  /\ UNCHANGED holders

TurnTimeout(thr) ==
  /\ NotGranted(thr)
  /\ Expired(thr)
  /\ FailedEnter(thr)
  /\ status' = [status EXCEPT ![thr] = {"Timeout", "Running"}]
  /\ Dispatch(thr)
  /\ UNCHANGED <<wsem, wflags, timestamp, timeout>>

TurnSkip(thr) ==
  /\ NotGranted(thr)
  /\ ~Expired(thr)
  /\ FailedEnter(thr)
  /\ UNCHANGED <<sp, psp, map, mode, eventVars>>

Turn ==
  LET thr == next[current]
  IN  /\ mode = "sched"
      /\ current' = thr
      /\ \/ TurnRunning(thr)
         \/ TurnSignal(thr)
         \/ TurnSemaphore(thr)
         \/ TurnTimeout(thr)
         \/ TurnSkip(thr)
      /\ UNCHANGED <<next, prio, tickVars, pend, spin, histVars, signals>>

ThreadStep ==
  \E t \in Thread :
    \/ \E new \in Thread : ThrdCreate(t, new)
    \/ SvcExit(t) \/ ThrdExit(t)
    \/ \E s \in Sem, ms \in Millisec : SemWait(t, s, ms)
    \/ \E mask \in SUBSET Flag \ {{}}, o \in Options, ms \in Millisec :
         FlagsWait(t, mask, o, ms)
    \/ \E us \in Microsec : ThrdSleep(t, us) \/ Usleep(t, us)
    \/ ThrdYield(t)
    \/ \E u \in Thread, p \in Priority : SetPriority(t, u, p)
    \/ \E s \in Sem : SemTry(t, s)

AnyContext ==
  \/ \E s \in Sem, h \in Thread : SemaphoreLeave(s, h)
  \/ \E u \in Thread, f \in Flag : SignalSet(u, f) \/ SignalClear(u, f)

Interrupt ==
  \/ \E u \in NotifyTargets : Notify(u)
  \/ SysTick

Next ==
  \/ ThreadStep
  \/ AnyContext
  \/ Interrupt
  \/ UsleepReturn
  \/ PendSV
  \/ Turn

Spec == Init /\ [][Next]_vars

(* The hardware keeps ticking, takes a pending exception and keeps         *)
(* executing the handler it is in; threads owe nothing.                    *)
Fairness == WF_vars(SysTick) /\ WF_vars(PendSV) /\ WF_vars(Turn)
FairSpec == Spec /\ Fairness

-----------------------------------------------------------------------------
(***************************************************************************)
(* Safety.                                                                 *)
(***************************************************************************)

(* The ring that thrd_create and svc_handler_kill splice is one cycle      *)
(* through main and holds exactly the threads that have not completed: no  *)
(* thread is lost from it and no completed TCB stays linked.               *)
RingExact ==
  /\ Ring = Live
  /\ \A t, u \in Live : next[t] = next[u] => t = u

(* osStackAlloc and osStackFree keep the bit map exact: a taken bit is the *)
(* stack of exactly one live thread, and no bit leaks when threads end.    *)
PoolOwners == {t \in Live \ {Main} : sp[t] # NoSp}
StacksExact ==
  /\ map = {sp[t] : t \in PoolOwners}
  /\ \A t, u \in PoolOwners : sp[t] = sp[u] => t = u

(* Outside the scheduler the core runs on the stack of current_thread.     *)
RunsOnOwnStack ==
  mode # "sched" =>
    psp = IF current = Main THEN MainSp ELSE sp[current]

(* semaphore_enter on the fast path, the grants of the scheduler, timeouts *)
(* and semaphore_leave lose and duplicate no token: with one token, at     *)
(* most one thread holds it.                                               *)
TokensConserved ==
  \A s \in Sem : sem[s] >= 0 /\ sem[s] + Cardinality(holders[s]) = Tokens[s]

(* A thread that executes was made runnable: the SVC that parks it is      *)
(* always followed by the switch before its next instruction.              *)
ExecutingIsRunning ==
  \A t \in Thread : Exec(t) => "Running" \in status[t]

(* A parked thread becomes runnable only by what it waits for: a token it  *)
(* now holds, a flag that is set, or an expired timeout; and a timeout     *)
(* takes no token with it.                                                 *)
WokenForAReason ==
  [][\A t \in Live :
       ("Running" \notin status[t] /\ "Running" \in status'[t]) =>
         \/ /\ "Semaphore" \in status[t] \cap status'[t]
            /\ \E s \in wsem[t] : t \in holders'[s] \ holders[s]
         \/ /\ "Signal" \in status[t] \cap status'[t]
            /\ signals[t] \cap wflags[t] # {}
         \/ /\ "Timeout" \in status[t] \cap status'[t]
            /\ Elapsed(timestamp[t]) >= timeout[t]
            /\ holders' = holders]_vars

(* What osThreadFlagsWait reports on success are flags that were set.      *)
FlagsReported ==
  [][\A t \in Live :
       (status'[t] # status[t] /\ {"Signal", "Running"} \subseteq status'[t])
         => wflags'[t] # {} /\ wflags'[t] \subseteq signals[t]]_vars

(* The kernel implements the waits that the primitives are built on: seen  *)
(* through the event words and the counts alone, every splice, switch and  *)
(* turn of the scheduler is a step of EventWait or none.                   *)
E == INSTANCE EventWait
ImplementsEventWait == E!EventWaitSpec

(***************************************************************************)
(* Liveness.                                                               *)
(***************************************************************************)

(* Round robin: every runnable thread gets the core again, because SysTick *)
(* ends the slice of whoever runs and the scheduler walks the whole ring.  *)
(* Where nobody has Realtime priority and nobody sleeps zero microseconds: *)
(* the first keeps the core to itself, the second spins in its handler.    *)
RoundRobin ==
  \A t \in Thread :
    ("Running" \in status[t]) ~> (mode = "thread" /\ current = t)

(* No wakeup is ignored: a thread is not parked for ever while the token,  *)
(* the flag or the instant it waits for stays there.                       *)
NoIgnoredWakeup ==
  \A t \in Thread :
    ~<>[](/\ t \in Live
          /\ "Running" \notin status[t]
          /\ \/ "Semaphore" \in status[t] /\ \E s \in wsem[t] : sem[s] > 0
             \/ "Signal" \in status[t] /\ signals[t] \cap wflags[t] # {}
             \/ Expired(t))
=============================================================================
