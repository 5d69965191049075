---------------------------- MODULE ThreadProofs ----------------------------
(***************************************************************************)
(* Theorems about Thread for every number of threads, stacks, semaphores   *)
(* and flags: type correctness, exactness of the ring and of the stack     *)
(* pool, conservation of tokens, the reasons a thread is woken for, and    *)
(* that the kernel implements EventWait.                                   *)
(***************************************************************************)
EXTENDS Thread, FiniteSetTheorems, TLAPS

(***************************************************************************)
(* Type correctness.                                                       *)
(***************************************************************************)

(* Arithmetic on time stays within the width of the clock. *)
LEMMA ClockType ==
  /\ ClockSize \in Nat \ {0}
  /\ 0 \in Instant /\ osWaitForever \in Instant
  /\ (clock \in Instant) => (clock + 1) % ClockSize \in Instant
  /\ \A ms \in Millisec : ToMicrosec(ms) \in Instant
<1> USE DEF Instant
<1>1. ClockSize \in Nat \ {0} /\ ClockSize \in Int /\ Scale \in Nat
  BY BoundAssumption
<1>2. \A n \in Int : n % ClockSize \in 0..(ClockSize - 1)
  BY <1>1
<1>3. osWaitForever \in 0..(ClockSize - 1)
  BY <1>1 DEF osWaitForever
<1>4. ASSUME NEW ms \in Millisec PROVE ToMicrosec(ms) \in 0..(ClockSize - 1)
  <2>1. ms \in Nat BY InputAssumption
  <2>2. ms * Scale \in Int BY <2>1, <1>1
  <2>3. QED BY <2>2, <1>2 DEF ToMicrosec
<1>5. (clock \in 0..(ClockSize - 1)) =>
        (clock + 1) % ClockSize \in 0..(ClockSize - 1)
  BY <1>1, <1>2
<1>6. QED BY <1>1, <1>3, <1>4, <1>5

(* Stack numbers, those of the pool, of main and of no stack. *)
LEMMA StackType ==
  /\ PoolBits \in Nat /\ MainSp \in 0..MainSp /\ NoSp \notin 0..MainSp
  /\ \A idx \in 0..PoolBits : idx \in 0..MainSp /\ idx # MainSp
  /\ Pool \subseteq 0..PoolBits
BY BoundAssumption DEF MainSp, NoSp, Pool

(* main_thread at start has the types. *)
LEMMA InitType == ASSUME Init PROVE TypeOK
<1>1. TcbTypeOK
  BY StackType, ThreadAssumption DEF Init, TcbTypeOK
<1>2. EventTypeOK
  BY ClockType DEF Init, EventTypeOK, StatusFlag
<1>3. SemTypeOK
  <2>1. sem \in [Sem -> Int] BY SemAssumption DEF Init
  <2>2. QED BY <2>1 DEF Init, SemTypeOK
<1>4. CpuTypeOK
  BY ClockType, ThreadAssumption, Zenon DEF Init, CpuTypeOK
<1>5. RestTypeOK
  BY ClockType, BoundAssumption DEF Init, RestTypeOK
<1>6. QED BY <1>1, <1>2, <1>3, <1>4, <1>5 DEF TypeOK

(***************************************************************************)
(* Which parts of the state an action leaves alone.                        *)
(***************************************************************************)
LEMMA SameTcb == TcbTypeOK /\ UNCHANGED tcbVars => TcbTypeOK'
BY DEF TcbTypeOK, tcbVars

(* The parts of TypeOK depend on their own variables only. *)
LEMMA SameEvent == EventTypeOK /\ UNCHANGED eventVars => EventTypeOK'
BY DEF EventTypeOK, eventVars

(* Likewise for the counts. *)
LEMMA SameSem == SemTypeOK /\ UNCHANGED semVars => SemTypeOK'
BY DEF SemTypeOK, semVars

(* Likewise for the processor. *)
LEMMA SameCpu == CpuTypeOK /\ UNCHANGED cpuVars => CpuTypeOK'
BY DEF CpuTypeOK, cpuVars

(* Likewise for the four parts together. *)
LEMMA SameRest ==
  RestTypeOK /\ UNCHANGED <<tickVars, histVars, signals>> => RestTypeOK'
BY DEF RestTypeOK, tickVars, histVars

(***************************************************************************)
(* The types, action by action.                                            *)
(***************************************************************************)
LEMMA ThrdCreateType ==
  ASSUME TypeOK, NEW t \in Thread, NEW new \in Thread, ThrdCreate(t, new)
  PROVE  TypeOK'
<1> USE DEF TypeOK, ThrdCreate
<1>1. TcbTypeOK' BY StackType DEF TcbTypeOK
<1>2. EventTypeOK' BY DEF EventTypeOK, StatusFlag
<1>3. SemTypeOK' BY SameSem
<1>4. CpuTypeOK' BY SameCpu
<1>5. RestTypeOK'
  <2>1. creations' \in 0..MaxCreate BY BoundAssumption DEF RestTypeOK
  <2>2. QED BY <2>1 DEF RestTypeOK, tickVars
<1>6. QED BY <1>1, <1>2, <1>3, <1>4, <1>5

(* A thread is ended by SVC_EXIT. *)
LEMMA SvcExitType ==
  ASSUME TypeOK, NEW t \in Thread, SvcExit(t)
  PROVE  TypeOK'
<1> USE DEF TypeOK, SvcExit
<1>1. TcbTypeOK' BY DEF TcbTypeOK, SvcKill, StackFree, Ring
<1>2. EventTypeOK' BY DEF EventTypeOK, StatusFlag, SvcKill
<1>3. SemTypeOK' BY SameSem
<1>4. CpuTypeOK' BY DEF CpuTypeOK, SvcKill, RequestSwitch
<1>5. RestTypeOK' BY DEF RestTypeOK, tickVars
<1>6. QED BY <1>1, <1>2, <1>3, <1>4, <1>5

(* thrd_exit ends nothing. *)
LEMMA ThrdExitType ==
  ASSUME TypeOK, NEW t \in Thread, ThrdExit(t)
  PROVE  TypeOK'
<1> USE DEF TypeOK, ThrdExit
<1>1. TcbTypeOK' BY SameTcb
<1>2. EventTypeOK' BY SameEvent
<1>3. SemTypeOK' BY SameSem
<1>4. CpuTypeOK' BY SameCpu
<1>5. RestTypeOK' BY DEF RestTypeOK, tickVars
<1>6. QED BY <1>1, <1>2, <1>3, <1>4, <1>5

(* svc_handler_event_wait stores the event word of the caller. *)
LEMMA SvcEventWaitType ==
  ASSUME TypeOK, NEW t \in Thread, NEW flags \in SUBSET StatusFlag,
         NEW sems \in SUBSET Sem, NEW mask \in SUBSET Flag,
         NEW interval \in Instant,
         SvcEventWait(t, flags, sems, mask, interval)
  PROVE  TypeOK'
<1> USE DEF TypeOK, SvcEventWait
<1>1. TcbTypeOK' BY SameTcb
<1>2. EventTypeOK'
  <2>1. flags \cup {"Timeout"} \in SUBSET StatusFlag BY DEF StatusFlag
  <2>2. clock \in Instant BY DEF RestTypeOK
  <2>3. status' \in [Thread -> SUBSET StatusFlag] BY <2>1 DEF EventTypeOK
  <2>4. timeout' \in [Thread -> Instant] BY DEF EventTypeOK
  <2>5. timestamp' \in [Thread -> Instant] BY <2>2 DEF EventTypeOK
  <2>6. wsem' \in [Thread -> SUBSET Sem] /\ wflags' \in [Thread -> SUBSET Flag]
    BY DEF EventTypeOK
  <2>7. QED BY <2>3, <2>4, <2>5, <2>6 DEF EventTypeOK
<1>3. SemTypeOK' BY SameSem
<1>4. CpuTypeOK' BY DEF CpuTypeOK, RequestSwitch
<1>5. RestTypeOK' BY SameRest
<1>6. QED BY <1>1, <1>2, <1>3, <1>4, <1>5

(* svc_handler_usleep spins or parks. *)
LEMMA UsleepType ==
  ASSUME TypeOK, NEW t \in Thread, NEW us \in Microsec, Usleep(t, us)
  PROVE  TypeOK'
<1> USE DEF TypeOK, Usleep
<1>0. us \in Instant BY InputAssumption DEF Instant
<1>1. TcbTypeOK' BY SameTcb
<1>2. EventTypeOK'
  <2>1. CASE us < ShortSleep BY <2>1, SameEvent
  <2>2. CASE ~(us < ShortSleep)
    <3>1. status' \in [Thread -> SUBSET StatusFlag]
      BY <2>2 DEF EventTypeOK, StatusFlag
    <3>2. timeout' \in [Thread -> Instant] BY <1>0, <2>2 DEF EventTypeOK
    <3>3. timestamp' \in [Thread -> Instant]
      BY <2>2 DEF EventTypeOK, RestTypeOK
    <3>4. QED BY <2>2, <3>1, <3>2, <3>3 DEF EventTypeOK
  <2>3. QED BY <2>1, <2>2
<1>3. SemTypeOK' BY SameSem
<1>4. CpuTypeOK'
  <2>1. CASE us < ShortSleep
    <3>1. spin' \in [since : Instant, interval : Instant]
      BY <1>0, <2>1 DEF RestTypeOK
    <3>2. QED BY <2>1, <3>1 DEF CpuTypeOK
  <2>2. CASE ~(us < ShortSleep)
    BY <2>2 DEF CpuTypeOK, RequestSwitch
  <2>3. QED BY <2>1, <2>2
<1>5. RestTypeOK' BY SameRest
<1>6. QED BY <1>1, <1>2, <1>3, <1>4, <1>5

(* Every call of thread code keeps the types. *)
LEMMA ThreadStepType == ASSUME TypeOK, ThreadStep PROVE TypeOK'
<1>1. ASSUME NEW t \in Thread, NEW s \in Sem, NEW ms \in Millisec,
             SemWait(t, s, ms)
      PROVE  TypeOK'
  <2>1. {"Semaphore"} \in SUBSET StatusFlag BY DEF StatusFlag
  <2>2. QED BY <1>1, <2>1, SvcEventWaitType, ClockType DEF SemWait
<1>2. ASSUME NEW t \in Thread, NEW mask \in SUBSET Flag \ {{}},
             NEW o \in Options, NEW ms \in Millisec,
             FlagsWait(t, mask, o, ms)
      PROVE  TypeOK'
  <2>1. {"Signal"} \cup o \in SUBSET StatusFlag
    BY InputAssumption DEF osFlagsWaitAny, osFlagsWaitAll, StatusFlag
  <2>2. mask \in SUBSET Flag OBVIOUS
  <2>3. QED BY <1>2, <2>1, <2>2, SvcEventWaitType, ClockType DEF FlagsWait
<1>3. ASSUME NEW t \in Thread, NEW us \in Microsec, ThrdSleep(t, us)
      PROVE  TypeOK'
  <2>1. us \in Instant BY InputAssumption DEF Instant
  <2>2. QED BY <1>3, <2>1, SvcEventWaitType DEF ThrdSleep
<1>4. ASSUME NEW t \in Thread, ThrdYield(t) PROVE TypeOK'
  <2>1. CpuTypeOK' BY <1>4 DEF TypeOK, ThrdYield, CpuTypeOK, RequestSwitch
  <2>2. QED
    BY <1>4, <2>1, SameTcb, SameEvent, SameSem, SameRest DEF TypeOK, ThrdYield
<1>5. ASSUME NEW t \in Thread, NEW u \in Thread, NEW p \in Priority,
             SetPriority(t, u, p)
      PROVE  TypeOK'
  <2>1. p \in {"Normal", "Realtime"} BY InputAssumption
  <2>2. TcbTypeOK' BY <1>5, <2>1 DEF TypeOK, SetPriority, TcbTypeOK
  <2>3. QED
    BY <1>5, <2>2, SameEvent, SameSem, SameCpu, SameRest
    DEF TypeOK, SetPriority
<1>6. ASSUME NEW t \in Thread, NEW s \in Sem, SemTry(t, s) PROVE TypeOK'
  <2>1. SemTypeOK' BY <1>6 DEF TypeOK, SemTry, SemaphoreEnter, SemTypeOK
  <2>2. QED
    BY <1>6, <2>1, SameTcb, SameEvent, SameCpu, SameRest DEF TypeOK, SemTry
<1>7. QED
  BY <1>1, <1>2, <1>3, <1>4, <1>5, <1>6, ThrdCreateType, SvcExitType,
     ThrdExitType,
     UsleepType
  DEF ThreadStep

(* So do the calls that any context makes. *)
LEMMA AnyContextType == ASSUME TypeOK, AnyContext PROVE TypeOK'
<1>1. ASSUME NEW s \in Sem, NEW h \in Thread, SemaphoreLeave(s, h)
      PROVE  TypeOK'
  <2>1. SemTypeOK' BY <1>1 DEF TypeOK, SemaphoreLeave, SemTypeOK
  <2>2. QED
    BY <1>1, <2>1, SameTcb, SameEvent, SameCpu, SameRest
    DEF TypeOK, SemaphoreLeave
<1>2. ASSUME NEW u \in Thread, NEW f \in Flag,
             SignalSet(u, f) \/ SignalClear(u, f)
      PROVE  TypeOK'
  <2>1. RestTypeOK'
    BY <1>2 DEF TypeOK, SignalSet, SignalClear, RestTypeOK, tickVars, histVars
  <2>2. QED
    BY <1>2, <2>1, SameTcb, SameEvent, SameCpu, SameSem
    DEF TypeOK, SignalSet, SignalClear
<1>3. QED BY <1>1, <1>2 DEF AnyContext

(* So do the interrupts. *)
LEMMA InterruptType == ASSUME TypeOK, Interrupt PROVE TypeOK'
<1>1. ASSUME NEW u \in NotifyTargets, Notify(u) PROVE TypeOK'
  <2>1. CpuTypeOK' BY <1>1 DEF TypeOK, Notify, CpuTypeOK
  <2>2. QED
    BY <1>1, <2>1, SameTcb, SameEvent, SameSem, SameRest DEF TypeOK, Notify
<1>2. CASE SysTick
  <2>1. pend' \in BOOLEAN BY <1>2 DEF TypeOK, SysTick, CpuTypeOK
  <2>2. CpuTypeOK' BY <1>2, <2>1 DEF TypeOK, SysTick, CpuTypeOK
  <2>3. slice' \in 0..(Slice - 1)
    BY <1>2, BoundAssumption DEF TypeOK, SysTick, RestTypeOK
  <2>4. RestTypeOK'
    BY <1>2, <2>3, ClockType DEF TypeOK, SysTick, RestTypeOK, histVars
  <2>5. QED
    BY <1>2, <2>2, <2>4, SameTcb, SameEvent, SameSem DEF TypeOK, SysTick
<1>3. QED BY <1>1, <1>2 DEF Interrupt

(* The return from the scheduler to the thread it chose. *)
LEMMA DispatchType ==
  ASSUME TypeOK, NEW thr \in Thread, Dispatch(thr)
  PROVE  /\ sp' \in [Thread -> {NoSp} \cup 0..MainSp]
         /\ psp' \in 0..MainSp
         /\ map' \in SUBSET Pool
         /\ mode' = "thread"
<1>1. CASE sp[thr] = NoSp
  <2>1. PICK idx \in 0..PoolBits :
           StackAlloc(idx) /\ sp' = [sp EXCEPT ![thr] = idx] /\ psp' = idx
    BY <1>1 DEF Dispatch
  <2>2. idx \in 0..MainSp BY StackType
  <2>3. map' \in SUBSET Pool
    BY <2>1 DEF StackAlloc, TypeOK, TcbTypeOK
  <2>4. QED BY <2>1, <2>2, <2>3 DEF TypeOK, TcbTypeOK, Dispatch
<1>2. CASE sp[thr] # NoSp
  BY <1>2 DEF Dispatch, TypeOK, TcbTypeOK
<1>3. QED BY <1>1, <1>2

(* A turn of the scheduler keeps the types. *)
LEMMA TurnType == ASSUME TypeOK, Turn PROVE TypeOK'
<1> DEFINE thr == next[current]
<1>1. thr \in Thread /\ current' = thr
  BY DEF TypeOK, TcbTypeOK, CpuTypeOK, Turn
<1>2. RestTypeOK' BY SameRest DEF TypeOK, Turn
<1>3. ASSUME Dispatch(thr) PROVE TcbTypeOK' /\ CpuTypeOK'
  <2>1. TcbTypeOK' BY <1>1, <1>3, DispatchType DEF TypeOK, TcbTypeOK, Turn
  <2>2. pend' = pend /\ spin' = spin /\ mode' = "thread" BY <1>3 DEF Turn, Dispatch
  <2>3. CpuTypeOK' BY <1>1, <2>2 DEF TypeOK, CpuTypeOK
  <2>4. QED BY <2>1, <2>3
<1>4. CASE TurnRunning(thr)
  BY <1>2, <1>3, <1>4, SameEvent, SameSem DEF TypeOK, TurnRunning
<1>5. CASE TurnSignal(thr)
  <2>1. EventTypeOK'
    BY <1>1, <1>5 DEF TypeOK, EventTypeOK, TurnSignal, StatusFlag
  <2>2. QED BY <1>2, <1>3, <1>5, <2>1, SameSem DEF TypeOK, TurnSignal
<1>6. CASE TurnSemaphore(thr)
  <2>1. EventTypeOK'
    BY <1>1, <1>6 DEF TypeOK, EventTypeOK, TurnSemaphore, StatusFlag
  <2>2. SemTypeOK'
    BY <1>1, <1>6
    DEF TypeOK, SemTypeOK, EventTypeOK, TurnSemaphore, SemaphoreEnter
  <2>3. QED BY <1>2, <1>3, <1>6, <2>1, <2>2 DEF TypeOK, TurnSemaphore
<1>7. ASSUME FailedEnter(thr) PROVE SemTypeOK'
  BY <1>7 DEF TypeOK, SemTypeOK, FailedEnter
<1>8. CASE TurnTimeout(thr)
  <2>1. EventTypeOK'
    BY <1>1, <1>8 DEF TypeOK, EventTypeOK, TurnTimeout, StatusFlag
  <2>2. QED BY <1>2, <1>3, <1>7, <1>8, <2>1 DEF TypeOK, TurnTimeout
<1>9. CASE TurnSkip(thr)
  <2>1. TcbTypeOK' BY <1>9, SameTcb DEF TypeOK, TurnSkip, Turn, tcbVars
  <2>2. CpuTypeOK' BY <1>1, <1>9 DEF TypeOK, TurnSkip, Turn, CpuTypeOK
  <2>3. QED BY <1>2, <1>7, <1>9, <2>1, <2>2, SameEvent DEF TypeOK, TurnSkip
<1>10. QED BY <1>4, <1>5, <1>6, <1>8, <1>9 DEF Turn

(* Every step keeps the types. *)
LEMMA NextType == TypeOK /\ [Next]_vars => TypeOK'
<1> SUFFICES ASSUME TypeOK, [Next]_vars PROVE TypeOK'
  OBVIOUS
<1>1. CASE UsleepReturn
  <2>1. CpuTypeOK' BY <1>1 DEF TypeOK, UsleepReturn, CpuTypeOK
  <2>2. QED
    BY <1>1, <2>1, SameTcb, SameEvent, SameSem, SameRest
    DEF TypeOK, UsleepReturn
<1>2. CASE PendSV
  <2>1. CpuTypeOK' BY <1>2 DEF TypeOK, PendSV, CpuTypeOK
  <2>2. TcbTypeOK' BY <1>2 DEF TypeOK, PendSV, TcbTypeOK, CpuTypeOK
  <2>3. QED
    BY <1>2, <2>1, <2>2, SameEvent, SameSem, SameRest DEF TypeOK, PendSV
<1>3. CASE UNCHANGED vars
  BY <1>3, SameTcb, SameEvent, SameSem, SameCpu, SameRest DEF TypeOK, vars
<1>4. QED
  BY <1>1, <1>2, <1>3, ThreadStepType, AnyContextType, InterruptType, TurnType
  DEF Next

(* Every variable keeps its type, whatever the constants: no splice of the *)
(* ring leaves the TCBs and no stack leaves the pool.                      *)
THEOREM TypeCorrect == Spec => []TypeOK
BY InitType, NextType, PTL DEF Spec

(***************************************************************************)
(* The splices of thrd_create and svc_handler_kill keep the ring exact,    *)
(* for any number of threads.                                              *)
(***************************************************************************)

(* RingExact is not inductive: the thread that calls must be in the ring,  *)
(* and a thread that has just been unlinked must still point into it, for  *)
(* the scheduler goes on from there.                                       *)
RingInv ==
  /\ TypeOK
  /\ RingExact
  /\ current \in Live \cup exited
  /\ next[current] \in Live

(* The walk from main: Ring is closed under next and the least such set.   *)
LEMMA RingClosed == ASSUME TypeOK PROVE NextClosed(Ring)
BY ThreadAssumption DEF TypeOK, TcbTypeOK, Ring, NextClosed

(* No smaller set is closed. *)
LEMMA RingLeast ==
  ASSUME TypeOK, NEW S \in SUBSET Thread, NextClosed(S)
  PROVE  Ring \subseteq S
BY DEF Ring

(* How the ring after a step is established: a closed set within all others. *)
LEMMA RingIs ==
  ASSUME NEW X \in SUBSET Thread, Main \in X, \A x \in X : next'[x] \in X,
         \A S \in SUBSET Thread :
           (Main \in S /\ \A x \in S : next'[x] \in S) => X \subseteq S
  PROVE  Ring' = X
BY DEF Ring, NextClosed

(* A step that splices nothing, completes nobody and switches nothing. *)
Quiet ==
  /\ Live' = Live
  /\ exited \subseteq exited'
  /\ UNCHANGED <<next, current, sp, psp, map>>
  /\ (mode' = "sched") <=> (mode = "sched")

(* A thread that executes has not ended. *)
LEMMA ExecLive == ASSUME RingInv, NEW t \in Thread, Exec(t) PROVE t \in Live
BY DEF RingInv, Exec

(* The live threads are closed under next and the least such set. *)
LEMMA LiveFacts ==
  ASSUME RingInv
  PROVE  /\ Main \in Live /\ Live \subseteq Thread
         /\ \A x \in Live : next[x] \in Live
         /\ \A S \in SUBSET Thread : NextClosed(S) => Live \subseteq S
<1>1. Ring = Live /\ TypeOK BY DEF RingInv, RingExact
<1>2. NextClosed(Live) BY <1>1, RingClosed
<1>3. \A S \in SUBSET Thread : NextClosed(S) => Live \subseteq S
  BY <1>1, RingLeast
<1>4. Live \subseteq Thread BY DEF Live
<1>5. QED BY <1>2, <1>3, <1>4 DEF NextClosed

(* main_thread at start is alone in the ring. *)
LEMMA RingInit == ASSUME Init PROVE RingInv
<1>1. TypeOK BY InitType
<1>2. Live = {Main} BY ThreadAssumption DEF Init, Live
<1>3. next[Main] = Main BY ThreadAssumption DEF Init
<1>4. NextClosed({Main}) BY <1>3 DEF NextClosed
<1>5. Ring = {Main} BY <1>4, ThreadAssumption DEF Ring, NextClosed
<1>6. current = Main BY DEF Init
<1>7. QED BY <1>1, <1>2, <1>3, <1>5, <1>6 DEF RingInv, RingExact

(* thrd_create splices a TCB in after the caller. *)
LEMMA CreateRing ==
  ASSUME RingInv, TypeOK', NEW t \in Thread, NEW new \in Thread,
         ThrdCreate(t, new)
  PROVE  RingInv'
<1> DEFINE X == Live \cup {new}
<1>1. t \in Live /\ new \notin Live /\ current = t /\ current' = t
  BY ExecLive DEF ThrdCreate, Exec, cpuVars
<1>2. /\ next \in [Thread -> Thread]
      /\ next' = [next EXCEPT ![new] = next[t], ![t] = new]
  BY DEF RingInv, TypeOK, TcbTypeOK, ThrdCreate
<1>3. next'[t] = new /\ next'[new] = next[t]
  BY <1>1, <1>2
<1>4. \A x \in Live \ {t} : next'[x] = next[x]
  BY <1>1, <1>2, LiveFacts
<1>5. Live' = X
  <2>1. /\ status \in [Thread -> SUBSET StatusFlag]
        /\ status' = [status EXCEPT ![new] = {"Running"}]
    BY DEF ThrdCreate, RingInv, TypeOK, EventTypeOK
  <2>2. \A u \in Thread : (status'[u] # {}) <=> (status[u] # {} \/ u = new)
    BY <2>1
  <2>3. QED BY <2>2 DEF Live
<1>6. Main \in X /\ \A x \in X : next'[x] \in X
  BY <1>1, <1>3, <1>4, LiveFacts
<1>7. ASSUME NEW S \in SUBSET Thread,
             Main \in S /\ \A x \in S : next'[x] \in S
      PROVE  X \subseteq S
  <2>1. Main \in S /\ \A x \in S : next'[x] \in S
    BY <1>7
  <2>2. NextClosed(S \cap Live)
    BY <1>3, <1>4, <2>1, LiveFacts DEF NextClosed
  <2>3. Live \subseteq S BY <2>2, LiveFacts
  <2>4. QED BY <1>1, <1>3, <2>1, <2>3
<1>8. Ring' = X
  <2>1. X \in SUBSET Thread BY LiveFacts
  <2>2. QED BY <1>6, <1>7, <2>1, RingIs
<1>9. \A x, y \in X : next'[x] = next'[y] => x = y
  <2>1. \A x \in Live : next[x] # new BY <1>1, LiveFacts
  <2>2. \A x, y \in Live : next[x] = next[y] => x = y
    BY DEF RingInv, RingExact
  <2>3. QED BY <1>1, <1>3, <1>4, <2>1, <2>2
<1>10. QED
  BY <1>1, <1>3, <1>5, <1>8, <1>9 DEF RingInv, RingExact

(* The kill handler unlinks the caller from its predecessor. *)
LEMMA KillRing ==
  ASSUME RingInv, TypeOK', NEW t \in Thread, SvcExit(t)
  PROVE  RingInv'
<1> DEFINE X == Live \ {t}
<1>1. t \in Live /\ t # Main /\ current = t /\ current' = t /\ t \in exited'
  BY ExecLive DEF SvcExit, Exec
<1>2. PICK p \in Ring :
         next[p] = t /\ next' = [next EXCEPT ![p] = next[t]]
  BY DEF SvcExit, SvcKill
<1>3. /\ p \in Live
      /\ \A x, y \in Live : next[x] = next[y] => x = y
      /\ next \in [Thread -> Thread]
  BY DEF RingInv, RingExact, TypeOK, TcbTypeOK
<1>4. p # t
  <2>1. SUFFICES ASSUME p = t PROVE FALSE
    OBVIOUS
  <2>2. NextClosed(X) BY <1>1, <1>2, <1>3, <2>1, LiveFacts DEF NextClosed
  <2>3. QED BY <1>1, <2>2, LiveFacts
<1>5. next[t] # t BY <1>1, <1>2, <1>3, <1>4
<1>6. next'[p] = next[t] /\ \A x \in Thread \ {p} : next'[x] = next[x]
  BY <1>2, <1>3, LiveFacts
<1>7. Live' = X
  <2>1. /\ status \in [Thread -> SUBSET StatusFlag]
        /\ status' = [status EXCEPT ![t] = {}]
    BY DEF SvcExit, SvcKill, RingInv, TypeOK, EventTypeOK
  <2>2. \A u \in Thread : (status'[u] # {}) <=> (status[u] # {} /\ u # t)
    BY <2>1
  <2>3. QED BY <2>2 DEF Live
<1>8. Main \in X /\ \A x \in X : next'[x] \in X
  <2>1. Main \in X BY <1>1, LiveFacts
  <2>2. ASSUME NEW x \in X PROVE next'[x] \in X
    <3>1. CASE x = p BY <1>1, <1>5, <1>6, <3>1, LiveFacts
    <3>2. CASE x # p
      <4>1. next[x] # t BY <1>2, <1>3, <3>2
      <4>2. QED BY <1>6, <3>2, <4>1, LiveFacts
    <3>3. QED BY <3>1, <3>2
  <2>3. QED BY <2>1, <2>2
<1>9. ASSUME NEW S \in SUBSET Thread,
             Main \in S /\ \A x \in S : next'[x] \in S
      PROVE  X \subseteq S
  <2>1. Main \in S /\ \A x \in S : next'[x] \in S
    BY <1>9
  <2>2. p \in S
    <3>1. SUFFICES ASSUME p \notin S PROVE FALSE
      OBVIOUS
    <3>2. ASSUME NEW x \in (S \cap Live) \ {t}
          PROVE  next[x] \in (S \cap Live) \ {t}
      <4>1. x # p BY <3>1
      <4>2. next[x] # t BY <1>2, <1>3, <4>1
      <4>3. next'[x] = next[x] BY <1>6, <4>1
      <4>4. QED BY <2>1, <4>2, <4>3, LiveFacts
    <3>3. NextClosed((S \cap Live) \ {t})
      BY <1>1, <2>1, <3>2, LiveFacts DEF NextClosed
    <3>4. QED BY <1>3, <3>1, <3>3, LiveFacts
  <2>3. next[t] \in S BY <1>6, <2>1, <2>2
  <2>4. ASSUME NEW x \in S \cup {t} PROVE next[x] \in S \cup {t}
    BY <1>2, <1>6, <2>1, <2>3
  <2>5. NextClosed(S \cup {t}) BY <2>1, <2>4 DEF NextClosed
  <2>6. QED BY <2>5, LiveFacts
<1>10. Ring' = X
  <2>1. X \in SUBSET Thread BY LiveFacts
  <2>2. QED BY <1>8, <1>9, <2>1, RingIs
<1>11. \A x, y \in X : next'[x] = next'[y] => x = y
  BY <1>1, <1>3, <1>6, LiveFacts
<1>12. next'[t] \in X BY <1>1, <1>4, <1>5, <1>6, LiveFacts
<1>13. QED
  BY <1>1, <1>7, <1>10, <1>11, <1>12 DEF RingInv, RingExact

(* Parking the caller leaves it live: the new status is never empty. *)
LEMMA WaitQuiet ==
  ASSUME RingInv, NEW t \in Thread, Exec(t), NEW flags, NEW sems,
         NEW mask, NEW interval, SvcEventWait(t, flags, sems, mask, interval),
         flags # {} \/ interval # osWaitForever
  PROVE  Quiet
<1>1. Live' = Live
  <2>1. /\ status \in [Thread -> SUBSET StatusFlag]
        /\ t \in Live
    BY ExecLive DEF RingInv, TypeOK, EventTypeOK
  <2>2. PICK e : e # {} /\ status' = [status EXCEPT ![t] = e]
    BY DEF SvcEventWait
  <2>3. \A u \in Thread : (status'[u] # {}) <=> (status[u] # {})
    BY <2>1, <2>2 DEF Live
  <2>4. QED BY <2>3 DEF Live
<1>2. QED BY <1>1 DEF Quiet, Exec, SvcEventWait, tcbVars, histVars

(* A call creates, ends, or leaves the ring and the stacks alone. *)
LEMMA ThreadStepKinds ==
  ASSUME RingInv, ThreadStep
  PROVE  \/ \E t, new \in Thread : ThrdCreate(t, new)
         \/ \E t \in Thread : SvcExit(t)
         \/ Quiet
<1>1. ASSUME NEW t \in Thread, ThrdExit(t) PROVE Quiet
  BY <1>1 DEF Quiet, Exec, ThrdExit, Live, tcbVars, eventVars, cpuVars
<1>2. ASSUME NEW t \in Thread, NEW s \in Sem, NEW ms \in Millisec,
             SemWait(t, s, ms)
      PROVE  Quiet
  BY <1>2, WaitQuiet DEF SemWait
<1>3. ASSUME NEW t \in Thread, NEW mask \in SUBSET Flag \ {{}},
             NEW o \in Options, NEW ms \in Millisec,
             FlagsWait(t, mask, o, ms)
      PROVE  Quiet
  <2>1. {"Signal"} \cup o # {} OBVIOUS
  <2>2. QED BY <1>3, <2>1, WaitQuiet DEF FlagsWait
<1>4. ASSUME NEW t \in Thread, NEW us \in Microsec, ThrdSleep(t, us)
      PROVE  Quiet
  BY <1>4, WaitQuiet DEF ThrdSleep
<1>5. ASSUME NEW t \in Thread, NEW us \in Microsec, Usleep(t, us)
      PROVE  Quiet
  <2>0. t \in Live /\ status \in [Thread -> SUBSET StatusFlag]
    BY <1>5, ExecLive DEF Usleep, RingInv, TypeOK, EventTypeOK
  <2>1. Live' = Live
    <3>1. CASE us < ShortSleep BY <1>5, <3>1 DEF Usleep, Live, eventVars
    <3>2. CASE ~(us < ShortSleep)
      <4>1. status' = [status EXCEPT ![t] = {"Timeout"}]
        BY <1>5, <3>2 DEF Usleep
      <4>2. \A u \in Thread : (status'[u] # {}) <=> (status[u] # {})
        BY <2>0, <4>1 DEF Live
      <4>3. QED BY <4>2 DEF Live
    <3>3. QED BY <3>1, <3>2
  <2>2. QED BY <1>5, <2>1 DEF Quiet, Exec, Usleep, tcbVars, histVars
<1>6. ASSUME NEW t \in Thread, ThrdYield(t) PROVE Quiet
  BY <1>6 DEF Quiet, Exec, ThrdYield, Live, tcbVars, eventVars, histVars
<1>7. ASSUME NEW t \in Thread, NEW u \in Thread, NEW p \in Priority,
             SetPriority(t, u, p)
      PROVE  Quiet
  BY <1>7 DEF Quiet, Exec, SetPriority, Live, eventVars, cpuVars, histVars
<1>8. ASSUME NEW t \in Thread, NEW s \in Sem, SemTry(t, s) PROVE Quiet
  BY <1>8 DEF Quiet, Exec, SemTry, Live, tcbVars, eventVars, cpuVars, histVars
<1>9. QED
  BY <1>1, <1>2, <1>3, <1>4, <1>5, <1>6, <1>7, <1>8
  DEF ThreadStep

(* A turn of the scheduler completes nobody. *)
LEMMA TurnLive == ASSUME RingInv, Turn PROVE Live' = Live
<1> DEFINE thr == next[current]
<1>1. thr \in Live /\ thr \in Thread
  BY LiveFacts DEF RingInv
<1>2. Live' = Live
  <2>1. status \in [Thread -> SUBSET StatusFlag]
    BY DEF RingInv, TypeOK, EventTypeOK
  <2>2. CASE status' = status BY <2>2 DEF Live
  <2>3. CASE \E flags : flags # {} /\ status' = [status EXCEPT ![thr] = flags]
    BY <1>1, <2>1, <2>3 DEF Live
  <2>4. QED
    BY <2>2, <2>3
    DEF Turn, TurnRunning, TurnSignal, TurnSemaphore, TurnTimeout, TurnSkip,
        eventVars
<1>3. QED BY <1>2

(* The scheduler only moves along the ring. *)
LEMMA TurnRing == ASSUME RingInv, TypeOK', Turn PROVE RingInv'
<1> DEFINE thr == next[current]
<1>1. thr \in Live /\ current' = thr /\ next' = next /\ exited' = exited
  BY DEF RingInv, Turn, histVars
<1>2. Live' = Live BY TurnLive
<1>3. next'[current'] \in Live BY <1>1, LiveFacts
<1>4. RingExact' BY <1>1, <1>2 DEF RingInv, RingExact, Ring, NextClosed
<1>5. QED BY <1>1, <1>2, <1>3, <1>4 DEF RingInv

(* What one step may do to the ring and to the stacks. *)
LEMMA StepKinds ==
  ASSUME RingInv, [Next]_vars
  PROVE  \/ \E t, new \in Thread : ThrdCreate(t, new)
         \/ \E t \in Thread : SvcExit(t)
         \/ PendSV
         \/ Turn
         \/ Quiet
<1>1. CASE AnyContext
  BY <1>1
  DEF AnyContext, SemaphoreLeave, SignalSet, SignalClear, Quiet, Live, tcbVars,
      eventVars, cpuVars, histVars
<1>2. CASE Interrupt
  BY <1>2
  DEF Interrupt, Notify, SysTick, Quiet, Live, tcbVars, eventVars, histVars
<1>3. CASE UsleepReturn
  BY <1>3 DEF UsleepReturn, Quiet, Live, tcbVars, eventVars, histVars
<1>4. CASE UNCHANGED vars
  BY <1>4 DEF vars, Quiet, Live, tcbVars, eventVars, cpuVars, histVars
<1>5. QED BY <1>1, <1>2, <1>3, <1>4, ThreadStepKinds DEF Next

(* Every step keeps the invariant. *)
LEMMA RingNext == RingInv /\ [Next]_vars => RingInv'
<1> SUFFICES ASSUME RingInv, [Next]_vars PROVE RingInv'
  OBVIOUS
<1>1. TypeOK' BY NextType DEF RingInv
<1>2. CASE Quiet
  BY <1>1, <1>2 DEF Quiet, RingInv, RingExact, Ring, NextClosed
<1>3. CASE PendSV
  BY <1>1, <1>3
  DEF PendSV, Live, eventVars, histVars, RingInv, RingExact, Ring, NextClosed
<1>4. QED BY <1>1, <1>2, <1>3, StepKinds, CreateRing, KillRing, TurnRing

(* Whatever threads are created and end, and however interrupts and the    *)
(* scheduler interleave, the ring is one cycle through main that holds the *)
(* live threads and no other.                                              *)
THEOREM RingCorrect == Spec => []RingExact
<1>1. RingInv => RingExact BY DEF RingInv
<1>2. QED BY <1>1, RingInit, RingNext, PTL DEF Spec

(***************************************************************************)
(* osStackAlloc and osStackFree keep the bit map of stack_pool exact, and  *)
(* the core always runs on the stack of the current thread, whatever the   *)
(* number of threads the pool was sized for.                               *)
(***************************************************************************)

(* What the exactness of the pool rests on: an owner's stack is one of the *)
(* pool's, main runs on the boot stack and was saved before anyone else    *)
(* ran, and outside the scheduler the core is on the current stack.        *)
StackInv ==
  /\ RingInv
  /\ StacksExact
  /\ \A t \in PoolOwners : sp[t] \in Pool
  /\ sp[Main] \in {NoSp, MainSp}
  /\ sp[Main] = NoSp => current = Main /\ mode # "sched"
  /\ RunsOnOwnStack

(* At start the pool is free. *)
LEMMA StackInit == ASSUME Init PROVE StackInv
<1>1. RingInv BY RingInit
<1>2. PoolOwners = {}
  <2>1. \A t \in Thread : sp[t] = NoSp BY DEF Init
  <2>2. QED BY <2>1 DEF PoolOwners, Live
<1>3. StacksExact BY <1>2 DEF Init, StacksExact
<1>4. QED
  BY <1>1, <1>2, <1>3, ThreadAssumption DEF Init, StackInv, RunsOnOwnStack

(* The pool is never exhausted when a live thread has no stack yet: the    *)
(* owners are at most all threads but main and that one.                   *)
LEMMA PoolNotFull ==
  ASSUME StackInv, NEW thr \in Live \ {Main}, sp[thr] = NoSp
  PROVE  Pool \ map # {}
<1> DEFINE rest == (Thread \ {Main}) \ {thr}
<1>1. PoolOwners \subseteq rest BY DEF PoolOwners, Live
<1>2. IsFiniteSet(Thread \ {Main})
      /\ Cardinality(Thread \ {Main}) = Cardinality(Thread) - 1
  BY ThreadAssumption, FS_RemoveElement
<1>3. IsFiniteSet(rest) /\ Cardinality(rest) = Cardinality(Thread) - 2
  <2>1. thr \in Thread \ {Main} BY DEF Live
  <2>2. IsFiniteSet(rest)
        /\ Cardinality(rest) = Cardinality(Thread \ {Main}) - 1
    BY <1>2, <2>1, FS_RemoveElement
  <2>3. Cardinality(Thread) \in Nat BY ThreadAssumption, FS_CardinalityType
  <2>4. QED BY <1>2, <2>2, <2>3
<1>4. IsFiniteSet(PoolOwners) /\ Cardinality(PoolOwners) <= Cardinality(rest)
  BY <1>1, <1>3, FS_Subset
<1>5. map = {sp[t] : t \in PoolOwners} BY DEF StackInv, StacksExact
<1>6. IsFiniteSet(map) /\ Cardinality(map) <= Cardinality(PoolOwners)
  <2> DEFINE f == [t \in PoolOwners |-> sp[t]]
  <2>1. map = {f[t] : t \in PoolOwners} BY <1>5
  <2>2. f \in [PoolOwners -> map] BY <1>5
  <2>3. f \in Surjection(PoolOwners, map) BY <2>1, <2>2 DEF Surjection
  <2>4. QED BY <1>4, <2>3, FS_Surjection
<1>7. Cardinality(Pool) = PoolBits /\ IsFiniteSet(Pool)
  <2>1. PoolBits \in Nat BY BoundAssumption
  <2>2. 0 \in Int /\ PoolBits - 1 \in Int BY <2>1
  <2>3. Cardinality(0..(PoolBits - 1)) =
          IF 0 > PoolBits - 1 THEN 0 ELSE (PoolBits - 1) - 0 + 1
    BY <2>2, FS_Interval
  <2>4. IsFiniteSet(0..(PoolBits - 1)) BY <2>2, FS_Interval
  <2>5. QED BY <2>1, <2>3, <2>4 DEF Pool
<1>8. SUFFICES ASSUME Pool \subseteq map PROVE FALSE
  OBVIOUS
<1>9. Cardinality(Pool) <= Cardinality(map) BY <1>6, <1>8, FS_Subset
<1>10. /\ Cardinality(Thread) \in Nat /\ Cardinality(rest) \in Nat
       /\ Cardinality(PoolOwners) \in Nat /\ Cardinality(map) \in Nat
  BY <1>3, <1>4, <1>6, ThreadAssumption, FS_CardinalityType
<1>11. QED
  BY <1>3, <1>4, <1>6, <1>7, <1>9, <1>10, ThreadAssumption, BoundAssumption

(* A created thread has no stack until it is first dispatched. *)
LEMMA CreateStack ==
  ASSUME StackInv, RingInv', NEW t \in Thread, NEW new \in Thread,
         ThrdCreate(t, new)
  PROVE  StackInv'
<1>1. t \in Live /\ new \notin Live /\ current = t /\ RingInv /\ new # Main
  BY ExecLive, LiveFacts DEF StackInv, ThrdCreate, Exec
<1>2. /\ sp \in [Thread -> {NoSp} \cup 0..MainSp]
      /\ status \in [Thread -> SUBSET StatusFlag]
  BY <1>1 DEF RingInv, TypeOK, TcbTypeOK, EventTypeOK
<1>3. sp'[new] = NoSp /\ \A u \in Thread \ {new} : sp'[u] = sp[u]
  BY <1>2 DEF ThrdCreate
<1>4. Live' = Live \cup {new} /\ map' = map /\ UNCHANGED <<psp, current, mode>>
  BY <1>2 DEF ThrdCreate, Live, cpuVars
<1>5. PoolOwners' = PoolOwners
  BY <1>1, <1>3, <1>4 DEF PoolOwners, Live
<1>6. \A u \in PoolOwners : sp'[u] = sp[u]
  BY <1>1, <1>3 DEF PoolOwners, Live
<1>7. StacksExact' BY <1>4, <1>5, <1>6 DEF StackInv, StacksExact
<1>8. sp'[Main] = sp[Main] /\ sp'[t] = sp[t]
  BY <1>1, <1>3, ThreadAssumption
<1>9. QED
  BY <1>1, <1>4, <1>5, <1>6, <1>7, <1>8 DEF StackInv, RunsOnOwnStack

(* The kill handler frees the stack of the caller, which still runs on it. *)
LEMMA KillStack ==
  ASSUME StackInv, RingInv', NEW t \in Thread, SvcExit(t)
  PROVE  StackInv'
<1>1. /\ t \in Live \ {Main} /\ current = t /\ RingInv /\ mode = "thread"
      /\ UNCHANGED <<sp, psp, current, mode>> /\ map' = map \ {sp[t]}
  BY ExecLive DEF StackInv, SvcExit, Exec, SvcKill, StackFree
<1>2. status \in [Thread -> SUBSET StatusFlag] /\ psp \in 0..MainSp
  BY <1>1 DEF RingInv, TypeOK, EventTypeOK, TcbTypeOK
<1>3. Live' = Live \ {t}
  <2>1. status' = [status EXCEPT ![t] = {}] BY DEF SvcExit, SvcKill
  <2>2. \A u \in Thread : (status'[u] # {}) <=> (status[u] # {} /\ u # t)
    BY <1>2, <2>1
  <2>3. QED BY <2>2 DEF Live
<1>4. t \in PoolOwners
  <2>1. psp = sp[t] BY <1>1 DEF StackInv, RunsOnOwnStack
  <2>2. sp[t] # NoSp BY <1>2, <2>1, StackType
  <2>3. QED BY <1>1, <2>2 DEF PoolOwners
<1>5. PoolOwners' = PoolOwners \ {t} BY <1>1, <1>3 DEF PoolOwners
<1>6. map' = {sp[u] : u \in PoolOwners'}
  BY <1>1, <1>4, <1>5 DEF StackInv, StacksExact
<1>7. StacksExact' BY <1>1, <1>5, <1>6 DEF StackInv, StacksExact
<1>8. QED BY <1>1, <1>5, <1>7 DEF StackInv, RunsOnOwnStack

(* The entry of PendSV saves the stack pointer of the current thread. *)
LEMMA PendSVStack == ASSUME StackInv, RingInv', PendSV PROVE StackInv'
<1>1. /\ RingInv /\ UNCHANGED <<map, status, current>>
      /\ sp' = [sp EXCEPT ![current] = psp]
      /\ mode = "thread" /\ mode' = "sched"
  BY DEF StackInv, PendSV, eventVars
<1>2. sp \in [Thread -> {NoSp} \cup 0..MainSp] /\ current \in Thread
  BY <1>1 DEF RingInv, TypeOK, TcbTypeOK, CpuTypeOK
<1>3. psp = IF current = Main THEN MainSp ELSE sp[current]
  BY <1>1 DEF StackInv, RunsOnOwnStack
<1>4. \A t \in Thread \ {Main} : sp'[t] = sp[t] BY <1>1, <1>2, <1>3
<1>5. sp'[Main] = MainSp
  <2>1. CASE current = Main BY <1>1, <1>2, <1>3, <2>1
  <2>2. CASE current # Main
    BY <1>1, <1>2, <2>2, ThreadAssumption DEF StackInv
  <2>3. QED BY <2>1, <2>2
<1>6. PoolOwners' = PoolOwners /\ \A t \in PoolOwners : sp'[t] = sp[t]
  BY <1>1, <1>4 DEF PoolOwners, Live
<1>7. StacksExact' BY <1>1, <1>6 DEF StackInv, StacksExact
<1>8. MainSp # NoSp BY StackType
<1>9. QED BY <1>1, <1>5, <1>6, <1>7, <1>8 DEF StackInv, RunsOnOwnStack

(* The scheduler resumes thr, on its own stack or on a fresh one. *)
LEMMA DispatchStack ==
  ASSUME StackInv, RingInv', Live' = Live, NEW thr \in Live, current' = thr,
         mode = "sched", Dispatch(thr)
  PROVE  StackInv'
<1>1. /\ RingInv /\ sp[Main] = MainSp /\ MainSp # NoSp /\ mode' = "thread"
      /\ StacksExact
  BY StackType DEF StackInv, Dispatch
<1>2. sp \in [Thread -> {NoSp} \cup 0..MainSp] /\ thr \in Thread
  BY <1>1 DEF RingInv, TypeOK, TcbTypeOK, Live
<1>3. CASE sp[thr] # NoSp
  <2>1. UNCHANGED <<sp, map>> /\ psp' = sp[thr] BY <1>3 DEF Dispatch
  <2>2. PoolOwners' = PoolOwners BY <2>1 DEF PoolOwners
  <2>3. StacksExact' BY <1>1, <2>1, <2>2 DEF StacksExact
  <2>4. QED BY <1>1, <2>1, <2>2, <2>3 DEF StackInv, RunsOnOwnStack
<1>4. CASE sp[thr] = NoSp
  <2>1. thr # Main BY <1>1, <1>4
  <2>2. PICK idx \in 0..PoolBits :
           StackAlloc(idx) /\ sp' = [sp EXCEPT ![thr] = idx] /\ psp' = idx
    BY <1>4 DEF Dispatch
  <2>3. Pool \ map # {} BY <1>4, <2>1, PoolNotFull
  <2>4. idx \in Pool \ map /\ map' = map \cup {idx}
    BY <2>2, <2>3 DEF StackAlloc
  <2>5. idx # NoSp BY StackType
  <2>6. PoolOwners' = PoolOwners \cup {thr} /\ thr \notin PoolOwners
    BY <1>2, <1>4, <2>1, <2>2, <2>5 DEF PoolOwners, Live
  <2>7. sp'[thr] = idx /\ \A u \in Thread \ {thr} : sp'[u] = sp[u]
    BY <1>2, <2>2
  <2>8. \A u \in PoolOwners : u \in Thread \ {thr} /\ sp'[u] = sp[u]
    BY <2>6, <2>7 DEF PoolOwners, Live
  <2>9. map' = {sp'[u] : u \in PoolOwners'}
    BY <1>1, <2>4, <2>6, <2>7, <2>8 DEF StacksExact
  <2>10. \A u, v \in PoolOwners' : sp'[u] = sp'[v] => u = v
    <3>1. \A u \in PoolOwners : sp[u] # idx BY <1>1, <2>4 DEF StacksExact
    <3>2. \A u, v \in PoolOwners : sp[u] = sp[v] => u = v
      BY <1>1 DEF StacksExact
    <3>3. QED BY <2>6, <2>7, <2>8, <3>1, <3>2
  <2>11. StacksExact' BY <2>9, <2>10 DEF StacksExact
  <2>12. \A u \in PoolOwners' : sp'[u] \in Pool
    BY <2>4, <2>6, <2>7, <2>8 DEF StackInv
  <2>13. sp'[Main] = MainSp BY <1>1, <2>1, <2>7, ThreadAssumption
  <2>14. QED
    BY <1>1, <2>1, <2>2, <2>7, <2>11, <2>12, <2>13
    DEF StackInv, RunsOnOwnStack
<1>5. QED BY <1>3, <1>4

(* A turn of the scheduler dispatches, or leaves the stacks alone. *)
LEMMA TurnStack == ASSUME StackInv, RingInv', Turn PROVE StackInv'
<1> DEFINE thr == next[current]
<1>1. RingInv BY DEF StackInv
<1>2. thr \in Live /\ current' = thr /\ mode = "sched" /\ Live' = Live
  BY <1>1, TurnLive DEF RingInv, Turn
<1>3. CASE Dispatch(thr) BY <1>2, <1>3, DispatchStack
<1>4. CASE TurnSkip(thr)
  <2>1. UNCHANGED <<sp, psp, map, mode>> BY <1>4 DEF TurnSkip
  <2>2. PoolOwners' = PoolOwners BY <1>2, <2>1 DEF PoolOwners
  <2>3. StacksExact' BY <2>1, <2>2 DEF StackInv, StacksExact
  <2>4. QED BY <1>2, <2>1, <2>2, <2>3 DEF StackInv, RunsOnOwnStack
<1>5. QED
  BY <1>3, <1>4
  DEF Turn, TurnRunning, TurnSignal, TurnSemaphore, TurnTimeout

(* A quiet step leaves the stacks alone. *)
LEMMA QuietStack == ASSUME StackInv, RingInv', Quiet PROVE StackInv'
<1>1. PoolOwners' = PoolOwners BY DEF Quiet, PoolOwners
<1>2. StacksExact' BY <1>1 DEF Quiet, StackInv, StacksExact
<1>3. QED BY <1>1, <1>2 DEF Quiet, StackInv, RunsOnOwnStack

(* Every step keeps the invariant. *)
LEMMA StackNext == StackInv /\ [Next]_vars => StackInv'
<1> SUFFICES ASSUME StackInv, [Next]_vars PROVE StackInv'
  OBVIOUS
<1>1. RingInv /\ RingInv' BY RingNext DEF StackInv
<1>2. QED
  BY <1>1, StepKinds, CreateStack, KillStack, PendSVStack, TurnStack,
     QuietStack

(* A taken bit of stack_pool.map is the stack of exactly one live thread,  *)
(* so that no two threads ever share a stack and none is leaked, however   *)
(* often threads are created and end.                                      *)
THEOREM StacksCorrect == Spec => []StacksExact
<1>1. StackInv => StacksExact BY DEF StackInv
<1>2. QED BY <1>1, StackInit, StackNext, PTL DEF Spec

(* The context switch in PendSV_Handler and osThreadScheduler never leaves *)
(* a thread on the stack of another one.                                   *)
THEOREM RunsOnOwnStackCorrect == Spec => []RunsOnOwnStack
<1>1. StackInv => RunsOnOwnStack BY DEF StackInv
<1>2. QED BY <1>1, StackInit, StackNext, PTL DEF Spec

(***************************************************************************)
(* Conservation of semaphore tokens, for any number of threads, semaphores *)
(* and tokens, provided no interrupt calls osThreadNotify: a notification  *)
(* of the current thread cancels the switch its wait has requested, and    *)
(* TLC shows what comes of it.                                             *)
(***************************************************************************)

(* Outside the scheduler, with no switch pending, the current thread is    *)
(* runnable.  This is what ExecutingIsRunning says, together with the spin *)
(* of SVC_USLEEP, which returns to its caller without a switch.            *)
CurrentRuns ==
  (mode # "sched" /\ ~pend /\ current \notin exited) =>
    "Running" \in status[current]

Parked(t, s) ==
  "Semaphore" \in status[t] /\ "Running" \notin status[t] /\ s \in wsem[t]

(* A thread parked on a semaphore holds no token of it: were it otherwise, *)
(* the scheduler's grant would give it a second one.                       *)
WaiterHoldsNone ==
  \A t \in Thread, s \in Sem : Parked(t, s) => t \notin holders[s]

TokenInv == TypeOK /\ TokensConserved /\ WaiterHoldsNone /\ CurrentRuns

(* The holders of a token can be counted. *)
LEMMA HoldersFinite ==
  ASSUME SemTypeOK, NEW s \in Sem
  PROVE  /\ holders[s] \subseteq Thread /\ IsFiniteSet(holders[s])
         /\ Cardinality(holders[s]) \in Nat
         /\ sem[s] \in Int
<1>1. holders[s] \in SUBSET Thread /\ sem[s] \in Int BY DEF SemTypeOK
<1>2. IsFiniteSet(holders[s]) BY <1>1, ThreadAssumption, FS_Subset
<1>3. QED BY <1>1, <1>2, FS_CardinalityType

(* semaphore_enter by a thread that holds no token: the token it takes, if *)
(* there is one, is accounted to it.                                       *)
LEMMA EnterConserves ==
  ASSUME SemTypeOK, TokensConserved, NEW t \in Thread, NEW s \in Sem,
         t \notin holders[s], SemaphoreEnter(t, s)
  PROVE  /\ TokensConserved'
         /\ \A u \in Thread, r \in Sem :
              u \in holders'[r] => u \in holders[r] \/ (u = t /\ r = s)
<1>1. /\ holders[s] \subseteq Thread /\ IsFiniteSet(holders[s])
      /\ Cardinality(holders[s]) \in Nat /\ sem[s] \in Int
  BY HoldersFinite
<1>2. sem \in [Sem -> Int] /\ holders \in [Sem -> SUBSET Thread]
  BY DEF SemTypeOK
<1>3. \A r \in Sem \ {s} : sem'[r] = sem[r] /\ holders'[r] = holders[r]
  BY <1>2 DEF SemaphoreEnter
<1>4. sem[s] >= 0 /\ sem[s] + Cardinality(holders[s]) = Tokens[s]
  BY DEF TokensConserved
<1>5. CASE sem[s] = 0
  <2>1. sem'[s] = sem[s] /\ holders'[s] = holders[s]
    BY <1>2, <1>5 DEF SemaphoreEnter
  <2>2. QED BY <1>3, <2>1 DEF TokensConserved
<1>6. CASE sem[s] > 0
  <2>1. sem'[s] = sem[s] - 1 /\ holders'[s] = holders[s] \cup {t}
    BY <1>2, <1>6 DEF SemaphoreEnter
  <2>2. Cardinality(holders[s] \cup {t}) = Cardinality(holders[s]) + 1
    BY <1>1, FS_AddElement
  <2>3. sem'[s] >= 0 /\ sem'[s] + Cardinality(holders'[s]) = Tokens[s]
    BY <1>1, <1>4, <1>6, <2>1, <2>2
  <2>4. QED BY <1>3, <2>1, <2>3 DEF TokensConserved
<1>7. QED BY <1>1, <1>4, <1>5, <1>6

(* semaphore_leave: the token given back is no longer accounted to its holder. *)
LEMMA LeaveConserves ==
  ASSUME SemTypeOK, TokensConserved, NEW h \in Thread, NEW s \in Sem,
         SemaphoreLeave(s, h)
  PROVE  /\ TokensConserved'
         /\ \A u \in Thread, r \in Sem : u \in holders'[r] => u \in holders[r]
<1>1. /\ IsFiniteSet(holders[s]) /\ Cardinality(holders[s]) \in Nat
      /\ sem[s] \in Int
  BY HoldersFinite
<1>2. sem \in [Sem -> Int] /\ holders \in [Sem -> SUBSET Thread]
  BY DEF SemTypeOK
<1>3. \A r \in Sem \ {s} : sem'[r] = sem[r] /\ holders'[r] = holders[r]
  BY <1>2 DEF SemaphoreLeave
<1>4. sem'[s] = sem[s] + 1 /\ holders'[s] = holders[s] \ {h} /\ h \in holders[s]
  BY <1>2 DEF SemaphoreLeave
<1>5. Cardinality(holders[s] \ {h}) = Cardinality(holders[s]) - 1
  BY <1>1, <1>4, FS_RemoveElement
<1>6. sem'[s] >= 0 /\ sem'[s] + Cardinality(holders'[s]) = Tokens[s]
  BY <1>1, <1>4, <1>5 DEF TokensConserved
<1>7. QED BY <1>3, <1>4, <1>6 DEF TokensConserved

(* With no negative count, an unsuccessful semaphore_enter changes nothing.*)
LEMMA FailedEnterNothing ==
  ASSUME SemTypeOK, TokensConserved, NEW thr, FailedEnter(thr)
  PROVE  UNCHANGED semVars
<1>1. \A s \in Sem : sem[s] >= 0 /\ sem[s] \in Int
  BY DEF TokensConserved, SemTypeOK
<1>2. \A s \in Sem : ~(sem[s] < 0) BY <1>1
<1>3. sem' = [s \in Sem |-> sem[s]] BY <1>2 DEF FailedEnter
<1>4. QED BY <1>3 DEF FailedEnter, SemTypeOK, semVars

(* Tokens depend on the counts and holders only. *)
LEMMA SameTokens == TokensConserved /\ UNCHANGED semVars => TokensConserved'
BY DEF TokensConserved, semVars

(* Holders and event words that stay the same leave the waiters as they are.*)
LEMMA SameWaiters ==
  ASSUME WaiterHoldsNone, UNCHANGED eventVars,
         \A u \in Thread, r \in Sem : u \in holders'[r] => u \in holders[r]
  PROVE  WaiterHoldsNone'
BY DEF WaiterHoldsNone, Parked, eventVars

(* The caller of a thread action is runnable, hence parked on nothing. *)
LEMMA ExecRuns ==
  ASSUME TokenInv, NEW t \in Thread, Exec(t)
  PROVE  "Running" \in status[t]
BY DEF TokenInv, CurrentRuns, Exec

(* At start nobody holds a token and main runs. *)
LEMMA TokenInit == ASSUME Init PROVE TokenInv
<1>1. TypeOK BY InitType
<1>2. \A s \in Sem : holders[s] = {} /\ sem[s] = Tokens[s] /\ Tokens[s] \in Nat
  BY SemAssumption DEF Init
<1>3. Cardinality({}) = 0 BY FS_EmptySet
<1>4. TokensConserved BY <1>2, <1>3 DEF TokensConserved
<1>5. WaiterHoldsNone BY <1>2 DEF WaiterHoldsNone
<1>6. CurrentRuns BY ThreadAssumption DEF Init, CurrentRuns
<1>7. QED BY <1>1, <1>4, <1>5, <1>6 DEF TokenInv

(* The caller parks, on semaphores it holds no token of. *)
LEMMA WaitToken ==
  ASSUME TokenInv, TypeOK', NEW t \in Thread, NEW flags, NEW sems, NEW mask,
         NEW interval, SvcEventWait(t, flags, sems, mask, interval),
         \A s \in sems : t \notin holders[s]
  PROVE  TokenInv'
<1>1. TokensConserved' BY SameTokens DEF SvcEventWait, TokenInv
<1>2. CurrentRuns' BY DEF SvcEventWait, RequestSwitch, CurrentRuns
<1>3. ASSUME NEW u \in Thread, NEW s \in Sem, Parked(u, s)'
      PROVE  u \notin holders'[s]
  <2>1. /\ status \in [Thread -> SUBSET StatusFlag]
        /\ wsem \in [Thread -> SUBSET Sem] /\ holders' = holders
    BY DEF TokenInv, TypeOK, EventTypeOK, SvcEventWait, semVars
  <2>2. CASE u = t
    <3>1. wsem'[t] = sems BY <2>1 DEF SvcEventWait
    <3>2. QED BY <1>3, <2>1, <2>2, <3>1 DEF Parked
  <2>3. CASE u # t
    <3>1. status'[u] = status[u] /\ wsem'[u] = wsem[u]
      BY <2>1, <2>3 DEF SvcEventWait
    <3>2. QED BY <1>3, <2>1, <3>1 DEF Parked, TokenInv, WaiterHoldsNone
  <2>4. QED BY <2>2, <2>3
<1>4. WaiterHoldsNone' BY <1>3 DEF WaiterHoldsNone
<1>5. QED BY <1>1, <1>2, <1>4 DEF TokenInv

(* Every call of thread code keeps the invariant. *)
LEMMA ThreadStepToken == ASSUME TokenInv, TypeOK', ThreadStep PROVE TokenInv'
<1>0. /\ status \in [Thread -> SUBSET StatusFlag]
      /\ wsem \in [Thread -> SUBSET Sem]
  BY DEF TokenInv, TypeOK, EventTypeOK
<1>1. ASSUME NEW t \in Thread, NEW new \in Thread, ThrdCreate(t, new)
      PROVE  TokenInv'
  <2>1. "Running" \in status[t] /\ current = t /\ new # t
    BY <1>1, ExecRuns DEF ThrdCreate, Exec, Live
  <2>2. status'[new] = {"Running"} /\ \A u \in Thread \ {new} :
          status'[u] = status[u] /\ wsem'[u] = wsem[u]
    BY <1>0, <1>1 DEF ThrdCreate
  <2>3. UNCHANGED <<holders, cpuVars>> /\ exited' = exited \ {new}
    BY <1>1 DEF ThrdCreate, semVars
  <2>4. TokensConserved' BY <1>1, SameTokens DEF ThrdCreate, TokenInv
  <2>5. WaiterHoldsNone'
    BY <2>2, <2>3 DEF TokenInv, WaiterHoldsNone, Parked
  <2>6. CurrentRuns' BY <2>1, <2>2, <2>3 DEF cpuVars, CurrentRuns
  <2>7. QED BY <2>4, <2>5, <2>6 DEF TokenInv
<1>2. ASSUME NEW t \in Thread, SvcExit(t) \/ ThrdExit(t) PROVE TokenInv'
  <2>1. UNCHANGED <<holders, wsem, current, mode>> /\ t \in exited' /\ current = t
    BY <1>2 DEF SvcExit, ThrdExit, Exec, semVars, eventVars, cpuVars
  <2>2. \A u \in Thread : status'[u] = status[u] \/ status'[u] = {}
    BY <1>0, <1>2 DEF SvcExit, SvcKill, ThrdExit, eventVars
  <2>3. TokensConserved'
    BY <1>2, SameTokens DEF SvcExit, ThrdExit, TokenInv, semVars
  <2>4. WaiterHoldsNone'
    BY <2>1, <2>2 DEF TokenInv, WaiterHoldsNone, Parked
  <2>5. CurrentRuns' BY <2>1 DEF CurrentRuns
  <2>6. QED BY <2>3, <2>4, <2>5 DEF TokenInv
<1>3. ASSUME NEW t \in Thread, NEW s \in Sem, NEW ms \in Millisec,
             SemWait(t, s, ms)
      PROVE  TokenInv'
  BY <1>3, WaitToken DEF SemWait
<1>4. ASSUME NEW t \in Thread, NEW mask \in SUBSET Flag \ {{}},
             NEW o \in Options, NEW ms \in Millisec,
             FlagsWait(t, mask, o, ms)
      PROVE  TokenInv'
  BY <1>4, WaitToken DEF FlagsWait
<1>5. ASSUME NEW t \in Thread, NEW us \in Microsec, ThrdSleep(t, us)
      PROVE  TokenInv'
  BY <1>5, WaitToken DEF ThrdSleep
<1>6. ASSUME NEW t \in Thread, NEW us \in Microsec, Usleep(t, us)
      PROVE  TokenInv'
  <2>1. UNCHANGED <<semVars, wsem, current, exited>>
    BY <1>6 DEF Usleep, eventVars, histVars
  <2>2. "Running" \in status[t] /\ current = t
    BY <1>6, ExecRuns DEF Usleep, Exec
  <2>3. \A u \in Thread : status'[u] = status[u] \/ status'[u] = {"Timeout"}
    BY <1>0, <1>6 DEF Usleep, eventVars
  <2>4. WaiterHoldsNone'
    BY <2>1, <2>3 DEF TokenInv, WaiterHoldsNone, Parked, semVars
  <2>5. CurrentRuns'
    BY <1>6, <2>1, <2>2 DEF Usleep, RequestSwitch, eventVars, CurrentRuns
  <2>6. QED BY <2>1, <2>4, <2>5, SameTokens DEF TokenInv
<1>7. ASSUME NEW t \in Thread, ThrdYield(t) PROVE TokenInv'
  <2>1. WaiterHoldsNone'
    BY <1>7, SameWaiters DEF ThrdYield, TokenInv, semVars
  <2>2. CurrentRuns' BY <1>7 DEF ThrdYield, RequestSwitch, CurrentRuns
  <2>3. QED BY <1>7, <2>1, <2>2, SameTokens DEF TokenInv, ThrdYield
<1>8. ASSUME NEW t \in Thread, NEW u \in Thread, NEW p \in Priority,
             SetPriority(t, u, p)
      PROVE  TokenInv'
  <2>1. WaiterHoldsNone'
    BY <1>8, SameWaiters DEF SetPriority, TokenInv, semVars
  <2>2. CurrentRuns'
    BY <1>8
    DEF SetPriority, TokenInv, CurrentRuns, cpuVars, eventVars, histVars
  <2>3. QED BY <1>8, <2>1, <2>2, SameTokens DEF TokenInv, SetPriority
<1>9. ASSUME NEW t \in Thread, NEW s \in Sem, SemTry(t, s) PROVE TokenInv'
  <2>1. /\ TokensConserved'
        /\ \A u \in Thread, r \in Sem :
             u \in holders'[r] => u \in holders[r] \/ (u = t /\ r = s)
    BY <1>9, EnterConserves DEF SemTry, TokenInv, TypeOK
  <2>2. "Running" \in status[t] BY <1>9, ExecRuns DEF SemTry
  <2>3. WaiterHoldsNone'
    BY <1>9, <2>1, <2>2
    DEF SemTry, TokenInv, WaiterHoldsNone, Parked, eventVars
  <2>4. CurrentRuns'
    BY <1>9 DEF SemTry, TokenInv, CurrentRuns, cpuVars, eventVars, histVars
  <2>5. QED BY <2>1, <2>3, <2>4 DEF TokenInv
<1>10. QED
  BY <1>1, <1>2, <1>3, <1>4, <1>5, <1>6, <1>7, <1>8, <1>9 DEF ThreadStep

(* So does a turn of the scheduler. *)
LEMMA TurnToken == ASSUME TokenInv, TypeOK', Turn PROVE TokenInv'
<1> DEFINE thr == next[current]
<1>1. /\ status \in [Thread -> SUBSET StatusFlag] /\ thr \in Thread
      /\ current' = thr /\ mode = "sched" /\ SemTypeOK
      /\ wsem \in [Thread -> SUBSET Sem] /\ TokensConserved
  BY DEF TokenInv, TypeOK, EventTypeOK, TcbTypeOK, CpuTypeOK, Turn
<1>2. CASE TurnRunning(thr)
  <2>1. WaiterHoldsNone'
    BY <1>2, SameWaiters DEF TurnRunning, TokenInv, semVars
  <2>2. CurrentRuns' BY <1>1, <1>2 DEF TurnRunning, CurrentRuns, eventVars
  <2>3. QED BY <1>2, <2>1, <2>2, SameTokens DEF TurnRunning, TokenInv
<1>3. ASSUME UNCHANGED semVars, UNCHANGED wsem,
             NEW e, "Running" \in e, status' = [status EXCEPT ![thr] = e]
      PROVE  TokenInv'
  <2>1. "Running" \in status'[thr] /\
        \A u \in Thread \ {thr} : status'[u] = status[u]
    BY <1>1, <1>3
  <2>2. WaiterHoldsNone'
    BY <1>3, <2>1 DEF TokenInv, WaiterHoldsNone, Parked, semVars
  <2>3. CurrentRuns' BY <1>1, <2>1 DEF CurrentRuns
  <2>4. QED BY <1>3, <2>2, <2>3, SameTokens DEF TokenInv
<1>4. CASE TurnSignal(thr) BY <1>3, <1>4 DEF TurnSignal
<1>5. CASE TurnSemaphore(thr)
  <2>1. PICK s \in wsem[thr] : SemaphoreEnter(thr, s)
    BY <1>5 DEF TurnSemaphore
  <2>2. s \in Sem /\ thr \notin holders[s]
    BY <1>1, <1>5, <2>1
    DEF TurnSemaphore, TokenInv, WaiterHoldsNone, Parked
  <2>3. /\ TokensConserved'
        /\ \A u \in Thread, r \in Sem :
             u \in holders'[r] => u \in holders[r] \/ (u = thr /\ r = s)
    BY <1>1, <2>1, <2>2, EnterConserves
  <2>4. "Running" \in status'[thr] /\ \A u \in Thread \ {thr} :
          status'[u] = status[u] /\ wsem'[u] = wsem[u]
    BY <1>1, <1>5 DEF TurnSemaphore
  <2>5. WaiterHoldsNone'
    BY <2>3, <2>4 DEF TokenInv, WaiterHoldsNone, Parked
  <2>6. CurrentRuns' BY <1>1, <2>4 DEF CurrentRuns
  <2>7. QED BY <2>3, <2>5, <2>6 DEF TokenInv
<1>6. CASE TurnTimeout(thr)
  <2>1. UNCHANGED semVars BY <1>1, <1>6, FailedEnterNothing DEF TurnTimeout
  <2>2. QED BY <1>3, <1>6, <2>1 DEF TurnTimeout
<1>7. CASE TurnSkip(thr)
  <2>1. UNCHANGED semVars BY <1>1, <1>7, FailedEnterNothing DEF TurnSkip
  <2>2. mode' = "sched" BY <1>1, <1>7 DEF TurnSkip
  <2>3. WaiterHoldsNone'
    BY <1>7, <2>1, SameWaiters DEF TurnSkip, TokenInv, semVars
  <2>4. QED BY <1>1, <2>1, <2>2, <2>3, SameTokens DEF TokenInv, CurrentRuns
<1>8. QED BY <1>2, <1>4, <1>5, <1>6, <1>7 DEF Turn

(* So do interrupts, when none of them calls osThreadNotify. *)
LEMMA OtherToken ==
  ASSUME TokenInv, TypeOK', NotifyTargets = {},
         AnyContext \/ Interrupt \/ UsleepReturn \/ PendSV
  PROVE  TokenInv'
<1>1. ASSUME NEW s \in Sem, NEW h \in Thread, SemaphoreLeave(s, h)
      PROVE  TokenInv'
  <2>1. /\ TokensConserved'
        /\ \A u \in Thread, r \in Sem : u \in holders'[r] => u \in holders[r]
    BY <1>1, LeaveConserves DEF TokenInv, TypeOK
  <2>2. WaiterHoldsNone'
    BY <1>1, <2>1, SameWaiters DEF TokenInv, SemaphoreLeave
  <2>3. CurrentRuns'
    BY <1>1
    DEF SemaphoreLeave, TokenInv, CurrentRuns, cpuVars, eventVars, histVars
  <2>4. QED BY <2>1, <2>2, <2>3 DEF TokenInv
<1>2. ASSUME UNCHANGED <<semVars, eventVars, exited>>,
             CurrentRuns'
      PROVE  TokenInv'
  <2>1. WaiterHoldsNone' BY <1>2, SameWaiters DEF TokenInv, semVars
  <2>2. QED BY <1>2, <2>1, SameTokens DEF TokenInv
<1>3. ASSUME NEW u \in Thread, NEW f \in Flag,
             SignalSet(u, f) \/ SignalClear(u, f)
      PROVE  TokenInv'
  BY <1>2, <1>3
  DEF SignalSet, SignalClear, TokenInv, CurrentRuns, cpuVars, eventVars,
      histVars
<1>4. CASE SysTick
  <2>1. UNCHANGED <<current, mode, exited, status>> /\ (pend => pend')
    BY <1>4 DEF SysTick, TokenInv, TypeOK, CpuTypeOK, eventVars, histVars
  <2>2. CurrentRuns' BY <2>1 DEF TokenInv, CurrentRuns
  <2>3. QED BY <1>2, <1>4, <2>2 DEF SysTick, histVars
<1>5. CASE UsleepReturn
  BY <1>2, <1>5 DEF UsleepReturn, TokenInv, CurrentRuns, eventVars, histVars
<1>6. CASE PendSV
  BY <1>2, <1>6 DEF PendSV, TokenInv, CurrentRuns, eventVars, histVars
<1>7. QED
  BY <1>1, <1>3, <1>4, <1>5, <1>6 DEF AnyContext, Interrupt

(* Every step keeps the invariant. *)
LEMMA TokenNext ==
  ASSUME NotifyTargets = {}
  PROVE  TokenInv /\ [Next]_vars => TokenInv'
<1> SUFFICES ASSUME TokenInv, [Next]_vars PROVE TokenInv'
  OBVIOUS
<1>1. TypeOK' BY NextType DEF TokenInv
<1>2. CASE UNCHANGED vars
  <2>1. WaiterHoldsNone' BY <1>2, SameWaiters DEF vars, TokenInv, semVars
  <2>2. CurrentRuns'
    BY <1>2 DEF vars, TokenInv, CurrentRuns, cpuVars, eventVars, histVars
  <2>3. QED BY <1>1, <1>2, <2>1, <2>2, SameTokens DEF vars, TokenInv
<1>3. QED
  BY <1>1, <1>2, ThreadStepToken, TurnToken, OtherToken DEF Next

(* No interleaving of fast paths, grants by the scheduler, timeouts and    *)
(* releases loses or duplicates a token of any semaphore.                  *)
THEOREM TokensCorrect ==
  ASSUME NotifyTargets = {}
  PROVE  Spec => []TokensConserved
<1>1. TokenInv => TokensConserved BY DEF TokenInv
<1>2. TokenInv /\ [Next]_vars => TokenInv' BY TokenNext
<1>3. QED BY <1>1, <1>2, TokenInit, PTL DEF Spec

(* A thread that was parked does not execute before it is made runnable.   *)
THEOREM ExecutingCorrect ==
  ASSUME NotifyTargets = {}
  PROVE  Spec => []ExecutingIsRunning
<1>1. TokenInv => ExecutingIsRunning
  BY DEF TokenInv, CurrentRuns, ExecutingIsRunning, Exec
<1>2. TokenInv /\ [Next]_vars => TokenInv' BY TokenNext
<1>3. QED BY <1>1, <1>2, TokenInit, PTL DEF Spec

(* Thread code changes the event word of no live thread but the one that   *)
(* executes, and makes it runnable only if an option says so.              *)
LEMMA ThreadStepStatus ==
  ASSUME TypeOK, ThreadStep, NEW u \in Live
  PROVE  \/ status'[u] = status[u]
         \/ /\ Exec(u)
            /\ Options \subseteq {osFlagsWaitAny} => "Running" \notin status'[u]
<1> DEFINE Parks(t) == Options \subseteq {osFlagsWaitAny} => "Running" \notin status'[t]
<1>1. status \in [Thread -> SUBSET StatusFlag] /\ u \in Thread
  BY DEF TypeOK, EventTypeOK, Live
<1>2. ASSUME NEW t \in Thread, NEW new \in Thread, ThrdCreate(t, new)
      PROVE  status'[u] = status[u]
  BY <1>1, <1>2 DEF ThrdCreate
<1>3. ASSUME NEW t \in Thread, SvcExit(t) \/ ThrdExit(t)
      PROVE  status'[u] = status[u] \/ (Exec(u) /\ Parks(u))
  BY <1>1, <1>3 DEF SvcExit, ThrdExit, SvcKill, eventVars
<1>4. ASSUME NEW t \in Thread, NEW flags, NEW sems, NEW mask, NEW interval,
             Exec(t), SvcEventWait(t, flags, sems, mask, interval),
             Options \subseteq {osFlagsWaitAny} => "Running" \notin flags
      PROVE  status'[u] = status[u] \/ (Exec(u) /\ Parks(u))
  <2>1. \E e \in {flags, flags \cup {"Timeout"}} : status' = [status EXCEPT ![t] = e]
    BY <1>4 DEF SvcEventWait
  <2>2. CASE u = t  BY <1>1, <1>4, <2>1, <2>2
  <2>3. CASE u # t  BY <1>1, <2>1, <2>3
  <2>4. QED BY <2>2, <2>3
<1>5. ASSUME NEW t \in Thread, NEW s \in Sem, NEW ms \in Millisec, SemWait(t, s, ms)
      PROVE  status'[u] = status[u] \/ (Exec(u) /\ Parks(u))
  <2>1. "Running" \notin {"Semaphore"} OBVIOUS
  <2>2. QED BY <1>4, <1>5, <2>1 DEF SemWait
<1>6. ASSUME NEW t \in Thread, NEW mask \in SUBSET Flag \ {{}},
             NEW o \in Options, NEW ms \in Millisec, FlagsWait(t, mask, o, ms)
      PROVE  status'[u] = status[u] \/ (Exec(u) /\ Parks(u))
  <2>1. Options \subseteq {osFlagsWaitAny} => "Running" \notin {"Signal"} \cup o
    BY DEF osFlagsWaitAny
  <2>2. QED BY <1>4, <1>6, <2>1 DEF FlagsWait
<1>7. ASSUME NEW t \in Thread, NEW us \in Microsec, ThrdSleep(t, us)
      PROVE  status'[u] = status[u] \/ (Exec(u) /\ Parks(u))
  <2>1. "Running" \notin {} OBVIOUS
  <2>2. QED BY <1>4, <1>7, <2>1 DEF ThrdSleep
<1>8. ASSUME NEW t \in Thread, NEW us \in Microsec, Usleep(t, us)
      PROVE  status'[u] = status[u] \/ (Exec(u) /\ Parks(u))
  <2>1. Exec(t) /\ (status' = status \/ status' = [status EXCEPT ![t] = {"Timeout"}])
    BY <1>8 DEF Usleep, eventVars
  <2>2. QED BY <1>1, <2>1
<1>9. ASSUME NEW t \in Thread,
             \/ ThrdYield(t)
             \/ \E v \in Thread, p \in Priority : SetPriority(t, v, p)
             \/ \E s \in Sem : SemTry(t, s)
      PROVE  status'[u] = status[u]
  BY <1>9 DEF ThrdYield, SetPriority, SemTry, eventVars
<1>10. QED
  BY <1>2, <1>3, <1>5, <1>6, <1>7, <1>8, <1>9 DEF ThreadStep

(* Interrupts, flags set and cleared, releases and the entry of PendSV     *)
(* leave the event words alone.                                            *)
LEMMA OtherStatus ==
  ASSUME AnyContext \/ Interrupt \/ UsleepReturn \/ PendSV \/ UNCHANGED vars
  PROVE  status' = status
BY DEF AnyContext, SemaphoreLeave, SignalSet, SignalClear, Interrupt, Notify,
  SysTick, UsleepReturn, PendSV, vars, eventVars

(* A turn of the scheduler makes a thread runnable only by what it waits   *)
(* for, and with a token only if it grants one.                            *)
LEMMA TurnWakes ==
  ASSUME TokenInv, Turn, NEW u \in Live,
         "Running" \notin status[u], "Running" \in status'[u]
  PROVE  \/ /\ "Semaphore" \in status[u] \cap status'[u]
            /\ \E s \in wsem[u] : u \in holders'[s] \ holders[s]
         \/ /\ "Signal" \in status[u] \cap status'[u]
            /\ signals[u] \cap wflags[u] # {}
         \/ /\ "Timeout" \in status[u] \cap status'[u]
            /\ Elapsed(timestamp[u]) >= timeout[u]
            /\ holders' = holders
<1> DEFINE thr == next[current]
<1>1. /\ status \in [Thread -> SUBSET StatusFlag] /\ thr \in Thread /\ u \in Thread
      /\ holders \in [Sem -> SUBSET Thread] /\ wsem \in [Thread -> SUBSET Sem]
  BY DEF TokenInv, TypeOK, EventTypeOK, SemTypeOK, TcbTypeOK, CpuTypeOK, Live
<1>2. CASE TurnRunning(thr) \/ TurnSkip(thr)
  BY <1>2 DEF TurnRunning, TurnSkip, eventVars
<1>3. CASE TurnSignal(thr)
  <2>1. u = thr BY <1>1, <1>3 DEF TurnSignal
  <2>2. QED BY <1>1, <1>3, <2>1 DEF TurnSignal, SignalArrived
<1>4. CASE TurnSemaphore(thr)
  <2>1. u = thr BY <1>1, <1>4 DEF TurnSemaphore
  <2>2. PICK s \in wsem[u] : sem[s] > 0 /\ SemaphoreEnter(u, s)
    BY <1>4, <2>1 DEF TurnSemaphore
  <2>3. s \in Sem /\ u \notin holders[s] /\ "Semaphore" \in status[u]
    BY <1>1, <1>4, <2>1, <2>2
    DEF TurnSemaphore, TokenInv, WaiterHoldsNone, Parked
  <2>4. u \in holders'[s] BY <1>1, <2>2, <2>3 DEF SemaphoreEnter
  <2>5. "Semaphore" \in status'[u] BY <1>1, <1>4, <2>1 DEF TurnSemaphore
  <2>6. QED BY <2>2, <2>3, <2>4, <2>5
<1>5. CASE TurnTimeout(thr)
  <2>1. u = thr BY <1>1, <1>5 DEF TurnTimeout
  <2>2. QED BY <1>1, <1>5, <2>1 DEF TurnTimeout, Expired, FailedEnter
<1>6. QED BY <1>2, <1>3, <1>4, <1>5 DEF Turn

(* A parked thread becomes runnable only with a token it did not hold, a   *)
(* flag that is set, or an expired timeout that takes no token.            *)
THEOREM WokenCorrect ==
  ASSUME NotifyTargets = {}
  PROVE  Spec => WokenForAReason
<1>1. ASSUME TokenInv, [Next]_vars, NEW u \in Live,
             "Running" \notin status[u], "Running" \in status'[u]
      PROVE  Turn
  <2>1. ~ThreadStep
    BY <1>1, ThreadStepStatus, ExecRuns DEF TokenInv, Live
  <2>2. QED BY <1>1, <2>1, OtherStatus DEF Next
<1>2. TokenInv /\ [Next]_vars =>
        [\A t \in Live :
           ("Running" \notin status[t] /\ "Running" \in status'[t]) =>
             \/ /\ "Semaphore" \in status[t] \cap status'[t]
                /\ \E s \in wsem[t] : t \in holders'[s] \ holders[s]
             \/ /\ "Signal" \in status[t] \cap status'[t]
                /\ signals[t] \cap wflags[t] # {}
             \/ /\ "Timeout" \in status[t] \cap status'[t]
                /\ Elapsed(timestamp[t]) >= timeout[t]
                /\ holders' = holders]_vars
  BY <1>1, TurnWakes
<1>3. TokenInv /\ [Next]_vars => TokenInv' BY TokenNext
<1>4. QED BY <1>2, <1>3, TokenInit, PTL DEF Spec, WokenForAReason

(* What a wait for flags reports on success are flags that were set, if no *)
(* wait has the option osFlagsWaitAll, whose bit is that of osEventRunning.*)
THEOREM FlagsReportedCorrect ==
  ASSUME Options \subseteq {osFlagsWaitAny}
  PROVE  Spec => FlagsReported
<1> DEFINE Reported(t) == wflags'[t] # {} /\ wflags'[t] \subseteq signals[t]
<1>1. ASSUME TypeOK, Turn, NEW u \in Live, status'[u] # status[u],
             {"Signal", "Running"} \subseteq status'[u]
      PROVE  Reported(u)
  <2> DEFINE thr == next[current]
  <2>1. /\ status \in [Thread -> SUBSET StatusFlag] /\ u \in Thread
        /\ wflags \in [Thread -> SUBSET Flag] /\ thr \in Thread
    BY <1>1 DEF TypeOK, EventTypeOK, TcbTypeOK, CpuTypeOK, Live
  <2>2. CASE TurnRunning(thr) \/ TurnSkip(thr)
    BY <1>1, <2>2 DEF TurnRunning, TurnSkip, eventVars
  <2>3. CASE TurnSignal(thr)
    <3>1. u = thr BY <1>1, <2>1, <2>3 DEF TurnSignal
    <3>2. QED BY <2>1, <2>3, <3>1 DEF TurnSignal, SignalArrived
  <2>4. CASE TurnSemaphore(thr) \/ TurnTimeout(thr)
    <3>1. \E e \in {{"Semaphore", "Running"}, {"Timeout", "Running"}} :
            status' = [status EXCEPT ![thr] = e]
      BY <2>4 DEF TurnSemaphore, TurnTimeout
    <3>2. status'[u] \in {status[u], {"Semaphore", "Running"}, {"Timeout", "Running"}}
      BY <2>1, <3>1
    <3>3. QED BY <1>1, <3>2
  <2>5. QED BY <1>1, <2>2, <2>3, <2>4 DEF Turn
<1>2. TypeOK /\ [Next]_vars =>
        [\A t \in Live :
           (status'[t] # status[t] /\ {"Signal", "Running"} \subseteq status'[t])
             => wflags'[t] # {} /\ wflags'[t] \subseteq signals[t]]_vars
  <2> SUFFICES ASSUME TypeOK, [Next]_vars, NEW t \in Live, status'[t] # status[t],
                      {"Signal", "Running"} \subseteq status'[t]
               PROVE  Reported(t)
    OBVIOUS
  <2>1. ~ThreadStep BY ThreadStepStatus
  <2>2. Turn BY <2>1, OtherStatus DEF Next
  <2>3. QED BY <1>1, <2>2
<1>3. Spec => []TypeOK BY TypeCorrect
<1>4. QED BY <1>2, <1>3, PTL DEF Spec, FlagsReported

(***************************************************************************)
(* The kernel implements EventWait, for any number of threads, semaphores  *)
(* and stacks, provided no interrupt calls osThreadNotify.                 *)
(***************************************************************************)

AbstractStep == E!EventWaitNext \/ UNCHANGED E!eventWaitVars

(* What the event words and the counts are functions to. *)
LEMMA FunctionTypes ==
  ASSUME TypeOK
  PROVE  /\ status \in [Thread -> SUBSET StatusFlag]
         /\ wsem \in [Thread -> SUBSET Sem]
         /\ sem \in [Sem -> Int]
         /\ holders \in [Sem -> SUBSET Thread]
BY DEF TypeOK, EventTypeOK, SemTypeOK

(* An action that touches no event word and no count is a stutter. *)
LEMMA Stutter ==
  ASSUME UNCHANGED <<status, wsem, sem, holders>>
  PROVE  AbstractStep
BY DEF AbstractStep, E!eventWaitVars

(* A caller that stores a new event word performs a Wait of EventWait. *)
LEMMA WaitStep ==
  ASSUME TokenInv, NEW t \in Thread, Exec(t), NEW flags \in SUBSET StatusFlag,
         flags # {}, NEW sems \in SUBSET Sem,
         "Semaphore" \in flags => \A s \in sems : t \notin holders[s],
         status' = [status EXCEPT ![t] = flags],
         wsem' = [wsem EXCEPT ![t] = sems],
         UNCHANGED <<sem, holders>>
  PROVE  AbstractStep
<1>1. E!Runnable(t) BY ExecRuns DEF E!Runnable
<1>2. E!Wait(t, flags, sems) BY <1>1 DEF E!Wait
<1>3. flags \in SUBSET E!Flags BY DEF StatusFlag, E!Flags
<1>4. QED BY <1>2, <1>3 DEF AbstractStep, E!EventWaitNext

(* svc_handler_event_wait is a Wait of the abstract specification. *)
LEMMA SvcWaitStep ==
  ASSUME TokenInv, NEW t \in Thread, Exec(t), NEW flags \in SUBSET StatusFlag,
         NEW sems \in SUBSET Sem, NEW mask, NEW interval,
         flags # {} \/ interval # osWaitForever,
         \A s \in sems : t \notin holders[s],
         SvcEventWait(t, flags, sems, mask, interval)
  PROVE  AbstractStep
<1>1. /\ wsem' = [wsem EXCEPT ![t] = sems]
      /\ UNCHANGED <<sem, holders>>
  BY DEF SvcEventWait, semVars
<1>2. CASE interval # osWaitForever
  <2>1. status' = [status EXCEPT ![t] = flags \cup {"Timeout"}]
    BY <1>2 DEF SvcEventWait
  <2>2. flags \cup {"Timeout"} \in SUBSET StatusFlag BY DEF StatusFlag
  <2>3. flags \cup {"Timeout"} # {} OBVIOUS
  <2>4. QED BY <1>1, <2>1, <2>2, <2>3, WaitStep
<1>3. CASE interval = osWaitForever
  <2>1. status' = [status EXCEPT ![t] = flags] BY <1>3 DEF SvcEventWait
  <2>2. QED BY <1>1, <1>3, <2>1, WaitStep
<1>4. QED BY <1>2, <1>3

(* What thread code does is a step of EventWait or a stutter. *)
LEMMA ThreadStepImplements ==
  ASSUME TokenInv, ThreadStep
  PROVE  AbstractStep
<1>0. TypeOK BY DEF TokenInv
<1>1. ASSUME NEW t \in Thread, NEW new \in Thread, ThrdCreate(t, new)
      PROVE  AbstractStep
  <2>1. E!Create(new)
    BY <1>1 DEF ThrdCreate, Live, semVars, E!Create
  <2>2. QED BY <2>1 DEF AbstractStep, E!EventWaitNext
<1>2. ASSUME NEW t \in Thread, SvcExit(t) \/ ThrdExit(t) PROVE AbstractStep
  <2>1. CASE SvcExit(t)
    <3>1. E!Complete(t)
      BY <2>1, ExecRuns DEF SvcExit, SvcKill, semVars, E!Complete, E!Runnable
    <3>2. QED BY <3>1 DEF AbstractStep, E!EventWaitNext
  <2>2. CASE ThrdExit(t)
    BY <2>2, Stutter DEF ThrdExit, semVars, eventVars
  <2>3. QED BY <1>2, <2>1, <2>2
<1>3. ASSUME NEW t \in Thread, NEW s \in Sem, NEW ms \in Millisec,
             SemWait(t, s, ms)
      PROVE  AbstractStep
  <2>1. {"Semaphore"} \in SUBSET StatusFlag BY DEF StatusFlag
  <2>2. {"Semaphore"} # {} OBVIOUS
  <2>3. QED BY <1>3, <2>1, <2>2, SvcWaitStep DEF SemWait
<1>4. ASSUME NEW t \in Thread, NEW mask \in SUBSET Flag \ {{}},
             NEW o \in Options, NEW ms \in Millisec,
             FlagsWait(t, mask, o, ms)
      PROVE  AbstractStep
  <2>1. {"Signal"} \cup o \in SUBSET StatusFlag
    BY InputAssumption DEF osFlagsWaitAny, osFlagsWaitAll, StatusFlag
  <2>2. {"Signal"} \cup o # {} OBVIOUS
  <2>3. QED BY <1>4, <2>1, <2>2, SvcWaitStep DEF FlagsWait
<1>5. ASSUME NEW t \in Thread, NEW us \in Microsec, ThrdSleep(t, us)
      PROVE  AbstractStep
  BY <1>5, SvcWaitStep DEF ThrdSleep
<1>6. ASSUME NEW t \in Thread, NEW us \in Microsec, Usleep(t, us)
      PROVE  AbstractStep
  <2>1. CASE us < ShortSleep
    BY <1>6, <2>1, Stutter DEF Usleep, eventVars, semVars
  <2>2. CASE ~(us < ShortSleep)
    <3>1. /\ Exec(t) /\ status' = [status EXCEPT ![t] = {"Timeout"}]
          /\ UNCHANGED <<wsem, sem, holders>>
      BY <1>6, <2>2 DEF Usleep, semVars
    <3>2. wsem' = [wsem EXCEPT ![t] = wsem[t]] /\ wsem[t] \in SUBSET Sem
      BY <1>0, <3>1, FunctionTypes
    <3>3. {"Timeout"} \in SUBSET StatusFlag /\ {"Timeout"} # {}
      BY DEF StatusFlag
    <3>4. "Semaphore" \notin {"Timeout"} OBVIOUS
    <3>5. QED BY <3>1, <3>2, <3>3, <3>4, WaitStep
  <2>3. QED BY <2>1, <2>2
<1>7. ASSUME NEW t \in Thread,
             \/ ThrdYield(t)
             \/ \E u \in Thread, p \in Priority : SetPriority(t, u, p)
      PROVE  AbstractStep
  BY <1>7, Stutter DEF ThrdYield, SetPriority, eventVars, semVars
<1>8. ASSUME NEW t \in Thread, NEW s \in Sem, SemTry(t, s) PROVE AbstractStep
  <2>1. /\ UNCHANGED <<status, wsem>> /\ t \notin holders[s]
        /\ "Running" \in status[t]
    BY <1>8, ExecRuns DEF SemTry, eventVars
  <2>2. sem[s] >= 0 /\ sem[s] \in Int
    BY <1>0, FunctionTypes DEF TokenInv, TokensConserved
  <2>3. CASE sem[s] = 0
    <3>1. /\ sem' = [sem EXCEPT ![s] = sem[s]]
          /\ holders' = [holders EXCEPT ![s] = holders[s]]
      BY <1>8, <2>3 DEF SemTry, SemaphoreEnter
    <3>2. sem' = sem /\ holders' = holders BY <1>0, <3>1, FunctionTypes
    <3>3. QED BY <2>1, <3>2, Stutter
  <2>4. CASE sem[s] > 0
    <3>1. /\ sem' = [sem EXCEPT ![s] = @ - 1]
          /\ holders' = [holders EXCEPT ![s] = @ \cup {t}]
      <4>1. sem[s] # 0 BY <2>2, <2>4
      <4>2. QED BY <1>8, <2>4, <4>1 DEF SemTry, SemaphoreEnter
    <3>2. E!Try(t, s)
      BY <2>1, <2>4, <3>1 DEF E!Try, E!Take, E!Runnable
    <3>3. QED BY <3>2 DEF AbstractStep, E!EventWaitNext
  <2>5. QED BY <2>2, <2>3, <2>4
<1>9. QED
  BY <1>1, <1>2, <1>3, <1>4, <1>5, <1>6, <1>7, <1>8 DEF ThreadStep

(* So is a turn of the scheduler: a grant, a timeout, a wakeup or nothing. *)
LEMMA TurnImplements == ASSUME TokenInv, Turn PROVE AbstractStep
<1> DEFINE thr == next[current]
<1>1. /\ thr \in Thread /\ SemTypeOK /\ TokensConserved
      /\ wsem \in [Thread -> SUBSET Sem]
  BY DEF TokenInv, TypeOK, EventTypeOK, TcbTypeOK, CpuTypeOK
<1>2. CASE TurnRunning(thr)
  BY <1>2, Stutter DEF TurnRunning, eventVars, semVars
<1>3. CASE TurnSignal(thr)
  <2>1. E!Signalled(thr)
    BY <1>3 DEF TurnSignal, semVars, E!Signalled, E!Wake, E!Runnable
  <2>2. QED BY <1>1, <2>1 DEF AbstractStep, E!EventWaitNext
<1>4. CASE TurnSemaphore(thr)
  <2>1. PICK s \in wsem[thr] : sem[s] > 0 /\ SemaphoreEnter(thr, s)
    BY <1>4 DEF TurnSemaphore
  <2>2. /\ "Running" \notin status[thr] /\ "Semaphore" \in status[thr]
        /\ status' = [status EXCEPT ![thr] = {"Semaphore", "Running"}]
        /\ wsem' = [wsem EXCEPT ![thr] = {}]
    BY <1>4 DEF TurnSemaphore
  <2>3. s \in Sem /\ thr \notin holders[s]
    BY <1>1, <2>1, <2>2 DEF TokenInv, WaiterHoldsNone, Parked
  <2>4. sem[s] \in Int BY <1>1, <2>3 DEF SemTypeOK
  <2>5. /\ sem' = [sem EXCEPT ![s] = @ - 1]
        /\ holders' = [holders EXCEPT ![s] = @ \cup {thr}]
    <3>1. sem[s] # 0 /\ sem[s] > 0 BY <2>1, <2>4
    <3>2. QED BY <2>1, <3>1 DEF SemaphoreEnter
  <2>6. E!Grant(thr, s)
    BY <2>1, <2>2, <2>3, <2>5 DEF E!Grant, E!Wake, E!Take, E!Runnable
  <2>7. QED BY <1>1, <2>3, <2>6 DEF AbstractStep, E!EventWaitNext
<1>5. CASE TurnTimeout(thr)
  <2>1. UNCHANGED semVars BY <1>1, <1>5, FailedEnterNothing DEF TurnTimeout
  <2>2. E!TimedOut(thr)
    BY <1>5, <2>1
    DEF TurnTimeout, NotGranted, Expired, semVars, E!TimedOut, E!Wake,
        E!Runnable
  <2>3. QED BY <1>1, <2>2 DEF AbstractStep, E!EventWaitNext
<1>6. CASE TurnSkip(thr)
  <2>1. UNCHANGED semVars BY <1>1, <1>6, FailedEnterNothing DEF TurnSkip
  <2>2. QED BY <1>6, <2>1, Stutter DEF TurnSkip, eventVars, semVars
<1>7. QED BY <1>2, <1>3, <1>4, <1>5, <1>6 DEF Turn

(* So is every other step. *)
LEMMA NextImplements == ASSUME TokenInv, [Next]_vars PROVE AbstractStep
<1>1. ASSUME NEW s \in Sem, NEW h \in Thread, SemaphoreLeave(s, h)
      PROVE  AbstractStep
  <2>1. E!Leave(h, s) BY <1>1 DEF SemaphoreLeave, eventVars, E!Leave
  <2>2. QED BY <2>1 DEF AbstractStep, E!EventWaitNext
<1>2. CASE \/ \E u \in Thread, f \in Flag : SignalSet(u, f) \/ SignalClear(u, f)
           \/ Interrupt
           \/ UsleepReturn
           \/ PendSV
           \/ UNCHANGED vars
  BY <1>2, Stutter
  DEF SignalSet, SignalClear, Interrupt, Notify, SysTick, UsleepReturn, PendSV,
      vars, eventVars, semVars
<1>3. QED
  BY <1>1, <1>2, ThreadStepImplements, TurnImplements DEF Next, AnyContext

(* Whatever the ring, the stacks, the clock and the interrupts do, what a  *)
(* primitive sees of its waits is a behaviour of EventWait: no grant, no   *)
(* timeout and no signal is invented, lost or given twice.                 *)
THEOREM KernelImplementsEventWait ==
  ASSUME NotifyTargets = {}
  PROVE  Spec => ImplementsEventWait
<1>1. Init => E!EventWaitInit BY DEF Init, E!EventWaitInit
<1>2. TokenInv /\ [Next]_vars => TokenInv' BY TokenNext
<1>3. TokenInv /\ [Next]_vars => [E!EventWaitNext]_E!eventWaitVars
  BY NextImplements DEF AbstractStep
<1>4. QED
  BY <1>1, <1>2, <1>3, TokenInit, PTL DEF Spec, ImplementsEventWait,
     E!EventWaitSpec
=============================================================================
