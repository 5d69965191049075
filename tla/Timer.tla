-------------------------------- MODULE Timer -------------------------------
(***************************************************************************)
(* The CMSIS timers of timer.c: osTimerStart pushes a timer onto a list,   *)
(* the first one pointing to itself, and SysTick looks at one timer a      *)
(* tick, where the cursor timer_next stands.  A start is several accesses  *)
(* that SysTick, and the starts of other timers, come in between.  Time is *)
(* a word that wraps; the history counts it without.                       *)
(*                                                                         *)
(* Callbacks only count.  osTimerStop of a timer that is not in the list   *)
(* never returns and is not made here, nor is a start of a linked timer    *)
(* that is the first of the list: it would cut the others off.             *)
(***************************************************************************)
EXTENDS Integers, FiniteSets

CONSTANTS
  Timer,
  Interval,   \* the intervals a timer may be started with, in ticks
  Width,      \* the values of a word of time
  NULL

ASSUME TimerAssumption ==
  /\ Width \in Nat \ {0} /\ Interval \subseteq 0 .. (Width - 1)
  /\ NULL \notin Timer

VARIABLES
  next, timestamp, interval,  \* fields of a timer
  notify,       \* sigev_notify: osTimerOnce, osTimerPeriodic or -1
  timer_first, timer_next,
  start,        \* where the osTimerStart of a timer is
  seen,         \* the head it has loaded
  since, fired  \* history: ticks when stamped, callbacks since

startVars == <<start, seen>>
timerVars == <<next, timestamp, interval, notify, timer_first, timer_next,
               startVars, since, fired>>

osTimerOnce == 0
osTimerPeriodic == 1

(* After osTimerCreate of every timer. *)
TimerInit ==
  /\ next = [t \in Timer |-> NULL]
  /\ timestamp = [t \in Timer |-> 0]
  /\ interval = [t \in Timer |-> 0]
  /\ notify \in [Timer -> {osTimerOnce, osTimerPeriodic}]
  /\ timer_first = NULL /\ timer_next = NULL
  /\ start = [t \in Timer |-> "idle"]
  /\ seen = [t \in Timer |-> NULL]
  /\ since = [t \in Timer |-> 0]
  /\ fired = [t \in Timer |-> 0]

(* osTimerStart: the interval ... *)
StartInterval(t, i) ==
  /\ start[t] = "idle" /\ timer_first # t
  /\ interval' = [interval EXCEPT ![t] = i]
  /\ start' = [start EXCEPT ![t] = "stamp"]
  /\ UNCHANGED <<next, timestamp, notify, timer_first, timer_next, seen,
                 since, fired>>

(* ... the timestamp ... *)
StartStamp(t, clock) ==
  /\ start[t] = "stamp"
  /\ timestamp' = [timestamp EXCEPT ![t] = clock % Width]
  /\ since' = [since EXCEPT ![t] = clock]
  /\ fired' = [fired EXCEPT ![t] = 0]
  /\ start' = [start EXCEPT ![t] = "load"]
  /\ UNCHANGED <<next, interval, notify, timer_first, timer_next, seen>>

(* ... the link to the head, or to itself ... *)
StartLoad(t) ==
  /\ start[t] = "load"
  /\ seen' = [seen EXCEPT ![t] = timer_first]
  /\ next' = [next EXCEPT ![t] = IF timer_first = NULL THEN t ELSE timer_first]
  /\ start' = [start EXCEPT ![t] = "link"]
  /\ UNCHANGED <<timestamp, interval, notify, timer_first, timer_next,
                 since, fired>>

(* ... and the compare-and-exchange of the head. *)
StartLink(t) ==
  /\ start[t] = "link"
  /\ IF timer_first = seen[t]
     THEN timer_first' = t /\ start' = [start EXCEPT ![t] = "idle"]
     ELSE UNCHANGED timer_first /\ start' = [start EXCEPT ![t] = "load"]
  /\ seen' = [seen EXCEPT ![t] = NULL]
  /\ UNCHANGED <<next, timestamp, interval, notify, timer_next, since, fired>>

(* The list as osTimerStop walks it. *)
Reached ==
  LET After[n \in 0 .. Cardinality(Timer)] ==
        IF n = 0 THEN {timer_first} \ {NULL}
        ELSE After[n - 1] \cup {next[t] : t \in After[n - 1]}
  IN After[Cardinality(Timer)]

(* osTimerStop of a timer it finds. *)
Stop(t) ==
  /\ start[t] = "idle" /\ t \in Reached
  /\ notify' = [notify EXCEPT ![t] = -1]
  /\ UNCHANGED <<next, timestamp, interval, timer_first, timer_next,
                 startVars, since, fired>>

SlipElapsed(t, clock) == clock % Width >= timestamp[t] + interval[t]
Elapsed(t, clock) == (clock - timestamp[t]) % Width >= interval[t]

(* osTimerWork for the tick that makes it clock. *)
TimerWork(clock) ==
  IF timer_next = NULL
  THEN /\ timer_next' = timer_first
       /\ UNCHANGED <<next, timestamp, interval, notify, timer_first,
                      startVars, since, fired>>
  ELSE LET t == timer_next IN
       /\ IF Elapsed(t, clock) /\ notify[t] >= 0
          THEN /\ fired' = [fired EXCEPT ![t] = @ + 1]
               /\ timestamp' = [timestamp EXCEPT ![t] =
                                  (@ + interval[t]) % Width]
               /\ notify' = IF notify[t] = osTimerOnce
                            THEN [notify EXCEPT ![t] = -1] ELSE notify
          ELSE UNCHANGED <<fired, timestamp, notify>>
       /\ timer_next' = next[t]
       /\ UNCHANGED <<next, interval, timer_first, startVars, since>>

TimerCalls(clock) ==
  \E t \in Timer :
    \/ \E i \in Interval : StartInterval(t, i)
    \/ StartStamp(t, clock) \/ StartLoad(t) \/ StartLink(t) \/ Stop(t)

-----------------------------------------------------------------------------
(* The instant a timer is to fire next, in time that does not wrap. *)
Due(t) == since[t] + (fired[t] + 1) * interval[t]

(* What a tick at time clock promises: of the timers not being started, it *)
(* fires the enabled one under the cursor when its instant is reached, and *)
(* no other.  The instants are those of the start, late callbacks do not   *)
(* move them, and the word of time may wrap; only a timer that is late by  *)
(* a whole word may be held for one that is not due.                       *)
FiresOnTime(clock) ==
  \A t \in Timer :
    start[t] = "idle" =>
      /\ fired'[t] # fired[t] =>
           timer_next = t /\ notify[t] >= 0 /\ Due(t) <= clock
      /\ timer_next = t /\ notify[t] >= 0
           /\ clock \in Due(t) .. Due(t) + Width - 1 - interval[t]
           => fired'[t] = fired[t] + 1
=============================================================================
