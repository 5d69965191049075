---------------------------- MODULE TimersProofs ----------------------------
(***************************************************************************)
(* Theorems about time under SysTick, for every length of a second, every  *)
(* width of a word of time and any number of timers: clock_gettime returns *)
(* a time of the call, the CMSIS timers fire at their instants, and        *)
(* localtime_r and _mktime know every day.                                 *)
(***************************************************************************)
EXTENDS Timers, TLAPS

(***************************************************************************)
(* The clock.                                                              *)
(***************************************************************************)

Parts == [tv_sec : Nat, tv_nsec : 0 .. TicksPerSec - 1]
TicksOf(time) == time.tv_sec * TicksPerSec + time.tv_nsec

(* The copy is of one second of the clock as long as the second it began   *)
(* with is not over; when it is, the comparison will see it.               *)
ClockInv ==
  /\ now \in Nat /\ uptime \in Parts /\ ts \in Parts /\ called \in Nat
  /\ reader \in {"idle", "half", "compare", "again", "done"}
  /\ TicksOf(uptime) = now
  /\ called <= now
  /\ reader \in {"half", "compare"} => ts.tv_sec <= uptime.tv_sec
  /\ reader = "compare" /\ ts.tv_sec = uptime.tv_sec =>
       TicksOf(ts) \in called .. now
  /\ reader = "done" => TicksOf(ts) \in called .. now

LEMMA ClockInitInv == ASSUME ClockInit PROVE ClockInv
BY ClockAssumption DEF ClockInit, ClockInv, Parts, TicksOf

(* A tick moves the clock on by one. *)
LEMMA TickKeeps ==
  ASSUME ClockInv, ClockTick, UNCHANGED readVars PROVE ClockInv'
<1> USE DEF ClockInv, Parts
<1>1. /\ now' = now + 1 /\ ts' = ts /\ called' = called /\ reader' = reader
      /\ TicksPerSec \in Nat \ {0} /\ TicksPerSec \in Int
  BY ClockAssumption DEF ClockTick, readVars
<1>2. CASE uptime.tv_nsec + 1 >= TicksPerSec
  <2>1. /\ uptime' = [tv_sec |-> uptime.tv_sec + 1,
                      tv_nsec |-> uptime.tv_nsec + 1 - TicksPerSec]
        /\ uptime.tv_nsec + 1 = TicksPerSec
    BY <1>1, <1>2 DEF ClockTick
  <2>2. /\ uptime' \in Parts /\ uptime'.tv_sec = uptime.tv_sec + 1
        /\ uptime'.tv_nsec = 0
    BY <1>1, <2>1
  <2>3. uptime'.tv_sec * TicksPerSec = uptime.tv_sec * TicksPerSec + TicksPerSec
    BY <1>1, <2>2
  <2>4. TicksOf(uptime') = now + 1
    BY <1>1, <2>1, <2>2, <2>3 DEF TicksOf
  <2>5. (TicksOf(ts))' = TicksOf(ts) /\ (TicksOf(uptime))' = TicksOf(uptime')
    BY <1>1 DEF TicksOf
  <2> QED  BY <1>1, <2>2, <2>4, <2>5
<1>3. CASE ~(uptime.tv_nsec + 1 >= TicksPerSec)
  <2>1. uptime' = [uptime EXCEPT !.tv_nsec = uptime.tv_nsec + 1]
    BY <1>3 DEF ClockTick
  <2>2. /\ uptime' \in Parts /\ uptime'.tv_sec = uptime.tv_sec
        /\ uptime'.tv_nsec = uptime.tv_nsec + 1
    BY <1>1, <1>3, <2>1
  <2>3. uptime.tv_sec * TicksPerSec \in Int  BY <1>1
  <2>4. TicksOf(uptime') = now + 1
    BY <1>1, <2>2, <2>3 DEF TicksOf
  <2>5. (TicksOf(ts))' = TicksOf(ts) /\ (TicksOf(uptime))' = TicksOf(uptime')
    BY <1>1 DEF TicksOf
  <2> QED  BY <1>1, <2>2, <2>4, <2>5
<1> QED  BY <1>2, <1>3

(* The steps of clock_gettime, when the seconds are copied first. *)
LEMMA ReadKeeps ==
  ASSUME ClockInv, SecondsFirst, ClockRead PROVE ClockInv'
<1> USE DEF ClockInv, Parts
<1>1. Word(1) = "tv_sec" /\ Word(2) = "tv_nsec"
  <2>1. SecondsFirst = TRUE  BY ClockAssumption
  <2>2. (1 = 1) = TRUE  BY Zenon
  <2>3. (2 = 1) = FALSE  BY SMT
  <2>4. TRUE # FALSE  BY Zenon
  <2>5. Word(1) = IF TRUE = TRUE THEN "tv_sec" ELSE "tv_nsec"
    BY <2>1, <2>2, Zenon DEF Word
  <2>6. Word(2) = IF FALSE = TRUE THEN "tv_sec" ELSE "tv_nsec"
    BY <2>1, <2>3, Zenon DEF Word
  <2> QED  BY <2>4, <2>5, <2>6, Zenon
<1>2. UNCHANGED <<now, uptime>>
  BY DEF ClockRead, CopyFirst, CopySecond, CompareSeconds, Returned
<1>3. CASE CopyFirst
  <2>0. ts' = [ts EXCEPT !["tv_sec"] = uptime["tv_sec"]]
    BY <1>1, <1>3 DEF CopyFirst
  <2>1. ts' = [ts EXCEPT !["tv_sec"] = uptime["tv_sec"]]
        /\ called' \in Nat /\ called' <= now /\ reader' = "half"
    BY <2>0, <1>3 DEF CopyFirst
  <2>2. ts' \in Parts /\ ts'.tv_sec = uptime.tv_sec
    BY <2>1
  <2> QED  BY <1>2, <2>1, <2>2 DEF TicksOf
<1>4. CASE CopySecond
  <2>1. /\ ts' = [ts EXCEPT !["tv_nsec"] = uptime["tv_nsec"]]
        /\ called' = called /\ reader = "half" /\ reader' = "compare"
    BY <1>1, <1>4 DEF CopySecond
  <2>2. ts' \in Parts /\ ts'.tv_sec = ts.tv_sec /\ ts'.tv_nsec = uptime.tv_nsec
    BY <2>1
  <2>3. ts'.tv_sec = uptime.tv_sec => TicksOf(ts') = now
    BY <2>2 DEF TicksOf
  <2>4. (TicksOf(ts))' = TicksOf(ts') /\ (TicksOf(uptime))' = TicksOf(uptime)
    BY <1>2 DEF TicksOf
  <2> QED  BY <1>2, <2>1, <2>2, <2>3, <2>4
<1>5. CASE CompareSeconds
  BY <1>2, <1>5 DEF CompareSeconds, TicksOf
<1>6. CASE Returned
  BY <1>2, <1>6 DEF Returned, TicksOf
<1> QED  BY <1>3, <1>4, <1>5, <1>6 DEF ClockRead

(* The time clock_gettime returns was the time at some instant of the      *)
(* call, whatever ticks come in between, provided the compiler has it copy *)
(* the seconds first.                                                      *)
THEOREM TimeWasNowCorrect == ASSUME SecondsFirst PROVE Spec => []TimeWasNow
<1>1. Init => ClockInv
  BY ClockInitInv DEF Init
<1>2. ASSUME ClockInv, [Next]_vars PROVE ClockInv'
  <2>1. CASE SysTick
    BY <1>2, <2>1, TickKeeps DEF SysTick
  <2>2. CASE ClockRead
    BY <1>2, <2>2, ReadKeeps
  <2>3. CASE UNCHANGED clockVars
    BY <1>2, <2>3 DEF clockVars, readVars, ClockInv, TicksOf
  <2> QED  BY <1>2, <2>1, <2>2, <2>3 DEF Next, vars
<1>3. ClockInv => TimeWasNow
  BY DEF ClockInv, TimeWasNow, TicksOf
<1> QED  BY <1>1, <1>2, <1>3, PTL DEF Spec

(***************************************************************************)
(* Words of time.                                                          *)
(***************************************************************************)

LEMMA Divides ==
  ASSUME NEW w \in Nat \ {0}, NEW a \in Int
  PROVE  \E q \in Int, r \in 0 .. w - 1 : a = w * q + r /\ r = a % w
<1>1. a = w * (a \div w) + (a % w) /\ a \div w \in Int /\ a % w \in 0 .. w - 1
  OBVIOUS
<1> QED  BY <1>1

LEMMA Remainder ==
  ASSUME NEW w \in Nat \ {0}, NEW a \in Int, NEW q \in Int, NEW r \in 0 .. w - 1,
         a = w * q + r
  PROVE  a % w = r
OBVIOUS

(* What is added to a word that has wrapped ... *)
LEMMA WordAdds ==
  ASSUME NEW w \in Nat \ {0}, NEW a \in Int, NEW b \in Int
  PROVE  ((a % w) + b) % w = (a + b) % w
<1>1. PICK q \in Int, r \in 0 .. w - 1 : a = w * q + r /\ r = a % w
  BY Divides
<1>2. r + b \in Int
  OBVIOUS
<1>3. PICK p \in Int, s \in 0 .. w - 1 : r + b = w * p + s /\ s = (r + b) % w
  BY <1>2, Divides
<1>4. a + b = w * (q + p) + s /\ q + p \in Int /\ a + b \in Int
  BY <1>1, <1>3
<1>5. (a + b) % w = s
  BY <1>4, Remainder
<1> QED  BY <1>1, <1>3, <1>5

(* ... and what is taken from a time. *)
LEMMA WordSubtracts ==
  ASSUME NEW w \in Nat \ {0}, NEW a \in Int, NEW b \in Int
  PROVE  (b - (a % w)) % w = (b - a) % w
<1>1. PICK q \in Int, r \in 0 .. w - 1 : a = w * q + r /\ r = a % w
  BY Divides
<1>2. b - r \in Int
  OBVIOUS
<1>3. PICK p \in Int, s \in 0 .. w - 1 : b - r = w * p + s /\ s = (b - r) % w
  BY <1>2, Divides
<1>4. b - a = w * (p - q) + s /\ p - q \in Int /\ b - a \in Int
  BY <1>1, <1>3
<1>5. (b - a) % w = s
  BY <1>4, Remainder
<1> QED  BY <1>1, <1>3, <1>5

(* A word shows no more time than has passed, and all of it before a whole *)
(* word has.                                                               *)
LEMMA WordShows ==
  ASSUME NEW w \in Nat \ {0}, NEW a \in Nat
  PROVE  a % w \in Nat /\ a % w <= a /\ (a < w => a % w = a)
<1>0. a \in Int
  OBVIOUS
<1>1. PICK q \in Int, r \in 0 .. w - 1 : a = w * q + r /\ r = a % w
  BY <1>0, Divides
<1>2. CASE q >= 0
  <2>1. w * q >= 0  BY <1>2
  <2>2. CASE q = 0  BY <1>1, <2>2
  <2>3. CASE q >= 1
    <3>1. w * q >= w  BY <2>3
    <3> QED  BY <1>1, <3>1
  <2> QED  BY <1>2, <2>2, <2>3
<1>3. CASE q <= -1
  <2>1. w * q <= -w  BY <1>3
  <2> QED  BY <1>1, <2>1
<1> QED  BY <1>2, <1>3

(* An instant to come looks like one long passed. *)
LEMMA WordAhead ==
  ASSUME NEW w \in Nat \ {0}, NEW d \in 1 .. w
  PROVE  (-d) % w = w - d
<1>1. CASE d = w
  <2>1. -d = w * (-1) + 0  BY <1>1
  <2> QED  BY <1>1, <2>1, Remainder
<1>2. CASE d < w
  <2>1. -d = w * (-1) + (w - d) /\ w - d \in 0 .. w - 1  BY <1>2
  <2> QED  BY <2>1, Remainder
<1> QED  BY <1>1, <1>2

(***************************************************************************)
(* The CMSIS timers.                                                       *)
(***************************************************************************)

(* The instant of the last callback, or of the start. *)
Base(t) == since[t] + fired[t] * interval[t]

(* A timer's word is that of the instant it counts from, except while a    *)
(* start has set the interval and not yet the time.                        *)
Stamped(t) ==
  start[t] # "stamp" => timestamp[t] = Base(t) % Width /\ Base(t) <= now

StampInv ==
  /\ now \in Nat
  /\ next \in [Timer -> Timer \cup {NULL}]
  /\ timestamp \in [Timer -> Int] /\ interval \in [Timer -> 0 .. Width - 1]
  /\ notify \in [Timer -> Int]
  /\ timer_first \in Timer \cup {NULL} /\ timer_next \in Timer \cup {NULL}
  /\ start \in [Timer -> {"idle", "stamp", "load", "link"}]
  /\ seen \in [Timer -> Timer \cup {NULL}]
  /\ since \in [Timer -> Nat] /\ fired \in [Timer -> Nat]
  /\ used # "osTimer" => timer_next = NULL
  /\ \A t \in Timer : Stamped(t)

LEMMA BaseType == ASSUME StampInv, NEW t \in Timer PROVE Base(t) \in Nat
<1>1. fired[t] * interval[t] \in Nat  BY DEF StampInv
<1> QED  BY <1>1 DEF StampInv, Base

LEMMA InitStamped == ASSUME Init PROVE StampInv
<1>1. /\ now = 0 /\ timer_first = NULL /\ timer_next = NULL
      /\ next = [t \in Timer |-> NULL] /\ seen = [t \in Timer |-> NULL]
      /\ timestamp = [t \in Timer |-> 0] /\ interval = [t \in Timer |-> 0]
      /\ start = [t \in Timer |-> "idle"] /\ since = [t \in Timer |-> 0]
      /\ fired = [t \in Timer |-> 0]
  BY DEF Init, ClockInit, TimerInit
<1>2. notify \in [Timer -> Int]
  BY DEF Init, TimerInit, osTimerOnce, osTimerPeriodic
<1>3. 0 % Width = 0 /\ 0 \in 0 .. Width - 1
  BY TimerAssumption
<1>4. ASSUME NEW t \in Timer PROVE Stamped(t)
  <2>1. Base(t) = 0  BY <1>1 DEF Base
  <2> QED  BY <1>1, <1>3, <2>1 DEF Stamped
<1> QED  BY <1>1, <1>2, <1>3, <1>4 DEF StampInv

(* What the elapsed time shows: never more than there is, and all of it    *)
(* within a word.                                                          *)
LEMMA ElapsedShows ==
  ASSUME StampInv, NEW t \in Timer, NEW clock \in Nat, start[t] # "stamp",
         now <= clock
  PROVE  /\ Elapsed(t, clock) => Base(t) + interval[t] <= clock
         /\ clock \in Base(t) + interval[t] .. Base(t) + Width - 1 =>
              Elapsed(t, clock)
<1> DEFINE age == clock - Base(t)
<1>1. Base(t) \in Nat /\ interval[t] \in Nat /\ age \in Nat
  BY BaseType DEF StampInv, Stamped
<1>2. (clock - timestamp[t]) % Width = age % Width
  BY <1>1, TimerAssumption, WordSubtracts DEF StampInv, Stamped
<1>3. age % Width \in Nat /\ age % Width <= age /\ (age < Width => age % Width = age)
  BY <1>1, TimerAssumption, WordShows
<1>4. Elapsed(t, clock) <=> age % Width >= interval[t]
  BY <1>2 DEF Elapsed
<1> HIDE DEF age
<1>5. clock = Base(t) + age
  BY <1>1 DEF age
<1> QED  BY <1>1, <1>3, <1>4, <1>5, TimerAssumption

(* The calls of osTimerStart and osTimerStop. *)
LEMMA CallsKeepStamped ==
  ASSUME StampInv, TimerCalls(now), UNCHANGED <<now, used>> PROVE StampInv'
<1> USE DEF StampInv
<1>1. PICK t \in Timer :
        \/ \E i \in Interval : StartInterval(t, i)
        \/ StartStamp(t, now) \/ StartLoad(t) \/ StartLink(t) \/ Stop(t)
  BY DEF TimerCalls
<1>2. CASE \E i \in Interval : StartInterval(t, i)
  <2>1. PICK i \in Interval : StartInterval(t, i)
    BY <1>2
  <2>2. i \in 0 .. Width - 1
    BY TimerAssumption
  <2>3. /\ interval' = [interval EXCEPT ![t] = i]
        /\ start' = [start EXCEPT ![t] = "stamp"]
        /\ UNCHANGED <<next, timestamp, notify, timer_first, timer_next, seen,
                       since, fired>>
    BY <2>1 DEF StartInterval
  <2>4. ASSUME NEW u \in Timer PROVE Stamped(u)'
    BY <2>3, <2>4 DEF Stamped, Base
  <2> QED  BY <2>2, <2>3, <2>4
<1>3. CASE StartStamp(t, now)
  <2>1. /\ timestamp' = [timestamp EXCEPT ![t] = now % Width]
        /\ since' = [since EXCEPT ![t] = now] /\ fired' = [fired EXCEPT ![t] = 0]
        /\ start' = [start EXCEPT ![t] = "load"]
        /\ UNCHANGED <<next, interval, notify, timer_first, timer_next, seen>>
    BY <1>3 DEF StartStamp
  <2>2. now % Width \in Int
    BY TimerAssumption
  <2>3. ASSUME NEW u \in Timer PROVE Stamped(u)'
    <3>1. CASE u = t
      <4>1. since'[t] = now /\ fired'[t] = 0 /\ interval'[t] = interval[t]
            /\ interval[t] \in Int /\ timestamp'[t] = now % Width
        BY <2>1
      <4>2. fired'[t] * interval'[t] = 0
        BY <4>1
      <4>3. since'[t] + fired'[t] * interval'[t] = now
        BY <4>1, <4>2
      <4> QED  BY <3>1, <4>1, <4>3 DEF Stamped, Base
    <3>2. CASE u # t
      BY <2>1, <3>2 DEF Stamped, Base
    <3> QED  BY <3>1, <3>2
  <2> QED  BY <2>1, <2>2, <2>3
<1>4. CASE StartLoad(t)
  <2>1. /\ seen' = [seen EXCEPT ![t] = timer_first]
        /\ next' = [next EXCEPT ![t] =
                      IF timer_first = NULL THEN t ELSE timer_first]
        /\ start' = [start EXCEPT ![t] = "link"] /\ start[t] = "load"
        /\ UNCHANGED <<timestamp, interval, notify, timer_first, timer_next,
                       since, fired>>
    BY <1>4 DEF StartLoad
  <2>2. ASSUME NEW u \in Timer PROVE Stamped(u)'
    BY <2>1 DEF Stamped, Base
  <2> QED  BY <2>1, <2>2
<1>5. CASE StartLink(t)
  <2>1. /\ timer_first' \in {timer_first, t}
        /\ start' \in {[start EXCEPT ![t] = "idle"], [start EXCEPT ![t] = "load"]}
        /\ start[t] = "link" /\ seen' = [seen EXCEPT ![t] = NULL]
        /\ UNCHANGED <<next, timestamp, interval, notify, timer_next, since, fired>>
    BY <1>5 DEF StartLink
  <2>2. ASSUME NEW u \in Timer PROVE Stamped(u)'
    BY <2>1 DEF Stamped, Base
  <2> QED  BY <2>1, <2>2
<1>6. CASE Stop(t)
  <2>1. /\ notify' = [notify EXCEPT ![t] = -1]
        /\ UNCHANGED <<next, timestamp, interval, timer_first, timer_next,
                       start, seen, since, fired>>
    BY <1>6 DEF Stop, startVars
  <2>2. ASSUME NEW u \in Timer PROVE Stamped(u)'
    BY <2>1 DEF Stamped, Base
  <2> QED  BY <2>1, <2>2
<1> QED  BY <1>1, <1>2, <1>3, <1>4, <1>5, <1>6

(* A tick fires a timer and moves its word by the interval, or leaves all  *)
(* words alone.                                                            *)
LEMMA WorkKeepsStamped ==
  ASSUME StampInv, TimerWork(now'), now' = now + 1, used = "osTimer", used' = used
  PROVE  StampInv'
<1> USE DEF StampInv
<1>1. CASE timer_next = NULL
  <2>1. /\ timer_next' = timer_first
        /\ UNCHANGED <<next, timestamp, interval, notify, timer_first, start, seen,
                       since, fired>>
    BY <1>1 DEF TimerWork, startVars
  <2>2. ASSUME NEW u \in Timer PROVE Stamped(u)'
    <3>1. Base(u)' = Base(u) /\ Base(u) \in Nat
      BY <2>1, BaseType DEF Base
    <3> QED  BY <2>1, <3>1 DEF Stamped
  <2> QED  BY <2>1, <2>2
<1>2. CASE timer_next # NULL
  <2>0. PICK t \in Timer : t = timer_next
    BY <1>2
  <2>1. t \in Timer /\ timer_next' = next[t]
        /\ UNCHANGED <<next, interval, timer_first, start, seen, since>>
    BY <1>2, <2>0 DEF TimerWork, startVars
  <2>2. CASE UNCHANGED <<fired, timestamp, notify>>
    <3>1. ASSUME NEW u \in Timer PROVE Stamped(u)'
      <4>1. Base(u)' = Base(u) /\ Base(u) \in Nat
        BY <2>1, <2>2, BaseType DEF Base
      <4> QED  BY <2>1, <2>2, <4>1 DEF Stamped
    <3> QED  BY <2>1, <2>2, <3>1
  <2>3. CASE /\ Elapsed(t, now') /\ fired' = [fired EXCEPT ![t] = @ + 1]
             /\ timestamp' = [timestamp EXCEPT ![t] = (@ + interval[t]) % Width]
             /\ notify' \in {[notify EXCEPT ![t] = -1], notify}
    <3>1. (timestamp[t] + interval[t]) % Width \in Int
      BY <2>1, TimerAssumption
    <3>2. ASSUME NEW u \in Timer PROVE Stamped(u)'
      <4>1. CASE u # t
        <5>1. /\ since'[u] = since[u] /\ fired'[u] = fired[u]
              /\ interval'[u] = interval[u] /\ timestamp'[u] = timestamp[u]
              /\ start'[u] = start[u]
          BY <2>1, <2>3, <4>1
        <5>2. Base(u)' = Base(u) /\ Base(u) \in Nat
          BY <5>1, BaseType DEF Base
        <5> QED  BY <5>1, <5>2 DEF Stamped
      <4>2. CASE u = t /\ start[t] # "stamp"
        <5>1. /\ since'[t] = since[t] /\ fired'[t] = fired[t] + 1
              /\ interval'[t] = interval[t] /\ interval[t] \in Int /\ fired[t] \in Int
              /\ since[t] \in Int
              /\ timestamp'[t] = (timestamp[t] + interval[t]) % Width
          BY <2>1, <2>3
        <5>2. fired'[t] * interval'[t] = fired[t] * interval[t] + interval[t]
              /\ fired[t] * interval[t] \in Int
          BY <5>1
        <5>3. Base(t)' = Base(t) + interval[t] /\ Base(t) \in Int
          BY <5>1, <5>2, <2>1, BaseType DEF Base
        <5>4. timestamp'[t] = (Base(t) + interval[t]) % Width
          BY <2>1, <4>2, <5>1, <5>3, WordAdds, TimerAssumption DEF Stamped
        <5>5. Base(t) + interval[t] <= now'
          BY <2>1, <2>3, <4>2, ElapsedShows
        <5> QED  BY <4>2, <5>3, <5>4, <5>5 DEF Stamped
      <4>3. CASE u = t /\ start[t] = "stamp"
        BY <2>1, <4>3 DEF Stamped
      <4> QED  BY <4>1, <4>2, <4>3
    <3> QED  BY <2>1, <2>3, <3>1, <3>2
  <2> QED  BY <1>2, <2>0, <2>2, <2>3 DEF TimerWork
<1> QED  BY <1>1, <1>2

LEMMA NextKeepsStamped == ASSUME StampInv, [Next]_vars PROVE StampInv'
<1> USE DEF StampInv
<1>1. CASE used = "osTimer" /\ SysTick
  <2>1. TimerWork(now') /\ now' = now + 1 /\ used' = used
    BY <1>1 DEF SysTick, ClockTick
  <2> QED  BY <1>1, <2>1, WorkKeepsStamped
<1>2. CASE UNCHANGED timerVars /\ used' = used /\ now' \in {now, now + 1}
  <2>1. UNCHANGED <<next, timestamp, interval, notify, timer_first, timer_next,
                    start, seen, since, fired>>
    BY <1>2 DEF timerVars, startVars
  <2>2. ASSUME NEW u \in Timer PROVE Stamped(u)'
    <3>1. Base(u)' = Base(u) /\ Base(u) \in Nat
      BY <2>1, BaseType DEF Base
    <3> QED  BY <1>2, <2>1, <3>1 DEF Stamped
  <2> QED  BY <1>2, <2>1, <2>2
<1>3. CASE TimerCalls(now) /\ UNCHANGED <<now, used>>
  BY <1>3, CallsKeepStamped
<1> QED
  BY <1>1, <1>2, <1>3 DEF Next, vars, SysTick, ClockTick, clockVars, ClockRead,
     CopyFirst, CopySecond, CompareSeconds, Returned

(* Of the timers not being started, a tick fires the enabled one under the *)
(* cursor when its instant is reached, and no other, however the word of   *)
(* time has wrapped since.                                                 *)
THEOREM TimerOnTimeCorrect == Spec => TimerOnTime
<1>1. Init => StampInv
  BY InitStamped
<1>2. StampInv /\ [Next]_vars => StampInv'
  BY NextKeepsStamped
<1>3. ASSUME StampInv, StampInv', [Next]_vars, now' # now PROVE FiresOnTime(now')
  <2>1. SysTick /\ now' = now + 1 /\ now' \in Nat
    BY <1>3 DEF Next, vars, clockVars, ClockRead, CopyFirst, CopySecond,
       CompareSeconds, Returned, SysTick, ClockTick, StampInv
  <2>2. CASE UNCHANGED timerVars /\ timer_next = NULL
    BY <2>2, TimerAssumption DEF FiresOnTime, timerVars
  <2>3. CASE TimerWork(now') /\ timer_next = NULL
    BY <2>3, TimerAssumption DEF FiresOnTime, TimerWork
  <2>4. CASE TimerWork(now') /\ timer_next # NULL
    <3>1. PICK t \in Timer : t = timer_next
      BY <1>3, <2>4 DEF StampInv
    <3>2. IF Elapsed(t, now') /\ notify[t] >= 0
          THEN fired' = [fired EXCEPT ![t] = @ + 1] ELSE fired' = fired
      BY <2>4, <3>1 DEF TimerWork
    <3>3. fired \in [Timer -> Nat]
      BY <1>3 DEF StampInv
    <3>4. CASE start[t] = "idle"
      <4>1. /\ Elapsed(t, now') => Base(t) + interval[t] <= now'
            /\ now' \in Base(t) + interval[t] .. Base(t) + Width - 1 =>
                 Elapsed(t, now')
        BY <1>3, <2>1, <3>4, ElapsedShows DEF StampInv
      <4>2. Due(t) = Base(t) + interval[t] /\ Base(t) \in Int /\ interval[t] \in Int
        <5>1. /\ since[t] \in Int /\ fired[t] \in Int /\ interval[t] \in Int
          BY <1>3 DEF StampInv
        <5>2. /\ (fired[t] + 1) * interval[t] = fired[t] * interval[t] + interval[t]
              /\ fired[t] * interval[t] \in Int
          BY <5>1
        <5> QED  BY <5>1, <5>2 DEF Due, Base
      <4>3. now' \in Due(t) .. Due(t) + Width - 1 - interval[t] => Elapsed(t, now')
        BY <4>1, <4>2, TimerAssumption
      <4>4. Elapsed(t, now') => Due(t) <= now'
        BY <4>1, <4>2
      <4>5. ASSUME NEW u \in Timer, start[u] = "idle"
            PROVE  /\ fired'[u] # fired[u] =>
                        timer_next = u /\ notify[u] >= 0 /\ Due(u) <= now'
                   /\ timer_next = u /\ notify[u] >= 0
                        /\ now' \in Due(u) .. Due(u) + Width - 1 - interval[u]
                        => fired'[u] = fired[u] + 1
        BY <3>1, <3>2, <3>3, <4>3, <4>4
      <4> QED  BY <4>5 DEF FiresOnTime
    <3>5. CASE start[t] # "idle"
      <4>1. ASSUME NEW u \in Timer, start[u] = "idle"
            PROVE  timer_next # u /\ fired'[u] = fired[u]
        <5>1. u # t
          BY <3>5, <4>1
        <5>2. fired' = [fired EXCEPT ![t] = @ + 1] \/ fired' = fired
          BY <3>2
        <5> QED  BY <3>1, <3>3, <5>1, <5>2
      <4> QED  BY <4>1 DEF FiresOnTime
    <3> QED  BY <3>4, <3>5
  <2>5. used # "osTimer" => timer_next = NULL
    BY <1>3 DEF StampInv
  <2> QED  BY <2>1, <2>2, <2>3, <2>4, <2>5 DEF SysTick
<1>4. ASSUME StampInv, StampInv', [Next]_vars
      PROVE  [now' # now => FiresOnTime(now')]_vars
  BY <1>3, <1>4
<1> QED  BY <1>1, <1>2, <1>4, PTL DEF Spec, TimerOnTime

(***************************************************************************)
(* The divisions of r3_stdlib_mktime.c are multiplications of words in 64  *)
(* bits and shifts.                                                        *)
(***************************************************************************)

div5(v) == (v * 3435973837) \div 17179869184
div10(v) == (v * 3435973837) \div 34359738368
div153(v) == (v * 3593175255) \div 549755813888
div1461(v) == (v * 3010298776) \div 4398046511104
div146097(v) == (v * 3853261556) \div 562949953421312
div86400(v) == (v * 3257812231) \div 281474976710656     \* in g_timestamp_to_hms
div60(v) == (v * 2290649225) \div 137438953472     \* in g_timestamp_to_hms
div7(v) == (v * 2454267027) \div 17179869184     \* in rem7

Word32(v) == v \in Nat /\ v <= 4294967295
Word31(v) == v \in Nat /\ v <= 2147483647

LEMMA Div5 == ASSUME NEW v, Word32(v) PROVE div5(v) = v \div 5
<1>0. v \in Nat /\ v <= 4294967295
  BY SMT DEF Word32
<1>1. PICK q \in Int : q = v \div 5
  BY SMT, <1>0
<1>2. q * 5 <= v /\ v < q * 5 + 5
  BY SMT, <1>0, <1>1
<1>3. q * 17179869184 <= v * 3435973837
  BY SMT, <1>0, <1>2
<1>4. v * 3435973837 < q * 17179869184 + 17179869184
  BY SMT, <1>0, <1>2
<1>5. (v * 3435973837) \div 17179869184 = q
  BY SMT, <1>0, <1>3, <1>4
<1> QED  BY SMT, <1>1, <1>5 DEF div5

LEMMA Div10 == ASSUME NEW v, Word32(v) PROVE div10(v) = v \div 10
<1>0. v \in Nat /\ v <= 4294967295
  BY SMT DEF Word32
<1>1. PICK q \in Int : q = v \div 10
  BY SMT, <1>0
<1>2. q * 10 <= v /\ v < q * 10 + 10
  BY SMT, <1>0, <1>1
<1>3. q * 34359738368 <= v * 3435973837
  BY SMT, <1>0, <1>2
<1>4. v * 3435973837 < q * 34359738368 + 34359738368
  BY SMT, <1>0, <1>2
<1>5. (v * 3435973837) \div 34359738368 = q
  BY SMT, <1>0, <1>3, <1>4
<1> QED  BY SMT, <1>1, <1>5 DEF div10

LEMMA Div153 == ASSUME NEW v, Word32(v) PROVE div153(v) = v \div 153
<1>0. v \in Nat /\ v <= 4294967295
  BY SMT DEF Word32
<1>1. PICK q \in Int : q = v \div 153
  BY SMT, <1>0
<1>2. q * 153 <= v /\ v < q * 153 + 153
  BY SMT, <1>0, <1>1
<1>3. q * 549755813888 <= v * 3593175255
  BY SMT, <1>0, <1>2
<1>4. v * 3593175255 < q * 549755813888 + 549755813888
  BY SMT, <1>0, <1>2
<1>5. (v * 3593175255) \div 549755813888 = q
  BY SMT, <1>0, <1>3, <1>4
<1> QED  BY SMT, <1>1, <1>5 DEF div153

LEMMA Div1461 == ASSUME NEW v, Word32(v) PROVE div1461(v) = v \div 1461
<1>0. v \in Nat /\ v <= 4294967295
  BY SMT DEF Word32
<1>1. PICK q \in Int : q = v \div 1461
  BY SMT, <1>0
<1>2. q * 1461 <= v /\ v < q * 1461 + 1461
  BY SMT, <1>0, <1>1
<1>3. q * 4398046511104 <= v * 3010298776
  BY SMT, <1>0, <1>2
<1>4. v * 3010298776 < q * 4398046511104 + 4398046511104
  BY SMT, <1>0, <1>2
<1>5. (v * 3010298776) \div 4398046511104 = q
  BY SMT, <1>0, <1>3, <1>4
<1> QED  BY SMT, <1>1, <1>5 DEF div1461

LEMMA Div146097 == ASSUME NEW v, Word32(v) PROVE div146097(v) = v \div 146097
<1>0. v \in Nat /\ v <= 4294967295
  BY SMT DEF Word32
<1>1. PICK q \in Int : q = v \div 146097
  BY SMT, <1>0
<1>2. q * 146097 <= v /\ v < q * 146097 + 146097
  BY SMT, <1>0, <1>1
<1>3. q * 562949953421312 <= v * 3853261556
  BY SMT, <1>0, <1>2
<1>4. v * 3853261556 < q * 562949953421312 + 562949953421312
  BY SMT, <1>0, <1>2
<1>5. (v * 3853261556) \div 562949953421312 = q
  BY SMT, <1>0, <1>3, <1>4
<1> QED  BY SMT, <1>1, <1>5 DEF div146097

LEMMA Div86400 == ASSUME NEW v, Word32(v) PROVE div86400(v) = v \div 86400
<1>0. v \in Nat /\ v <= 4294967295
  BY SMT DEF Word32
<1>1. PICK q \in Int : q = v \div 86400
  BY SMT, <1>0
<1>2. q * 86400 <= v /\ v < q * 86400 + 86400
  BY SMT, <1>0, <1>1
<1>3. q * 281474976710656 <= v * 3257812231
  BY SMT, <1>0, <1>2
<1>4. v * 3257812231 < q * 281474976710656 + 281474976710656
  BY SMT, <1>0, <1>2
<1>5. (v * 3257812231) \div 281474976710656 = q
  BY SMT, <1>0, <1>3, <1>4
<1> QED  BY SMT, <1>1, <1>5 DEF div86400

LEMMA Div60 == ASSUME NEW v, Word32(v) PROVE div60(v) = v \div 60
<1>0. v \in Nat /\ v <= 4294967295
  BY SMT DEF Word32
<1>1. PICK q \in Int : q = v \div 60
  BY SMT, <1>0
<1>2. q * 60 <= v /\ v < q * 60 + 60
  BY SMT, <1>0, <1>1
<1>3. q * 137438953472 <= v * 2290649225
  BY SMT, <1>0, <1>2
<1>4. v * 2290649225 < q * 137438953472 + 137438953472
  BY SMT, <1>0, <1>2
<1>5. (v * 2290649225) \div 137438953472 = q
  BY SMT, <1>0, <1>3, <1>4
<1> QED  BY SMT, <1>1, <1>5 DEF div60

LEMMA Div7 == ASSUME NEW v, Word31(v) PROVE div7(v) = v \div 7
<1>0. v \in Nat /\ v <= 2147483647
  BY SMT DEF Word31
<1>1. PICK q \in Int : q = v \div 7
  BY SMT, <1>0
<1>2. q * 7 <= v /\ v < q * 7 + 7
  BY SMT, <1>0, <1>1
<1>3. q * 17179869184 <= v * 2454267027
  BY SMT, <1>0, <1>2
<1>4. v * 2454267027 < q * 17179869184 + 17179869184
  BY SMT, <1>0, <1>2
<1>5. (v * 2454267027) \div 17179869184 = q
  BY SMT, <1>0, <1>3, <1>4
<1> QED  BY SMT, <1>1, <1>5 DEF div7

(* The multiplications of div5 to div146097, of rem7 and of                *)
(* g_timestamp_to_hms are the divisions that LocalTime has in their place, *)
(* for every word, of rem7 for every number of 31 bits.                    *)
THEOREM MultiplicationsDivide ==
  /\ \A v : Word32(v) => div5(v) = v \div 5 /\ div10(v) = v \div 10
  /\ \A v : Word32(v) => div153(v) = v \div 153
  /\ \A v : Word32(v) => div1461(v) = v \div 1461
  /\ \A v : Word32(v) => div146097(v) = v \div 146097
  /\ \A v : Word32(v) => div60(v) = v \div 60 /\ div86400(v) = v \div 86400
  /\ \A v : Word31(v) => div7(v) = v \div 7
BY SMT, Div5, Div7, Div10, Div60, Div153, Div1461, Div146097, Div86400

(***************************************************************************)
(* The calendar.                                                           *)
(***************************************************************************)

(* The steps of g_days_to_dmy: the day since March 4801 before our era,    *)
(* the century, the day of the century, the year of it, the day of the    *)
(* year and the month, from March on.                                      *)
DayOf(n) == n + 2440587 + 32045
CenturyOf(x) == (4 * x + 3) \div 146097
Century(n) == CenturyOf(DayOf(n))
CenturyDay(n) == DayOf(n) - (146097 * Century(n)) \div 4
Year(n) == (4 * CenturyDay(n) + 3) \div 1461
YearDay(n) == CenturyDay(n) - (1461 * Year(n)) \div 4
MonthAt(e) == (5 * e + 2) \div 153
MonthDay(e) == e - (153 * MonthAt(e) + 2) \div 5 + 1

(* A century has 36524 days, and one more if its last year is a leap year. *)
CenturyEnd(a) == IF a % 4 = 3 THEN 36524 ELSE 36523
CenturyStart(a) == (146097 * a) \div 4

LEMMA CenturyOfDay ==
  ASSUME NEW x \in Nat
  PROVE  /\ CenturyOf(x) \in Nat /\ CenturyStart(CenturyOf(x)) \in Int
         /\ CenturyStart(CenturyOf(x)) <= x
         /\ x - CenturyStart(CenturyOf(x)) <= CenturyEnd(CenturyOf(x))
         /\ \/ CenturyOf(x + 1) = CenturyOf(x)
            \/ /\ CenturyOf(x + 1) = CenturyOf(x) + 1
               /\ CenturyStart(CenturyOf(x + 1)) = x + 1
               /\ x - CenturyStart(CenturyOf(x)) = CenturyEnd(CenturyOf(x))
<1>1. PICK a, b : a = CenturyOf(x) /\ b = CenturyOf(x + 1)
  OBVIOUS
<1>2. /\ a \in Nat /\ 146097 * a <= 4 * x + 3 /\ 4 * x + 3 < 146097 * a + 146097
      /\ b \in Nat /\ 146097 * b <= 4 * x + 7 /\ 4 * x + 7 < 146097 * b + 146097
  BY <1>1, SMT DEF CenturyOf
<1>3. PICK s, z, w : /\ s = CenturyStart(a) /\ z = CenturyStart(b)
                     /\ w = CenturyStart(a + 1)
  OBVIOUS
<1>4. /\ s \in Int /\ 4 * s <= 146097 * a /\ 146097 * a <= 4 * s + 3
      /\ w \in Int /\ 4 * w <= 146097 * a + 146097 /\ 146097 * a + 146097 <= 4 * w + 3
  BY <1>2, <1>3, SMT DEF CenturyStart
<1>5. w - s = CenturyEnd(a) + 1 /\ CenturyEnd(a) \in Nat
  BY <1>2, <1>3, SMT DEF CenturyStart, CenturyEnd
<1>6. s <= x /\ x < w
  BY <1>2, <1>4, SMT
<1>7. x - s <= CenturyEnd(a)
  BY <1>4, <1>5, <1>6, SMT
<1>8. b = a \/ (b = a + 1 /\ w = x + 1)
  BY <1>2, <1>4, SMT
<1>9. b = a + 1 => z = x + 1 /\ x - s = CenturyEnd(a)
  BY <1>2, <1>3, <1>4, <1>5, <1>8, SMT
<1> QED  BY <1>1, <1>2, <1>3, <1>4, <1>6, <1>7, <1>8, <1>9

(* In the century of localtime_r.                                          *)
LEMMA Centuries ==
  ASSUME NEW n \in Nat
  PROVE  /\ Century(n) \in Nat /\ Century(n) >= 67
         /\ CenturyDay(n) \in Nat /\ CenturyDay(n) <= CenturyEnd(Century(n))
         /\ \/ Century(n + 1) = Century(n) /\ CenturyDay(n + 1) = CenturyDay(n) + 1
            \/ /\ Century(n + 1) = Century(n) + 1 /\ CenturyDay(n + 1) = 0
               /\ CenturyDay(n) = CenturyEnd(Century(n))
<1>1. PICK x, a, b : /\ x = DayOf(n) /\ a = Century(n) /\ b = Century(n + 1)
  OBVIOUS
<1>2. x \in Nat /\ DayOf(n + 1) = x + 1 /\ CenturyOf(x) >= 67
  BY <1>1, SMT DEF DayOf, CenturyOf
<1>3. PICK s, z : s = CenturyStart(a) /\ z = CenturyStart(b)
  OBVIOUS
<1>4. a = CenturyOf(x) /\ b = CenturyOf(x + 1)
  BY <1>1, <1>2 DEF Century
<1>5. /\ a \in Nat /\ s \in Int /\ s <= x /\ x - s <= CenturyEnd(a)
      /\ \/ b = a
         \/ b = a + 1 /\ z = x + 1 /\ x - s = CenturyEnd(a)
  BY <1>2, <1>3, <1>4, CenturyOfDay
<1>6. CenturyDay(n) = x - s /\ CenturyDay(n + 1) = x + 1 - z
  BY <1>1, <1>2, <1>3, <1>5, SMT DEF CenturyDay, CenturyStart
<1>7. PICK c, f : c = x - s /\ f = x + 1 - z
  OBVIOUS
<1>8. c \in Nat /\ (z = s => f = c + 1) /\ (z = x + 1 => f = 0)
  BY <1>2, <1>5, <1>7, SMT
<1>9. b = a => z = s
  BY <1>3
<1>10. c = CenturyDay(n) /\ f = CenturyDay(n + 1) /\ a >= 67
  BY <1>2, <1>4, <1>6, <1>7
<1>11. \/ b = a /\ f = c + 1
       \/ b = a + 1 /\ f = 0 /\ c = CenturyEnd(a)
  BY <1>5, <1>7, <1>8, <1>9
<1>12. c <= CenturyEnd(a)
  BY <1>5, <1>7
<1> QED  BY <1>1, <1>5, <1>8, <1>10, <1>11, <1>12

(* The year starts over after 365 days, or 366 before a leap year is over. *)
YearStart(d) == (1461 * d) \div 4
LEMMA YearOfCentury ==
  ASSUME NEW c \in Nat, c <= 36524, NEW d \in Int, d = (4 * c + 3) \div 1461
  PROVE /\ d \in Nat /\ d <= 99
        /\ YearStart(d) <= c /\ c < YearStart(d + 1)
        /\ YearStart(d + 1) - YearStart(d) = IF d % 4 = 3 THEN 366 ELSE 365
BY SMT DEF YearStart

(* The years of a calendar that starts them in March, and the last day of  *)
(* one.                                                                    *)
MarchYear(n) == 100 * Century(n) + Year(n)
YearFrom(y, m) == y - 4800 + m \div 10
MonthFrom(m) == m + 2 - 12 * (m \div 10)
YearEnd(y) == IF IsLeapYear(y - 4799) THEN 365 ELSE 364

LEMMA LocalTimeSteps ==
  ASSUME NEW n \in Nat
  PROVE LocalTime(n) =
    Date(YearFrom(MarchYear(n), MonthAt(YearDay(n))), MonthFrom(MonthAt(YearDay(n))),
         MonthDay(YearDay(n)), (n + 4) % 7)
BY SMT DEF LocalTime, DayOf, Century, CenturyOf, CenturyDay, Year, YearDay, MonthAt, MonthDay,
  MarchYear, YearFrom, MonthFrom

LEMMA LeapDays ==
  ASSUME NEW a \in Nat, NEW d \in Nat, d <= 99, a >= 67
  PROVE  YearEnd(100 * a + d) =
           IF (IF d = 99 THEN a % 4 = 3 ELSE d % 4 = 3) THEN 365 ELSE 364
<1>1. PICK y : y = 100 * a + d - 4799
  OBVIOUS
<1>2. CASE d = 99
  <2>1. y \in Int /\ y % 100 = 0 /\ y \div 100 = a - 47 /\ a - 47 \in Nat
    BY <1>1, <1>2, SMT
  <2>2. (a - 47) % 4 = 0 <=> a % 4 = 3
    BY SMT
  <2> QED  BY <2>1, <2>2, <1>1, <1>2, SMT DEF YearEnd, IsLeapYear
<1>3. CASE d # 99
  <2>1. y \in Int /\ y % 100 = d + 1 /\ y % 4 = (d + 1) % 4
    BY <1>1, <1>3, SMT
  <2>2. (d + 1) % 4 = 0 <=> d % 4 = 3
    BY SMT
  <2> QED  BY <2>1, <2>2, <1>1, <1>3, SMT DEF YearEnd, IsLeapYear
<1> QED  BY <1>2, <1>3

LEMMA DayTypes ==
  ASSUME NEW n \in Nat
  PROVE  /\ Century(n) \in Nat /\ Century(n) >= 67
         /\ Year(n) \in Nat /\ Year(n) <= 99
         /\ CenturyDay(n) \in Nat /\ CenturyDay(n) <= 36524
         /\ CenturyDay(n) = 36524 => Century(n) % 4 = 3
         /\ YearDay(n) = CenturyDay(n) - YearStart(Year(n))
         /\ YearDay(n) \in Nat /\ YearDay(n) <= YearEnd(MarchYear(n))
<1>1. /\ Century(n) \in Nat /\ Century(n) >= 67
      /\ CenturyDay(n) \in Nat /\ CenturyDay(n) <= 36524
      /\ CenturyDay(n) = 36524 => Century(n) % 4 = 3
  BY Centuries, SMT DEF CenturyEnd
<1>2. PICK a, c, d : a = Century(n) /\ c = CenturyDay(n) /\ d = Year(n)
  OBVIOUS
<1>3. c \in Nat /\ c <= 36524 /\ d = (4 * c + 3) \div 1461
  BY <1>1, <1>2, SMT DEF Year
<1>4. d \in Int  BY <1>3, SMT
<1>5. /\ d \in Nat /\ d <= 99 /\ YearStart(d) <= c /\ c < YearStart(d + 1)
      /\ YearStart(d + 1) - YearStart(d) = IF d % 4 = 3 THEN 366 ELSE 365
  BY <1>3, <1>4, YearOfCentury
<1>6. YearDay(n) = c - YearStart(d)
  BY <1>2 DEF YearDay, YearStart
<1>7. YearStart(d) \in Int /\ YearStart(d + 1) \in Int
  BY <1>5, SMT DEF YearStart
<1>8. YearDay(n) \in Nat /\ YearDay(n) <= 365 /\ (YearDay(n) = 365 => d % 4 = 3)
  BY <1>3, <1>5, <1>6, <1>7, SMT
<1>9. YearDay(n) = 365 /\ d = 99 => c = 36524
  <2>1. YearStart(99) = 36159  BY SMT DEF YearStart
  <2> QED  BY <2>1, <1>3, <1>6, SMT
<1>10. /\ a \in Nat /\ a >= 67
       /\ YearEnd(100 * a + d) =
            IF (IF d = 99 THEN a % 4 = 3 ELSE d % 4 = 3) THEN 365 ELSE 364
  <2>1. a \in Nat /\ a >= 67 /\ d \in Nat /\ d <= 99
    BY <1>1, <1>2, <1>5
  <2> QED  BY <2>1, LeapDays
<1>11. YearDay(n) <= YearEnd(100 * a + d)
  BY <1>1, <1>2, <1>5, <1>8, <1>9, <1>10, SMT
<1> QED  BY <1>1, <1>2, <1>5, <1>6, <1>8, <1>11 DEF MarchYear

(* The next day is in the same year, or the first of March.                *)
LEMMA DayTurns ==
  ASSUME NEW n \in Nat
  PROVE  \/ /\ MarchYear(n + 1) = MarchYear(n)
            /\ YearDay(n + 1) = YearDay(n) + 1
            /\ YearDay(n) < YearEnd(MarchYear(n))
         \/ /\ MarchYear(n + 1) = MarchYear(n) + 1
            /\ YearDay(n + 1) = 0
            /\ YearDay(n) = YearEnd(MarchYear(n))
<1>1. n + 1 \in Nat
  BY SMT
<1>2. PICK a, c, d, e : /\ a = Century(n) /\ c = CenturyDay(n)
                        /\ d = Year(n) /\ e = YearDay(n)
  OBVIOUS
<1>3. PICK b, f, g, h : /\ b = Century(n + 1) /\ f = CenturyDay(n + 1)
                        /\ g = Year(n + 1) /\ h = YearDay(n + 1)
  OBVIOUS
<1>4. /\ a \in Nat /\ a >= 67 /\ d \in Nat /\ d <= 99 /\ c \in Nat /\ c <= 36524
      /\ c = 36524 => a % 4 = 3
      /\ e = c - YearStart(d) /\ e \in Nat /\ e <= YearEnd(100 * a + d)
  BY <1>1, <1>2, DayTypes DEF MarchYear
<1>5. /\ b \in Nat /\ b >= 67 /\ g \in Nat /\ g <= 99 /\ f \in Nat /\ f <= 36524
      /\ f = 36524 => b % 4 = 3
      /\ h = f - YearStart(g) /\ h \in Nat /\ h <= YearEnd(100 * b + g)
  BY <1>1, <1>3, DayTypes DEF MarchYear
<1>6. d = (4 * c + 3) \div 1461 /\ g = (4 * f + 3) \div 1461
  BY <1>2, <1>3 DEF Year
<1>7. \/ b = a /\ f = c + 1
      \/ b = a + 1 /\ f = 0 /\ c = IF a % 4 = 3 THEN 36524 ELSE 36523
  BY <1>2, <1>3, Centuries, SMT DEF CenturyEnd
<1>8. YearEnd(100 * a + d) =
        IF (IF d = 99 THEN a % 4 = 3 ELSE d % 4 = 3) THEN 365 ELSE 364
  BY <1>4, LeapDays
<1>9. /\ YearStart(d) \in Int /\ YearStart(d + 1) \in Int /\ d \in Int
      /\ YearStart(d) <= c /\ c < YearStart(d + 1)
      /\ YearStart(d + 1) - YearStart(d) = IF d % 4 = 3 THEN 366 ELSE 365
  <2>1. d \in Int  BY <1>4, SMT
  <2>2. YearStart(d) \in Int /\ YearStart(d + 1) \in Int
    BY <2>1, SMT DEF YearStart
  <2> QED  BY <2>1, <2>2, <1>4, <1>6, YearOfCentury
<1>10. CASE b = a /\ f = c + 1
  <2>1. CASE c + 1 < YearStart(d + 1)
    <3>1. g = d
      BY <2>1, <1>4, <1>5, <1>6, <1>9, <1>10, SMT DEF YearStart
    <3>2. h = e + 1
      BY <3>1, <1>4, <1>5, <1>9, <1>10, SMT
    <3>3. e < YearEnd(100 * a + d)
      BY <3>1, <3>2, <1>4, <1>5, <1>8, <1>10, SMT
    <3> QED  BY <3>1, <3>2, <3>3, <1>2, <1>3, <1>10 DEF MarchYear
  <2>2. CASE c + 1 = YearStart(d + 1)
    <3>1. g = d + 1
      BY <2>2, <1>4, <1>5, <1>6, <1>10, SMT DEF YearStart
    <3>2. h = 0 /\ d < 99
      BY <3>1, <2>2, <1>4, <1>5, <1>9, <1>10, SMT
    <3>3. e = IF d % 4 = 3 THEN 366 - 1 ELSE 365 - 1
      BY <2>2, <1>4, <1>9, SMT
    <3>4. e = YearEnd(100 * a + d)
      BY <3>2, <3>3, <1>4, <1>8, SMT
    <3>5. 100 * b + g = 100 * a + d + 1
      BY <3>1, <1>4, <1>10, SMT
    <3> QED  BY <3>2, <3>4, <3>5, <1>2, <1>3 DEF MarchYear
  <2> QED  BY <2>1, <2>2, <1>4, <1>9, SMT
<1>11. CASE b = a + 1 /\ f = 0 /\ c = IF a % 4 = 3 THEN 36524 ELSE 36523
  <2>1. g = 0 /\ YearStart(0) = 0
    BY <1>5, <1>6, <1>11, SMT DEF YearStart
  <2>2. d = 99 /\ YearStart(99) = 36159
    BY <1>4, <1>6, <1>11, SMT DEF YearStart
  <2>3. h = 0 /\ e = IF a % 4 = 3 THEN 365 ELSE 364
    BY <2>1, <2>2, <1>4, <1>5, <1>11, SMT
  <2>4. e = YearEnd(100 * a + d)
    BY <2>2, <2>3, <1>8, SMT
  <2>5. 100 * b + g = 100 * a + d + 1
    BY <2>1, <2>2, <1>4, <1>11, SMT
  <2> QED  BY <2>3, <2>4, <2>5, <1>2, <1>3 DEF MarchYear
<1> QED  BY <1>7, <1>10, <1>11

(* A month counted from March has 31 days or 30; the last, February, ends  *)
(* with the year.                                                          *)
DaysOf(m) == IF m \in {1, 3, 6, 8} THEN 30 ELSE 31
LEMMA MonthTurns ==
  ASSUME NEW e \in Nat, e <= 365
  PROVE  /\ MonthAt(e) \in 0 .. 11 /\ MonthDay(e) \in 1 .. 31
         /\ \/ /\ MonthAt(e + 1) = MonthAt(e)
               /\ MonthDay(e + 1) = MonthDay(e) + 1
               /\ MonthDay(e) < DaysOf(MonthAt(e))
            \/ /\ MonthAt(e + 1) = MonthAt(e) + 1
               /\ MonthDay(e + 1) = 1
               /\ MonthDay(e) = DaysOf(MonthAt(e))
               /\ MonthAt(e) < 11
         /\ MonthAt(e) = 11 => MonthDay(e) = e - 336
         /\ Before[MonthAt(e) + 3 - 12 * (MonthAt(e) \div 10)] + MonthDay(e) = e + 1
<1>1. PICK m \in 0 .. 11 : m = MonthAt(e)
  BY SMT DEF MonthAt
<1>2. 153 * m <= 5 * e + 2 /\ 5 * e + 2 < 153 * (m + 1)
  BY <1>1, SMT DEF MonthAt
<1>3. PICK k \in 0 .. 12 : k = MonthAt(e + 1)
  BY SMT DEF MonthAt
<1>4. 153 * k <= 5 * e + 7 /\ 5 * e + 7 < 153 * (k + 1)
  BY <1>3, SMT DEF MonthAt
<1>5. /\ MonthDay(e) = e - (153 * m + 2) \div 5 + 1
      /\ MonthDay(e + 1) = e + 1 - (153 * k + 2) \div 5 + 1
  BY <1>1, <1>3 DEF MonthDay
<1>6. Before[m + 3 - 12 * (m \div 10)] = (153 * m + 2) \div 5
  BY SMT DEF Before
<1>7. k = m \/ (k = m + 1 /\ m < 11)
  BY <1>2, <1>4, SMT
<1>8. MonthDay(e) \in 1 .. 31 /\ MonthDay(e) <= DaysOf(m)
  BY <1>2, <1>5, SMT DEF DaysOf
<1>9. k = m => MonthDay(e + 1) = MonthDay(e) + 1 /\ MonthDay(e) < DaysOf(m)
  BY <1>2, <1>4, <1>5, SMT DEF DaysOf
<1>10. k = m + 1 /\ m < 11 => MonthDay(e + 1) = 1 /\ MonthDay(e) = DaysOf(m)
  BY <1>2, <1>4, <1>5, SMT DEF DaysOf
<1>11. Before[m + 3 - 12 * (m \div 10)] + MonthDay(e) = e + 1
  BY <1>5, <1>6, SMT
<1>12. m = 11 => MonthDay(e) = e - 336
  BY <1>5, SMT
<1> QED  BY <1>1, <1>3, <1>7, <1>8, <1>9, <1>10, <1>11, <1>12, SMT

(* _mktime counts the days of the date back.                               *)
LEMMA MkTimeRestores ==
  ASSUME NEW n \in Nat, n < JulianEnds
  PROVE  MkTime(LocalTime(n)) = n
<1>1. /\ 67 <= Century(n) /\ Century(n) <= 68 /\ Century(n) \in Nat
      /\ Century(n) = 67 => CenturyDay(n) = n + 25508
      /\ Century(n) = 68 => CenturyDay(n) = n - 11017
  <2>1. Century(n) \in Nat /\ Century(n) >= 67
    BY Centuries
  <2>2. Century(n) <= 68
    BY <2>1, SMT DEF JulianEnds, Century, CenturyOf, DayOf
  <2>3. Century(n) = 67 => CenturyDay(n) = n + 25508
    BY SMT DEF CenturyDay, DayOf
  <2>4. Century(n) = 68 => CenturyDay(n) = n - 11017
    BY SMT DEF CenturyDay, DayOf
  <2> QED  BY <2>1, <2>2, <2>3, <2>4
<1>2. PICK a, c, d, e : /\ a = Century(n) /\ c = CenturyDay(n)
                        /\ d = Year(n) /\ e = YearDay(n)
  OBVIOUS
<1>3. /\ d \in Nat /\ c \in Nat /\ e = c - YearStart(d) /\ e \in Nat
      /\ \/ a = 67 /\ c = n + 25508
         \/ a = 68 /\ c = n - 11017
  <2>1. a = 67 \/ a = 68
    BY <1>1, <1>2, SMT
  <2> QED  BY <2>1, <1>1, <1>2, DayTypes
<1>4. e <= 365 /\ 100 * a + d \in Nat
  <2>1. e <= YearEnd(100 * a + d)
    BY <1>1, <1>2, DayTypes DEF MarchYear
  <2> QED  BY <2>1, <1>3, SMT DEF YearEnd
<1>5. PICK m \in 0 .. 11 : m = MonthAt(e)
  BY <1>3, <1>4, MonthTurns
<1>6. PICK date : date = LocalTime(n)
  OBVIOUS
<1>7. /\ date.year = 100 * a + d - 4800 + m \div 10
      /\ date.mon = m + 2 - 12 * (m \div 10)
      /\ date.mday = MonthDay(e) /\ MonthDay(e) \in 1 .. 31
  <2>1. date = Date(YearFrom(100 * a + d, m), MonthFrom(m), MonthDay(e), (n + 4) % 7)
    <3>1. 100 * a + d = MarchYear(n)
      BY <1>2 DEF MarchYear
    <3> QED  BY <3>1, <1>2, <1>5, <1>6, LocalTimeSteps
  <2>2. MonthDay(e) \in 1 .. 31
    BY <1>3, <1>4, MonthTurns
  <2>3. /\ date.year = YearFrom(100 * a + d, m) /\ date.mon = MonthFrom(m)
        /\ date.mday = MonthDay(e)
    BY <2>1 DEF Date
  <2>4. /\ YearFrom(100 * a + d, m) = 100 * a + d - 4800 + m \div 10
        /\ MonthFrom(m) = m + 2 - 12 * (m \div 10)
    BY <1>3, <1>4, SMT DEF YearFrom, MonthFrom
  <2> QED  BY <2>2, <2>3, <2>4
<1>8. YearOf(date) = 100 * a + d
  BY <1>3, <1>4, <1>5, <1>7, SMT DEF YearOf
<1>9. Before[date.mon + 1] + date.mday = e + 1
  <2>1. date.mon + 1 = m + 3 - 12 * (m \div 10)
    BY <1>5, <1>7, SMT
  <2>2. Before[m + 3 - 12 * (m \div 10)] + MonthDay(e) = e + 1
    BY <1>3, <1>4, <1>5, MonthTurns
  <2> QED  BY <2>1, <2>2, <1>7
<1>10. Before[date.mon + 1] \in Int
  BY <1>5, <1>7, SMT DEF Before
<1>11. MkTime(date) = e + 1 + 365 * (100 * a + d) + (100 * a + d) \div 4 - 2472684
  BY <1>3, <1>4, <1>7, <1>8, <1>9, <1>10, SMT DEF MkTime
<1>12. YearStart(d) = 365 * d + d \div 4
  BY <1>3, SMT DEF YearStart
<1>13. (100 * a + d) \div 4 = 25 * a + d \div 4
  BY <1>3, SMT
<1>14. MkTime(date) = n
  BY <1>3, <1>11, <1>12, <1>13, SMT
<1> QED  BY <1>6, <1>14

(* The wall gets the next date.                                            *)
LEMMA LeafTurns ==
  ASSUME NEW n \in Nat
  PROVE  Leaf(LocalTime(n)) = LocalTime(n + 1)
<1>1. n + 1 \in Nat
  BY SMT
<1>2. PICK y, e, z, h : /\ y = MarchYear(n) /\ e = YearDay(n)
                        /\ z = MarchYear(n + 1) /\ h = YearDay(n + 1)
  OBVIOUS
<1>3. /\ e \in Nat /\ e <= YearEnd(y) /\ h \in Nat /\ h <= YearEnd(z)
      /\ y \in Nat /\ z \in Nat
  BY SMTT(30), <1>1, <1>2, DayTypes DEF MarchYear
<1>4. e <= 365 /\ h <= 365
  BY <1>3, SMT DEF YearEnd
<1>5. \/ z = y /\ h = e + 1 /\ e < YearEnd(y)
      \/ z = y + 1 /\ h = 0 /\ e = YearEnd(y)
  BY <1>2, DayTurns
<1>6. PICK date, then : date = LocalTime(n) /\ then = LocalTime(n + 1)
  OBVIOUS
<1>7. PICK m \in 0 .. 11, k \in 0 .. 11 : m = MonthAt(e) /\ k = MonthAt(h)
  BY <1>3, <1>4, MonthTurns
<1>8. date = Date(YearFrom(y, m), MonthFrom(m), MonthDay(e), (n + 4) % 7)
  BY <1>2, <1>6, <1>7, LocalTimeSteps
<1>9. then = Date(YearFrom(z, k), MonthFrom(k), MonthDay(h), (n + 1 + 4) % 7)
  BY <1>1, <1>2, <1>6, <1>7, LocalTimeSteps
<1>10. PICK p, q : p = MonthDay(e) /\ q = MonthDay(h)
  OBVIOUS
<1>11. /\ p \in 1 .. 31 /\ q \in 1 .. 31
       /\ m = 11 => p = e - 336
  <2>1. /\ MonthDay(e) \in 1 .. 31 /\ MonthDay(h) \in 1 .. 31
        /\ MonthAt(e) = 11 => MonthDay(e) = e - 336
    BY <1>3, <1>4, MonthTurns
  <2> QED  BY <2>1, <1>7, <1>10
<1>12. MonthLength(date) = IF m = 11 THEN YearEnd(y) - 336 ELSE DaysOf(m)
  <2>1. /\ date.mon = m + 2 - 12 * (m \div 10)
        /\ date.year = y - 4800 + m \div 10
    BY <1>8 DEF Date, YearFrom, MonthFrom
  <2>2. CASE m = 11
    <3>1. date.mon = 1 /\ date.year = y - 4799
      BY <2>1, <2>2, <1>3, SMT
    <3> QED  BY <2>2, <3>1, SMT DEF MonthLength, YearEnd
  <2>3. CASE m # 11
    <3>1. /\ date.mon # 1
          /\ date.mon \in {3, 5, 8, 10} <=> m \in {1, 3, 6, 8}
      BY <2>1, <2>3, SMT
    <3> QED  BY <2>3, <3>1, SMT DEF MonthLength, DaysOf
  <2> QED  BY <2>2, <2>3
<1>13. (n + 1 + 4) % 7 = (((n + 4) % 7) + 1) % 7
  BY SMT
<1>14. /\ date.year = y - 4800 + m \div 10 /\ date.mon = m + 2 - 12 * (m \div 10)
       /\ date.mday = p /\ date.wday = (n + 4) % 7
  BY <1>8, <1>10 DEF Date, YearFrom, MonthFrom
<1>15. PICK w : w = (date.wday + 1) % 7
  OBVIOUS
<1>16. then = Date(z - 4800 + k \div 10, k + 2 - 12 * (k \div 10), q, w)
  <2>1. then = Date(YearFrom(z, k), MonthFrom(k), q, w)
    BY <1>9, <1>10, <1>13, <1>14, <1>15
  <2> QED  BY <2>1 DEF YearFrom, MonthFrom
<1>18. CASE p < MonthLength(date) /\ z = y /\ k = m /\ q = p + 1
  <2>1. Leaf(date) = Date(date.year, date.mon, p + 1, w)
    BY <1>14, <1>15, <1>18 DEF Leaf
  <2> QED  BY <2>1, <1>6, <1>14, <1>16, <1>18
<1>19. CASE p = MonthLength(date) /\ z = y /\ k = m + 1 /\ q = 1
  <2>1. CASE m = 9
    <3>1. /\ date.mon = 11 /\ date.year = y - 4800
          /\ z - 4800 + k \div 10 = date.year + 1 /\ k + 2 - 12 * (k \div 10) = 0
      BY <2>1, <1>3, <1>14, <1>19, SMT
    <3>2. Leaf(date) = Date(date.year + 1, 0, 1, w)
      BY <3>1, <1>11, <1>14, <1>15, <1>19, SMT DEF Leaf
    <3> QED  BY <3>1, <3>2, <1>6, <1>16, <1>19
  <2>2. CASE m # 9
    <3>1. /\ date.mon < 11 /\ z - 4800 + k \div 10 = date.year
          /\ k + 2 - 12 * (k \div 10) = date.mon + 1
      <4>1. m < 9 \/ m = 10
        BY <2>2, <1>7, <1>19, SMT
      <4>2. CASE m < 9
        BY <4>2, <1>3, <1>14, <1>19, SMT
      <4>3. CASE m = 10
        BY <4>3, <1>3, <1>14, <1>19, SMT
      <4> QED  BY <4>1, <4>2, <4>3
    <3>2. Leaf(date) = Date(date.year, date.mon + 1, 1, w)
      BY <3>1, <1>11, <1>14, <1>15, <1>19, SMT DEF Leaf
    <3> QED  BY <3>1, <3>2, <1>6, <1>16, <1>19
  <2> QED  BY <2>1, <2>2
<1>20. CASE p = MonthLength(date) /\ z = y + 1 /\ m = 11 /\ k = 0 /\ q = 1
  <2>1. /\ date.mon = 1 /\ date.year = z - 4800 + k \div 10
        /\ k + 2 - 12 * (k \div 10) = date.mon + 1
    BY <1>3, <1>14, <1>20, SMT
  <2>2. Leaf(date) = Date(date.year, date.mon + 1, 1, w)
    BY <2>1, <1>11, <1>14, <1>15, <1>20, SMT DEF Leaf
  <2> QED  BY <2>1, <2>2, <1>6, <1>16, <1>20
<1>21. \/ p < MonthLength(date) /\ z = y /\ k = m /\ q = p + 1
       \/ p = MonthLength(date) /\ z = y /\ k = m + 1 /\ q = 1
       \/ p = MonthLength(date) /\ z = y + 1 /\ m = 11 /\ k = 0 /\ q = 1
  <2>1. CASE z = y /\ h = e + 1 /\ e < YearEnd(y)
    <3>1. \/ k = m /\ q = p + 1 /\ p < DaysOf(m)
          \/ k = m + 1 /\ q = 1 /\ p = DaysOf(m) /\ m < 11
      <4>1. MonthAt(e + 1) = k /\ MonthDay(e + 1) = q
        BY <2>1, <1>7, <1>10
      <4>2. \/ /\ MonthAt(e + 1) = MonthAt(e) /\ MonthDay(e + 1) = MonthDay(e) + 1
               /\ MonthDay(e) < DaysOf(MonthAt(e))
            \/ /\ MonthAt(e + 1) = MonthAt(e) + 1 /\ MonthDay(e + 1) = 1
               /\ MonthDay(e) = DaysOf(MonthAt(e)) /\ MonthAt(e) < 11
        BY <1>3, <1>4, MonthTurns
      <4> QED  BY <4>1, <4>2, <1>7, <1>10
    <3>2. YearEnd(y) \in {364, 365}
      BY DEF YearEnd
    <3> QED  BY <2>1, <3>1, <3>2, <1>3, <1>11, <1>12, SMT
  <2>2. CASE z = y + 1 /\ h = 0 /\ e = YearEnd(y)
    <3>1. e = 364 \/ e = 365
      BY <2>2 DEF YearEnd
    <3>2. m = 11
      BY <3>1, <1>7, SMT DEF MonthAt
    <3>3. k = 0 /\ q = 1
      BY <2>2, <1>7, <1>10, SMT DEF MonthAt, MonthDay
    <3> QED  BY <2>2, <3>2, <3>3, <1>3, <1>11, <1>12, SMT
  <2> QED  BY <2>1, <2>2, <1>5
<1> QED  BY <1>18, <1>19, <1>20, <1>21

LEMMA LocalTimeType ==
  ASSUME NEW n \in Nat
  PROVE  LocalTime(n) \in DateType
<1>1. PICK y, e : y = MarchYear(n) /\ e = YearDay(n)
  OBVIOUS
<1>2. /\ e \in Nat /\ e <= YearEnd(y) /\ y \in Nat /\ y >= 6700
  BY <1>1, DayTypes, SMT DEF MarchYear
<1>3. e <= 365
  BY <1>2, SMT DEF YearEnd
<1>4. PICK m \in 0 .. 11 : m = MonthAt(e)
  BY <1>2, <1>3, MonthTurns
<1>5. PICK p \in 1 .. 31 : p = MonthDay(e)
  BY <1>2, <1>3, MonthTurns
<1>6. LocalTime(n) = Date(YearFrom(y, m), MonthFrom(m), p, (n + 4) % 7)
  BY <1>1, <1>4, <1>5, LocalTimeSteps
<1>7. /\ YearFrom(y, m) \in Nat /\ MonthFrom(m) \in 0 .. 11
      /\ (n + 4) % 7 \in 0 .. 6
  BY <1>2, SMT DEF YearFrom, MonthFrom
<1> QED  BY <1>6, <1>7 DEF Date, DateType

(* The wall has the date of the day.                                       *)
CalendarInv == days \in Nat /\ wall = LocalTime(days)

LEMMA CalendarInvHolds == CalendarSpec => []CalendarInv
<1>1. CalendarInit => CalendarInv
  BY CalendarAssumption DEF CalendarInit, CalendarInv
<1>2. CalendarInv /\ [Midnight]_calendarVars => CalendarInv'
  <2>1. ASSUME CalendarInv, Midnight PROVE CalendarInv'
    <3>1. days \in Nat /\ days' = days + 1 /\ wall' = Leaf(wall)
      BY <2>1, CalendarAssumption, SMT DEF CalendarInv, Midnight
    <3>2. days' \in Nat
      BY <3>1, SMT
    <3>3. wall' = LocalTime(days + 1)
      BY <2>1, <3>1, LeafTurns DEF CalendarInv
    <3>4. wall' = LocalTime(days')
      BY <3>1, <3>3
    <3> QED  BY <3>2, <3>4 DEF CalendarInv
  <2>2. ASSUME CalendarInv, UNCHANGED calendarVars PROVE CalendarInv'
    BY <2>2 DEF CalendarInv, calendarVars
  <2> QED  BY <2>1, <2>2
<1> QED  BY <1>1, <1>2, PTL DEF CalendarSpec

(* Theorem: the steps of localtime_r give every day from 1970 on the date  *)
(* and the day of the week a calendar on the wall has, through every leap  *)
(* year and turn of the century, and _mktime gives it its day back until   *)
(* the first of March 2100.                                                *)
THEOREM CalendarCorrect == CalendarSpec => []CalendarAgrees
<1>1. CalendarInv => CalendarAgrees
  BY LocalTimeType, MkTimeRestores DEF CalendarInv, CalendarAgrees
<1> QED  BY <1>1, CalendarInvHolds, PTL
=============================================================================
