-------------------------------- MODULE Clock -------------------------------
(***************************************************************************)
(* The time of kernel.c: SysTick_Handler counts ticks and keeps the uptime *)
(* in seconds and nanoseconds, clock_gettime copies the two words while    *)
(* SysTick may interrupt it, and copies them again until the seconds it    *)
(* has are those of the clock.  Which word the copy reads first is up to   *)
(* the compiler.  The offset of UTC is never set: adding it is nothing.    *)
(***************************************************************************)
EXTENDS Integers

CONSTANTS
  TicksPerSec,    \* ticks in a second
  MaxTicks,       \* bound: ticks in a behaviour
  SecondsFirst    \* whether the copy reads the seconds first

ASSUME ClockAssumption ==
  /\ TicksPerSec \in Nat \ {0} /\ MaxTicks \in Nat
  /\ SecondsFirst \in BOOLEAN

VARIABLES
  now,        \* ticks since the start
  uptime,     \* system_uptime
  reader,     \* where clock_gettime is
  ts,         \* its copy
  called      \* history: when it was called

readVars == <<reader, ts, called>>
clockVars == <<now, uptime, readVars>>

ClockInit ==
  /\ now = 0
  /\ uptime = [tv_sec |-> 0, tv_nsec |-> 0]
  /\ reader = "idle" /\ ts = uptime /\ called = 0

(* The part of SysTick_Handler that advances the time; a tick is the unit  *)
(* of tv_nsec.                                                             *)
ClockTick ==
  /\ now < MaxTicks
  /\ now' = now + 1
  /\ uptime' =
       IF uptime.tv_nsec + 1 >= TicksPerSec
       THEN [tv_sec |-> uptime.tv_sec + 1,
             tv_nsec |-> uptime.tv_nsec + 1 - TicksPerSec]
       ELSE [uptime EXCEPT !.tv_nsec = @ + 1]

Word(n) == IF (n = 1) = SecondsFirst THEN "tv_sec" ELSE "tv_nsec"

(* clock_gettime copies one word ... *)
CopyFirst ==
  /\ reader \in {"idle", "again"}
  /\ ts' = [ts EXCEPT ![Word(1)] = uptime[Word(1)]]
  /\ called' = IF reader = "idle" THEN now ELSE called
  /\ reader' = "half"
  /\ UNCHANGED <<now, uptime>>

(* ... and the other. *)
CopySecond ==
  /\ reader = "half"
  /\ ts' = [ts EXCEPT ![Word(2)] = uptime[Word(2)]]
  /\ reader' = "compare"
  /\ UNCHANGED <<now, uptime, called>>

SlipCompareSeconds ==
  /\ reader = "compare"
  /\ reader' = "done"
  /\ UNCHANGED <<now, uptime, ts, called>>

CompareSeconds ==
  /\ reader = "compare"
  /\ reader' = IF ts.tv_sec # uptime.tv_sec THEN "again" ELSE "done"
  /\ UNCHANGED <<now, uptime, ts, called>>

Returned ==
  /\ reader = "done"
  /\ reader' = "idle"
  /\ UNCHANGED <<now, uptime, ts, called>>

ClockRead == CopyFirst \/ CopySecond \/ CompareSeconds \/ Returned

-----------------------------------------------------------------------------
(* The time clock_gettime returns was the time at some instant of the      *)
(* call, whatever ticks came between its reads.                            *)
TimeWasNow ==
  reader = "done" =>
    ts.tv_sec * TicksPerSec + ts.tv_nsec \in called .. now
=============================================================================
