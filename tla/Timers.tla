------------------------------- MODULE Timers -------------------------------
(***************************************************************************)
(* Time under SysTick: its tick advances the clock and looks at the        *)
(* timers (osTimerWork; osTimerWork2 of ptimer.c is called by nobody).     *)
(* Each behaviour reads the clock, or uses the timers, or lets the days of *)
(* the calendar go by.                                                     *)
(***************************************************************************)
EXTENDS Clock, Timer, Calendar

VARIABLE used       \* what the behaviour uses

vars == <<used, clockVars, timerVars, calendarVars>>

Init ==
  /\ used \in {"clock_gettime", "osTimer", "localtime"}
  /\ ClockInit /\ TimerInit /\ CalendarInit

(* SysTick_Handler. *)
SysTick ==
  /\ ClockTick
  /\ UNCHANGED <<used, readVars, calendarVars>>
  /\ \/ used = "clock_gettime" /\ UNCHANGED timerVars
     \/ used = "osTimer" /\ TimerWork(now')

Next ==
  \/ SysTick
  \/ used = "clock_gettime" /\ ClockRead
       /\ UNCHANGED <<used, timerVars, calendarVars>>
  \/ used = "osTimer" /\ TimerCalls(now)
       /\ UNCHANGED <<used, clockVars, calendarVars>>
  \/ used = "localtime" /\ Midnight
       /\ UNCHANGED <<used, clockVars, timerVars>>

Spec == Init /\ [][Next]_vars

-----------------------------------------------------------------------------
(* A tick fires the CMSIS timer under the cursor exactly when it is due. *)
TimerOnTime == [][now' # now => FiresOnTime(now')]_vars
=============================================================================
