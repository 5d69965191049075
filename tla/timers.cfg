SPECIFICATION Spec
CONSTANTS
  TicksPerSec = 2
  MaxTicks = 6
  SecondsFirst = TRUE
  Timer = {t1, t2}
  Interval = {1, 2}
  Width = 4
  NULL = NULL
  FirstDay = 0
  LastDay = 49710
SYMMETRY TimerSymmetry
INVARIANTS TimeWasNow CalendarAgrees
PROPERTY TimerOnTime
CHECK_DEADLOCK FALSE
