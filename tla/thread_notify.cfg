SPECIFICATION Spec
CONSTANTS
  Main = m
  Thread = {m, a}
  Sem = {s}
  Tokens <- OneToken
  Flag = {}
  PoolBits = 1
  ClockBits = 1
  Scale = 1
  ShortSleep = 1
  Slice = 1
  Millisec <- Forever
  Microsec = {}
  Options = {}
  Priority = {}
  NotifyTargets = {m, a}
  MaxCreate = 1
  MaxExited = 2
INVARIANT ExecutingIsRunning
