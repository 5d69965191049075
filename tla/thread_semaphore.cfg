SPECIFICATION Spec
CONSTANTS
  Main = m
  Thread = {m, a, b}
  Sem = {s}
  Tokens <- OneToken
  Flag = {}
  PoolBits = 2
  ClockBits = 2
  Scale = 2
  ShortSleep = 1
  Slice = 1
  Millisec = {1}
  Microsec = {}
  Options = {}
  Priority = {}
  NotifyTargets = {}
  MaxCreate = 2
  MaxExited = 1
SYMMETRY Others
INVARIANTS TokensConserved ExecutingIsRunning
PROPERTIES WokenForAReason
