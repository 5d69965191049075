SPECIFICATION Spec
CONSTANTS
  Main = m
  Thread = {m, a, b, c}
  Sem = {}
  Tokens <- OneToken
  Flag = {}
  PoolBits = 3
  ClockBits = 1
  Scale = 1
  ShortSleep = 2
  Slice = 1
  Millisec = {}
  Microsec = {1}
  Options = {}
  Priority = {"Realtime"}
  NotifyTargets = {m, a, b, c}
  MaxCreate = 4
  MaxExited = 2
SYMMETRY Others
INVARIANTS TypeOK RingExact StacksExact RunsOnOwnStack
