SPECIFICATION FairSpec
CONSTANTS
  Main = m
  Thread = {m, a}
  Sem = {s}
  Tokens <- OneToken
  Flag = {f}
  PoolBits = 1
  ClockBits = 1
  Scale = 1
  ShortSleep = 0
  Slice = 1
  Millisec = {1}
  Microsec = {0}
  Options <- AnyOnly
  Priority = {}
  NotifyTargets = {}
  MaxCreate = 1
  MaxExited = 2
PROPERTIES RoundRobin NoIgnoredWakeup FlagsReported ImplementsEventWait
