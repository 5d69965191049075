SPECIFICATION Spec
CONSTANTS
  mutex = mutex
  queue = queue
  acquire = acquire
  Main = Main
  Thread = {a, b}
  Sem = {mutex}
  Tokens <- TokensOf
  Kind <- EachKind
  MaxCount = 2
  MaxFree = 2
  User = {a}
INVARIANT MutexObtained
