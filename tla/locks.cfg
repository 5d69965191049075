SPECIFICATION Spec
CONSTANTS
  mutex = mutex
  queue = queue
  acquire = acquire
  Main = Main
  Thread = {a, b, c}
  Sem = {mutex, queue, acquire}
  Tokens <- TokensOf
  Kind <- EachKind
  MaxCount = 2
  MaxFree = 2
  User = {a, b, c}
SYMMETRY Threads
INVARIANTS SyncTypeOK Exclusion NoTokenLost RWExclusion
