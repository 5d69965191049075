SPECIFICATION HeapSpec
CONSTANTS
  Caller = {c1, c2}
  Request = {1, 2}
  HeapWords = 12
INVARIANT BlocksApart
CHECK_DEADLOCK FALSE
