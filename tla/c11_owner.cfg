SPECIFICATION C11Spec
CONSTANTS
  Locker = {a, b}
  Leftover = {{"Running"}}
  MaxDepth = 2
  MaxTaken = 2
  NULL = NULL
INVARIANT C11Exclusion
