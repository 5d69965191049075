SPECIFICATION Spec
CONSTANTS
  Sender = {a, b, c}
  Putter = {a, b}
  Size = 4
  MapBits = 2
  Priority = {1, 2}
  Kinds <- AllKinds
  NULL = NULL
SYMMETRY Senders
INVARIANTS OnePlace TokenFindsMessage HighestFirst EarlierChainFirst
PROPERTY ImplementsFifo
