CONSTANTS
  Null = Null
  Conns = {c1}
  Lens = {3, 4, 5}
  Word = 2
  BufSize = 12
  RecvMax = 7
  MaxPending = 3
  Breaks = TRUE
SPECIFICATION FairSpec
CHECK_DEADLOCK FALSE
INVARIANTS
  PacketsWhole
  AssertionsHoldUnlessSpoilt
PROPERTY
  RequestsServed
