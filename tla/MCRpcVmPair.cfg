CONSTANTS
  Null = Null
  Conns = {c1, c2}
  Lens = {3, 4, 5}
  Word = 2
  BufSize = 12
  RecvMax = 7
  MaxPending = 2
  Breaks = FALSE
SPECIFICATION Spec
CHECK_DEADLOCK FALSE
INVARIANT AssertionsHold
