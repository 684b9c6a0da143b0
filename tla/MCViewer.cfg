CONSTANTS
  Plugins = {p1, p2}
  Viewer = viewer
  Windows = {w1, w2}
  Main = main
  Null = null
  Pumps = TRUE
SPECIFICATION ViewerSpec
CHECK_DEADLOCK FALSE
INVARIANTS WindowsSound DestroyedOnce EndSound
PROPERTY CleanupReturns
