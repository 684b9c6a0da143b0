CONSTANTS
  Npps = {n1, n2}
  Plugins = {p1, p2}
  Scripts = {s1, s2}
  Windows = {w1, w2}
  NULL = NULL
  BlockLen = 2
  OutLen = 4
  MaxText = 5
  Keys = {"k1", "k2"}
  Blocks <- MCBlocks
  F <- MCF
SPECIFICATION PartsSpec
CHECK_DEADLOCK FALSE
INVARIANTS EntrySound DecryptInverts CipherSound
