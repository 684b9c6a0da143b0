CONSTANTS
  Null = Null
  Instances = {i1, i2}
  Fds = {f1, f2}
  Threads = {t1, t2}
  BufLen = 2
SPECIFICATION FairSpec
INVARIANTS
  InstancesSound
  AtMostOneLateWrite
PROPERTY CloseReturns
