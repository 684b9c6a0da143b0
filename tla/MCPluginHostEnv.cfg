CONSTANTS
  Null = Null
  arch = arch
  generic = generic
  other = other
  Paths = {arch, generic, other}
  Candidates <- MCCandidates
  EnvPath = other
  Changing = {}
  Handles = {h1, h2}
  Objects = {o1}
SPECIFICATION Spec
CHECK_DEADLOCK FALSE
INVARIANT SetupLoads
