CONSTANTS
  Null = Null
  arch = arch
  generic = generic
  other = other
  Paths = {arch, generic}
  Candidates <- MCCandidates
  EnvPath = Null
  Changing = {arch, generic}
  Handles = {h1, h2}
  Objects = {a1, a2}
  NPObjects = {o1, o2, o3, o4, o5}
  Instances = {i1, i2}
  Slots = {v1, v2}
  MaxHeld <- MCMaxHeld
  NoObject = NoObject
SPECIFICATION PartsSpec
SYMMETRY Symmetry
CHECK_DEADLOCK FALSE
INVARIANTS
  HostSound
  SetupLoads
  ObjectsSound
PROPERTY
  UnmappedUnused
