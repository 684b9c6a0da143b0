CONSTANTS
  Null = Null
  Protos = {p1, p2}
  Streams = {s1, s2}
  Fds = {f1, f2}
  Responses <- MCResponses
  ReqLen = 2
  ChunkLen = 2
  Look = 1
  MaxReady = 2
SPECIFICATION Spec
SYMMETRY Symmetry
INVARIANTS
  StreamsSound
  WriteHalfSameSocket
  DeliveryInOrder
  ErrorHasCause
  ErrorTearsDown
  DestroyedWhenDelivered
