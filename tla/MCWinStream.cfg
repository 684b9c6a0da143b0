CONSTANTS
  Protos = {p1, p2}
  Streams = {s1}
  Fds = {f1, f2}
  Null = Null
  Responses <- MixedResponses
  ReqLen = 2
  ChunkLen = 2
  Look = 1
  MaxReady = 2
  MaxStale = 1
CHECK_DEADLOCK FALSE
SPECIFICATION FairSpec
INVARIANTS StreamsSound DeliverySound
PROPERTIES ErrorHasCause ImplementsAPI RequestsEnd
