CONSTANTS
  Null = Null
  Protos = {p1, p2}
  Streams = {s1}
  Fds = {f1, f2}
  Responses <- MCLongResponses
  ReqLen = 2
  ChunkLen = 3
  Look = 1
  MaxReady = 2
SPECIFICATION FairSpec
PROPERTIES ImplementsAPI RequestsEnd
