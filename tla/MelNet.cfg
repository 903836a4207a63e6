\* Five requests and three faults: a client that is two answers behind meets another
\* fault.
SPECIFICATION PacketsSpec
CONSTANTS
  Subjects = {"datagrams"}
  MaxRequests = 5
  MaxFaults = 3
  MaxQueue = 4
  HeaderBytes = 1
  Sizes = {}
  ChunkBytes = 1
  WireBytes = 1
  MaxPackets = 0
  MaxConnections = 1
  SocketReused = FALSE
INVARIANTS LagIsBounded
PROPERTIES AnsweredUnlessLost
CHECK_DEADLOCK FALSE
