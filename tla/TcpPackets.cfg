\* Two connections and two packets: enough for a frame cut off on the first
\* connection to meet one of the second.
SPECIFICATION PacketsSpec
CONSTANTS
  Subjects = {"stream"}
  HeaderBytes = 2
  Sizes = {0, 2}
  ChunkBytes = 1
  WireBytes = 3
  MaxPackets = 2
  MaxConnections = 2
  SocketReused = FALSE
  MaxRequests = 1
  MaxFaults = 0
  MaxQueue = 1
INVARIANTS ResumesWhereItStopped
PROPERTIES ImplementsChannel Arrives
CHECK_DEADLOCK FALSE
