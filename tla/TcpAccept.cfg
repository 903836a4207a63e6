\* accept() is given a socket that received before.
CONSTANTS HeaderBytes = 2
          Sizes = {0, 2}
          ChunkBytes = 1
          WireBytes = 3
          MaxPackets = 2
          MaxConnections = 2
          SocketReused = TRUE
SPECIFICATION Spec
INVARIANT Uncorrupted
CHECK_DEADLOCK FALSE
