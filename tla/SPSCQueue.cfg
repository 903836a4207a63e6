\* Four slots of which three are used: the ring wraps at every position. Two
\* items tell an order from another.
CONSTANTS Items = {a, b}
          Capacity = 4
          None = None
SPECIFICATION FairSpec
INVARIANTS SlotsExclusive
PROPERTIES ImplementsFifo NothingWaits
