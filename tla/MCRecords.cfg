SPECIFICATION RecordsSpec
CONSTANTS
  \* of the ring
  Values = {a, b}
  Default = z
  Capacities = {1, 2, 3, 4}
  \* four files of two records; three processes, each of which may die anywhere
  MaxSize = 2
  LastFile = 3
  MaxRecords = 12
  MaxRuns = 3
  MaxDepth = 4
  \* one value has a digit too many for a file
  Names = {"x", "y"}
  Figures = {0, 1234567}
  MaxRows = 3
  MaxCols = 2
  MaxEnds = 2
  \* hosts of different byte order
  Writer = "little"
  Reader = "big"
  Payloads <- TypedValues
  Old = Old
  Junk = Junk
  MaxWrites = 2
  MaxReads = 3
INVARIANTS NewestKept TablesReadBack
PROPERTIES RoundTrip ImplementsDeque
