\* Modules constructed empty, in order and out of order, with channels that come
\* and go in any order.
SPECIFICATION ModulesSpec
CONSTANTS
  Subjects = {"channels"}
  Channels = {1, 2, 3}
  Declared <- MCDeclared
  Units = {1, 2}
  Factors = {1, 4}
  Connectors = {}
  Pins = {}
  Bits = {}
  Loose = {}
INVARIANTS
  Consistent
PROPERTIES
  ImplementsTable
