\* The encoder and the I2C of an MXP and a pin of each; the MSP brings its life
\* cycle, so that a call on both can fail at the last.  The output modules of the
\* MXP are also enabled alone, those of the MSP with their connector.
SPECIFICATION ModulesSpec
CONSTANTS
  Subjects = {"board"}
  Connectors = {"mxpA", "mspC"}
  Pins = {11, 14}
  Bits = {5, 7}
  Loose = {"mxpA"}
  Channels = {1, 2, 3}
  Declared <- MCDeclared
  Units = {1, 2}
  Factors = {1, 4}
INVARIANTS
  FpgaAgrees
  OnlyApartDrives
PROPERTIES
  OwnedPinsKeepDirection
