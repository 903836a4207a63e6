\* Two channels of a card without velocities, whose reads and resets fail.  The
\* timestamp of the Sensoray counter does not wrap: five ticks, and counts both
\* ways of zero.
SPECIFICATION LoopSpec
CONSTANTS
  MotorLimiter <- MotorDrive
  AmplifierLimiter <- AmplifierDrive
  TorqueLimit = 3
  Saturated = TRUE
  Patient = TRUE
  MaxTorque = 4
  MaxGap = 2
  MaxRest = 4
  Modes = {"Busy", "Sleep", "Hybrid"}
  Period = 4
  MaxWork = 6
  MaxDelay = 1
  MaxLate = 2
  MaxTicks = 2
  Restarts = 1
  Count = 2
  Factors = {2, 4}
  HasVelocity = FALSE
  Failing = {"read", "other", "reset"}
  Presets = {0}
  MaxTurn = 1
  MaxCount = 4
  Boards = {0, 1}
  BoardFailing <- FailingBoards
  QuadratureFactors = {"X1"}
  Stamps = 8
  MaxTime = 5
  MaxTravel = 3
INVARIANTS NeverTooCool Budget PositionsTrue
PROPERTIES DeadMeansSafe RateIsMotion NeverEarly
CHECK_DEADLOCK FALSE
