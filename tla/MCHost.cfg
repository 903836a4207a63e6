\* Three channels and three samples: an update meets the copy of a sample at every
\* place.
SPECIFICATION HostSpec
CONSTANTS
  Callers = {"t1", "t2"}
  Calls <- CallsMade
  Keys <- KeysPressed
  MaxAhead = 2
  N = 3
  MaxSamples = 3
  Responses <- ResponsesMade
  MaxTokens = 4
  Answers = TRUE
  MaxRequests = 2
INVARIANTS SamplesWhole ResponsesAreSent
PROPERTIES TerminalShared CallsReturn
CHECK_DEADLOCK FALSE
