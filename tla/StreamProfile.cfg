CONSTANTS
  Payloads = 4
  Writes = 2
  Frames = 2
  Skip = 1
  Periods = 2
SPECIFICATION ProfileSpec
INVARIANTS
  AppliedInOrder
  StopPlaysAll
  WindowsNormalized
PROPERTIES
  PeriodsWhole
  BoundaryCaught
  AcceptedPlays
  ImplementsPort
\* A session ends.
CHECK_DEADLOCK FALSE
