CONSTANTS
  Payloads = 5
  Faults = TRUE
SPECIFICATION TickSpec
INVARIANTS
  IInv
  BodyExclusive
  OneCommandInFlight
  RepliesReachTheirReader
  IntactUnlessStranded
  LostNeverSent
PROPERTIES
  AnnouncedDelivered
  ImplementsFifo
  SubmitReturns
  ExitCompletes
\* A session ends; after a refusal the stop exchange may wait for ever.
CHECK_DEADLOCK FALSE
