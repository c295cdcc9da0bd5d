CONSTANTS
  Payloads = 5
  Faults = FALSE
SPECIFICATION Spec
PROPERTY
  WaitDeliversAll
CHECK_DEADLOCK FALSE
