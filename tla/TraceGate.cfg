CONSTANTS
  Songs = 2
  MinRefills = 2
  MinSwitches = 2
  MaxClipped = 0
  Period = 1
  Most = 3
  PipeLines = 1
SPECIFICATION GateLive
PROPERTIES
  GateSound
  GateEnds
\* The gate has exited.
CHECK_DEADLOCK FALSE
