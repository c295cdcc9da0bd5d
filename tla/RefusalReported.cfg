CONSTANTS
  Songs = 1
  MinRefills = 1
  MinSwitches = 2
  MaxClipped = 0
  Period = 1
  Most = 3
  PipeLines = 1
SPECIFICATION GateSpec
INVARIANT ErrorsFail
CHECK_DEADLOCK FALSE
