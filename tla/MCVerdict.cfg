CONSTANTS
  Radix = 4
  MaxVarInt = 3
  LastByte = 3
  U32Width = 2
  UsizeWidth = 2
  Hint = 4
  Attempts = {0, 1, 3}
  FrameLimits = {0, 2}
  Base = 2
  Cap = 3
  MaxShift = 5
  MaxDuration = 50
  MaxContexts = 2
  MaxHops = 1
SPECIFICATION Spec
INVARIANTS FramesAccounted RetryIsHonest
CHECK_DEADLOCK FALSE
