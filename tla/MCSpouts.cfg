CONSTANTS
  Radix = 4
  MaxVarInt = 3
  LastByte = 3
  U32Width = 2
  UsizeWidth = 2
  Hint = 4
  Producers = {1, 2}
  Setups <- MCSetups
  Threshold = 2
  RingCap = 1
  ChannelCap = 1
  MaxReloads = 1
SPECIFICATION Spec
INVARIANTS Delivery FramesStandAlone BatchesAreFull
CHECK_DEADLOCK FALSE
