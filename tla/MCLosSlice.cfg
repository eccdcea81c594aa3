CONSTANTS
  N = 2
  Boot = 2
  Prio = {0}
  WaitObj = {}
  MaxLock = 0
SPECIFICATION SliceSpec
PROPERTIES
  SlicesRotate
