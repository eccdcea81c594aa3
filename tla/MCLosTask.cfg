CONSTANTS
  N = 3
  Prio = {0, 1}
  WaitObj = {}
  Boot = 1
  MaxLock = 1
SPECIFICATION TaskSpec
INVARIANTS
  TaskTypeOK
  ReadyQueuesAgree
  SortLinkAgrees
  PoolsAgree
  StatusesAgree
  HighestRuns
  FinishedStackKept
PROPERTIES
  NoSwitchUnderLock
  SuspensionHolds
VIEW
  LiveState
