CONSTANTS
  N = 3
  Boot = 3
  Prio = {0, 1, 2}
  WaitObj = {s1, m1, e1}
  Sem = {s1}
  MaxCount = {1}
  Mux = {m1}
  MaxNest = 2
  MaxLock = 0
  Event = {e1}
  Bit = {1, 2}
  Requests <- MCRequests
SPECIFICATION MuxOnlySpec
INVARIANT
  PriorityInheritance
