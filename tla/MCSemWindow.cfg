CONSTANTS
  N = 2
  Boot = 2
  Prio = {0, 1}
  WaitObj = {s1, m1, e1}
  Sem = {s1}
  MaxCount = {1}
  Mux = {m1}
  MaxNest = 2
  MaxLock = 1
  Event = {e1}
  Bit = {1, 2}
  Requests <- MCRequests
SPECIFICATION SemOnlySpec
INVARIANT
  AssertionsHold
