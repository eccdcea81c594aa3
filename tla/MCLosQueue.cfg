CONSTANTS
  N = 2
  Boot = 2
  Prio = {0, 1}
  WaitObj <- MCWaitObj
  MaxLock = 0
  Queue = {q1}
  QueueLen = {2}
  Msg = {a, b}
  Sent = {a}
  Mail = {b1, b2}
SPECIFICATION Spec
INVARIANTS
  CountsAgree
  MailInOnePlace
PROPERTIES
  NotDeletedInFlight
  ImplementsMessageQueue
  PoolImplementsSemaphore
  MailGranted
