CONSTANTS
  N = 2
  Boot = 2
  Prio = {0, 1}
  WaitObj <- MCWaitObj
  MaxLock = 1
  Queue = {q1}
  QueueLen = {1}
  Msg = {}
  Sent = {}
  Mail = {b1}
SPECIFICATION Spec
PROPERTIES
  MailGranted
