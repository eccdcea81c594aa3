CONSTANTS
  Task = {t1, t2, t3}
  Fd = {f1, f2}
  Mp = {m1, m2}
  Fs = {s1}
  MountPath <- MCMountPath
  Path <- MCPath
  MaxRefs = 3
  Thread = {t1, t2, t3}
  Name = {a, b}
  QueueIndex = {f1, f2}
  Mqd = {d1, d2, d3}
  Handle = {m1, m2}
SPECIFICATION Spec
SYMMETRY Interchangeable
INVARIANTS
  OpenKeepsMounted
  DescriptorsKeepTheirQueue
PROPERTIES
  FileStaysOpen
