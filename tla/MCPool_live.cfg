CONSTANTS
  t1 = t1
  t2 = t2
  t3 = t3
  k1 = k1
  k2 = k2
  Threads <- ThreeThreads
  Keys <- OneKey
  Limited = TRUE
  Limit = 1
  MayReassign = FALSE
  CtorMayThrow = FALSE
SPECIFICATION FairSpec
PROPERTY AcquireCompletes
