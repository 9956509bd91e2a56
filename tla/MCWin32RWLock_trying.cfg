CONSTANTS
  t1 = t1
  t2 = t2
  t3 = t3
  Threads <- ThreeThreads
  MAX_READERS = 2
SPECIFICATION TrySpec
INVARIANT WriterAlone
