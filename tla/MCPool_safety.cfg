CONSTANTS
  t1 = t1
  t2 = t2
  t3 = t3
  k1 = k1
  k2 = k2
  Threads <- TwoThreads
  Keys <- TwoKeys
  Limited = TRUE
  Limit = 2
  MayReassign = TRUE
  CtorMayThrow = TRUE
SPECIFICATION Spec
SYMMETRY Symmetry
\* every permit can be leaked by constructors that throw
CHECK_DEADLOCK FALSE
INVARIANTS PoolInv PermitsAccounted LimitRespected CountsTrue
PROPERTY KeyStable
