CONSTANTS
  c1 = c1
  c2 = c2
  w1 = w1
  w2 = w2
  Conns <- OneConn
  Workers <- TwoWorkers
  QueueSize = 1
  MaxInbox = 2
  MaxOut = 1
  MaxStarts = 2
  HandlersMayThrow = TRUE
  CallsMayFail = TRUE
SPECIFICATION FairSpec
\* the server may stay stopped once start() has been called MaxStarts times,
\* or the process die
CHECK_DEADLOCK FALSE
PROPERTIES EventuallyServed StopReturns
