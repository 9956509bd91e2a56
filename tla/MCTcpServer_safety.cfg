CONSTANTS
  c1 = c1
  c2 = c2
  w1 = w1
  w2 = w2
  Conns <- TwoConns
  Workers <- TwoWorkers
  QueueSize = 0
  MaxInbox = 1
  MaxOut = 1
  MaxStarts = 2
  HandlersMayThrow = TRUE
  CallsMayFail = TRUE
SPECIFICATION Spec
\* the server may stay stopped once start() has been called MaxStarts times,
\* or die of an exception, or in stop() after a start() that failed
CHECK_DEADLOCK FALSE
SYMMETRY Symmetry
INVARIANTS ServerInv StoppedMeansQuiet
PROPERTIES FlushedBeforeDisconnect ImplementsLifecycle
