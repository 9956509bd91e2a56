CONSTANTS
  c1 = c1
  c2 = c2
  f1 = f1
  f2 = f2
  o1 = o1
  o2 = o2
  o3 = o3
  Conns <- TwoConns
  Fds <- TwoFds
  Objs <- ThreeObjs
  Scripts <- Anyhow
  BodySize = 2
  SizeMod = 16
  HandlerMayThrow = TRUE
  PeersMayReset = TRUE
SPECIFICATION Spec
\* all clients may have been served
CHECK_DEADLOCK FALSE
SYMMETRY Symmetry
INVARIANT RequestOwned
PROPERTY KeepsLifecycle
