CONSTANTS
  Threads = {t1, t2, t3}
  MAX_READERS = 2
  RWUsers = {u1, u2, u3}
  Users = {u1, u2, u3}
  Platforms = {"posix", "win32"}
  SemPermits = 2
SPECIFICATION SyncRunSpec
\* a process stopped by SIGSTOP stays stopped
CHECK_DEADLOCK FALSE
INVARIANTS WriterAlone LockInv OneAtATime
PROPERTIES ImplementsLock WriterEnters GateOpensForAll
