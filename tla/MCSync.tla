------------------------------- MODULE MCSync -------------------------------
(* Small instances of the read/write locks and of SyncPrimitives.  A       *)
(* behaviour exercises the object in focus; the others rest.               *)
EXTENDS Win32RWLock, SyncPrimitives, PosixRWLock

VARIABLE focus

SyncRunInit ==
  /\ focus \in {"win32rwlock", "posixrwlock", "mutex", "semaphore", "singleton"}
  /\ Init /\ PrwInit
  /\ SyncInit /\ (focus \in {"win32rwlock", "posixrwlock"} => platform = "posix")

SyncRunNext ==
  /\ UNCHANGED focus
  /\ \/ focus = "win32rwlock" /\ Next /\ UNCHANGED <<syncVars, prwVars>>
     \/ focus = "posixrwlock" /\ PrwNext /\ UNCHANGED <<vars, syncVars>>
     \/ focus = "mutex" /\ MutexNext /\ UNCHANGED <<vars, prwVars>>
     \/ focus = "semaphore" /\ SemaphoreNext /\ UNCHANGED <<vars, prwVars>>
     \/ focus = "singleton" /\ SingletonNext /\ UNCHANGED <<vars, prwVars>>

(* At rest nothing that fairness asks for is enabled.                      *)
SyncRunSpec ==
  SyncRunInit /\ [][SyncRunNext]_<<focus, vars, syncVars, prwVars>> /\ Fairness /\ SyncFairness
=============================================================================
