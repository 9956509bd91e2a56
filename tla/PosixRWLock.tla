----------------------------- MODULE PosixRWLock -----------------------------
(***************************************************************************)
(* rwlock over pthread_rwlock_t (src/dcl/posix/rwlock_impl.cpp) and its    *)
(* guards.  As for the mutex, the try_ methods answer true when the lock   *)
(* is busy and false when they have taken it; callers believe them.        *)
(***************************************************************************)
EXTENDS Naturals, FiniteSets

CONSTANT RWUsers

VARIABLES pRead,    \* the threads that have a read lock
          pWrite,   \* the threads that have the write lock
          reads, writes    \* the threads that believe to be in

prwVars == <<pRead, pWrite, reads, writes>>

PrwInit == pRead = {} /\ pWrite = {} /\ reads = {} /\ writes = {}

CanRead == pWrite = {}
CanWrite == pWrite = {} /\ pRead = {}
Outside(t) == t \notin reads \cup writes \cup pRead \cup pWrite

posix_enter_read(t) ==
  /\ Outside(t) /\ CanRead
  /\ pRead' = pRead \cup {t} /\ reads' = reads \cup {t}
  /\ UNCHANGED <<pWrite, writes>>

posix_enter_write(t) ==
  /\ Outside(t) /\ CanWrite
  /\ pWrite' = {t} /\ writes' = writes \cup {t}
  /\ UNCHANGED <<pRead, reads>>

posix_try_enter_read(t) ==
  /\ Outside(t)
  /\ IF CanRead THEN pRead' = pRead \cup {t} /\ UNCHANGED reads
     ELSE reads' = reads \cup {t} /\ UNCHANGED pRead
  /\ UNCHANGED <<pWrite, writes>>

posix_try_enter_write(t) ==
  /\ Outside(t)
  /\ IF CanWrite THEN pWrite' = {t} /\ UNCHANGED writes
     ELSE writes' = writes \cup {t} /\ UNCHANGED pWrite
  /\ UNCHANGED <<pRead, reads>>

\* pthread_rwlock_unlock releases a writer if there is one, else a reader,
\* whoever calls; without either it does harm that is left out here.
Unlock(t) ==
  IF pWrite # {} THEN pWrite' = {} /\ UNCHANGED pRead
  ELSE /\ pRead # {} /\ UNCHANGED pWrite
       /\ pRead' = pRead \ {IF t \in pRead THEN t ELSE CHOOSE u \in pRead : TRUE}

posix_leave_read(t) ==
  /\ t \in reads /\ reads' = reads \ {t} /\ Unlock(t) /\ UNCHANGED writes
posix_leave_write(t) ==
  /\ t \in writes /\ writes' = writes \ {t} /\ Unlock(t) /\ UNCHANGED reads

PrwNext == \E t \in RWUsers :
  \/ posix_enter_read(t) \/ posix_enter_write(t)
  \/ posix_try_enter_read(t) \/ posix_try_enter_write(t)
  \/ posix_leave_read(t) \/ posix_leave_write(t)

PrwSpec == PrwInit /\ [][PrwNext]_prwVars

-----------------------------------------------------------------------------
\* rwlock.h:55: "used to prevent access of the resource by executing threads in
\* parallel"; a thread that was told it is in as a writer is alone.
PosixWriterAlone == writes # {} => reads = {} /\ Cardinality(writes) = 1
=============================================================================
