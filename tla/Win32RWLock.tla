----------------------------- MODULE Win32RWLock -----------------------------
(***************************************************************************)
(* The Win32 implementation of rwlock (src/dcl/win32/rwlock_impl.cpp): a   *)
(* semaphore of MAX_READERS permits, of which a reader takes one and a     *)
(* writer all, one by one, and a mutex that keeps two writers from         *)
(* collecting at the same time.                                            *)
(*                                                                         *)
(* A Win32 mutex belongs to a thread and may be taken by it again; here it *)
(* is its owner and the number of times it was taken.  ReleaseSemaphore    *)
(* changes nothing when the count would exceed its maximum.                *)
(***************************************************************************)
EXTENDS Naturals, FiniteSets

CONSTANTS
  Threads,      \* the threads that share the lock
  MAX_READERS   \* permits of the semaphore

None == "none"   \* no thread

ASSUME Win32RWLockAssumption ==
  /\ IsFiniteSet(Threads) /\ None \notin Threads
  /\ MAX_READERS \in Nat \ {0}

VARIABLES
  sem,      \* the count of _sem
  owner,    \* the thread that has _mutex
  depth,    \* how often it has taken it
  i,        \* the loop counter of the thread in enter_write()
  pc        \* where each thread is

vars == <<sem, owner, depth, i, pc>>

Init ==
  /\ sem = MAX_READERS
  /\ owner = None /\ depth = 0
  /\ i = 0
  /\ pc = [t \in Threads |-> "idle"]

(* ReleaseSemaphore(_sem, n, NULL).                                        *)
ReleaseSemaphore(n) == sem' = IF sem + n <= MAX_READERS THEN sem + n ELSE sem

(* Definitions named Fault_... are mutations of the definition that follows *)
(* them; no specification uses them.                                       *)

enter_read(t) ==
  /\ pc[t] = "idle"
  /\ sem > 0
  /\ sem' = sem - 1
  /\ pc' = [pc EXCEPT ![t] = "reading"]
  /\ UNCHANGED <<owner, depth, i>>

(* Fault: the permit is not given back. *)
Fault_leave_read(t) ==
  /\ pc[t] = "reading"
  /\ pc' = [pc EXCEPT ![t] = "idle"]
  /\ UNCHANGED <<sem, owner, depth, i>>

leave_read(t) ==
  /\ pc[t] = "reading"
  /\ ReleaseSemaphore(1)
  /\ pc' = [pc EXCEPT ![t] = "idle"]
  /\ UNCHANGED <<owner, depth, i>>

(* Fault: the mutex is not waited for. *)
Fault_WriteLock(t) ==
  /\ pc[t] = "idle"
  /\ owner' = t /\ depth' = depth + 1
  /\ i' = 0
  /\ pc' = [pc EXCEPT ![t] = "collect"]
  /\ UNCHANGED sem

(* enter_write(), the mutex.                                               *)
WriteLock(t) ==
  /\ pc[t] = "idle"
  /\ owner \in {None, t}
  /\ owner' = t /\ depth' = depth + 1
  /\ i' = 0
  /\ pc' = [pc EXCEPT ![t] = "collect"]
  /\ UNCHANGED sem

(* enter_write(), one round of the loop.                                   *)
WriteCollect(t) ==
  /\ pc[t] = "collect"
  /\ i < MAX_READERS
  /\ sem > 0
  /\ sem' = sem - 1
  /\ i' = i + 1
  /\ UNCHANGED <<owner, depth, pc>>

(* Fault: one permit less than there are is collected. *)
Fault_WriteEnter(t) ==
  /\ pc[t] = "collect"
  /\ i = MAX_READERS - 1
  /\ i' = 0
  /\ depth' = depth - 1
  /\ owner' = IF depth = 1 THEN None ELSE owner
  /\ pc' = [pc EXCEPT ![t] = "writing"]
  /\ UNCHANGED sem

(* enter_write(), the end: the mutex is released.                          *)
WriteEnter(t) ==
  /\ pc[t] = "collect"
  /\ i = MAX_READERS
  /\ i' = 0
  /\ depth' = depth - 1
  /\ owner' = IF depth = 1 THEN None ELSE owner
  /\ pc' = [pc EXCEPT ![t] = "writing"]
  /\ UNCHANGED sem

leave_write(t) ==
  /\ pc[t] = "writing"
  /\ ReleaseSemaphore(MAX_READERS)
  /\ pc' = [pc EXCEPT ![t] = "idle"]
  /\ UNCHANGED <<owner, depth, i>>

(* try_enter_write(): the mutex is taken and stays taken; one permit makes *)
(* a writer.                                                               *)
try_enter_write(t) ==
  /\ pc[t] = "idle"
  /\ owner \in {None, t} /\ depth < 2   \* bound: depth is never decreased
  /\ owner' = t /\ depth' = depth + 1
  /\ IF sem > 0 THEN sem' = sem - 1 /\ pc' = [pc EXCEPT ![t] = "writing"]
                ELSE UNCHANGED <<sem, pc>>
  /\ UNCHANGED i

Step(t) ==
  \/ enter_read(t) \/ leave_read(t)
  \/ WriteLock(t) \/ WriteCollect(t) \/ WriteEnter(t) \/ leave_write(t)

Next == \E t \in Threads : Step(t)

Spec == Init /\ [][Next]_vars

(* The same with threads that call try_enter_write(), too; try_enter_read() *)
(* is enter_read() or nothing.                                             *)
TryNext == Next \/ \E t \in Threads : try_enter_write(t)

TrySpec == Init /\ [][TryNext]_vars

(* A thread leaves the area it has entered, and a thread that waits for    *)
(* the mutex or a permit is not passed over for ever.  Nothing says that a *)
(* thread enters.                                                          *)
Fairness ==
  \A t \in Threads :
    /\ WF_vars(leave_read(t)) /\ WF_vars(leave_write(t))
    /\ SF_vars(WriteCollect(t)) /\ WF_vars(WriteEnter(t))

FairSpec == Spec /\ Fairness

-----------------------------------------------------------------------------
Readers    == {t \in Threads : pc[t] = "reading"}
Writers    == {t \in Threads : pc[t] = "writing"}
Collectors == {t \in Threads : pc[t] = "collect"}

(* The values the variables take.                                          *)
TypeOK ==
  /\ sem \in 0..MAX_READERS
  /\ owner \in Threads \cup {None} /\ depth \in Nat
  /\ i \in 0..MAX_READERS
  /\ pc \in [Threads -> {"idle", "reading", "collect", "writing"}]

(* rwlock.h:107, "blocks all reader and writer threads": a writer is alone. *)
WriterAlone ==
  \A t \in Writers : Readers = {} /\ Writers = {t}

(* Every permit is in the semaphore, with a reader, with the thread that   *)
(* collects, or with a writer; so none is ever lost.                       *)
PermitsConserved ==
  sem + Cardinality(Readers) + i + MAX_READERS * Cardinality(Writers) = MAX_READERS

(* Only the owner of the mutex collects, and it is taken only for that.    *)
OneCollector ==
  /\ Collectors = IF owner = None THEN {} ELSE {owner}
  /\ depth = Cardinality(Collectors)
  /\ Collectors = {} => i = 0

(* The inductive invariant.                                                *)
LockInv == TypeOK /\ OneCollector /\ PermitsConserved

Abstract == INSTANCE ReadWriteLock WITH readers <- Readers, writers <- Writers

(* The lock implements ReadWriteLock.                                      *)
ImplementsLock == Abstract!LockSpec

(* A writer that has begun to collect permits gets them all: readers that  *)
(* come and go do not keep it out, and two writers do not block each other. *)
WriterEnters ==
  \A t \in Threads : pc[t] = "collect" ~> pc[t] = "writing"

=============================================================================
