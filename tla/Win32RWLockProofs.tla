-------------------------- MODULE Win32RWLockProofs --------------------------
(***************************************************************************)
(* Proofs about Win32RWLock, for every finite set of threads and every     *)
(* number of permits.                                                      *)
(***************************************************************************)
EXTENDS Win32RWLock, FiniteSetTheorems, TLAPS

(* The sets of threads are finite.                                         *)
LEMMA Sizes ==
  /\ IsFiniteSet(Readers) /\ Cardinality(Readers) \in Nat
  /\ IsFiniteSet(Writers) /\ Cardinality(Writers) \in Nat
  /\ (Cardinality(Readers) = 0 <=> Readers = {})
  /\ (Cardinality(Writers) = 0 <=> Writers = {})
  <1>1. Readers \subseteq Threads /\ Writers \subseteq Threads
    BY DEF Readers, Writers
  <1>2. IsFiniteSet(Readers) /\ IsFiniteSet(Writers)
    BY <1>1, FS_Subset, Win32RWLockAssumption
  <1>. QED
    BY <1>2, FS_CardinalityType, FS_EmptySet

(* One thread more.                                                        *)
LEMMA OneMore ==
  ASSUME NEW S, IsFiniteSet(S), NEW t, t \notin S
  PROVE  Cardinality(S \cup {t}) = Cardinality(S) + 1
  BY FS_AddElement

(* One thread less.                                                        *)
LEMMA OneLess ==
  ASSUME NEW S, IsFiniteSet(S), NEW t, t \in S
  PROVE  Cardinality(S \ {t}) = Cardinality(S) - 1
  BY FS_RemoveElement

(* A writer has all the permits.                                           *)
LEMMA WriterHasAll ==
  ASSUME LockInv
  PROVE  /\ Writers # {} => sem = 0 /\ Readers = {} /\ i = 0
                            /\ Cardinality(Writers) = 1
         /\ i = MAX_READERS => sem = 0 /\ Readers = {} /\ Writers = {}
  <1>. DEFINE r == Cardinality(Readers)
              w == Cardinality(Writers)
  <1>1. /\ r \in Nat /\ w \in Nat /\ sem \in Nat /\ i \in Nat
        /\ MAX_READERS \in Nat /\ MAX_READERS > 0
        /\ sem + r + i + MAX_READERS * w = MAX_READERS
    BY Sizes, Win32RWLockAssumption DEF LockInv, TypeOK, PermitsConserved
  <1>2. w = 0 \/ w = 1
    <2>. SUFFICES ASSUME w >= 2 PROVE FALSE
      BY <1>1
    <2>1. w - 2 \in Nat /\ w = (w - 2) + 2
      BY <1>1
    <2>2. PICK k \in Nat : w = k + 2
      BY <2>1
    <2>3. MAX_READERS * w = MAX_READERS * k + 2 * MAX_READERS
      BY <2>2, <1>1
    <2>4. MAX_READERS * k \in Nat
      BY <1>1
    <2>. QED
      BY <2>3, <2>4, <1>1
  <1>3. MAX_READERS * 0 = 0 /\ MAX_READERS * 1 = MAX_READERS
    BY <1>1
  <1>4. w = 1 => sem = 0 /\ r = 0 /\ i = 0
    BY <1>1, <1>3
  <1>5. w = 0 => sem + r + i = MAX_READERS
    BY <1>1, <1>3
  <1>6. i = MAX_READERS => sem = 0 /\ r = 0 /\ w = 0
    <2>1. CASE w = 0
      <3>. HIDE DEF r, w
      <3>1. sem \in Nat /\ r \in Nat /\ i \in Nat /\ sem + r + i = MAX_READERS
        BY <1>1, <1>5, <2>1
      <3>. QED BY <3>1, <2>1
    <2>2. CASE w = 1
      <3>. HIDE DEF r, w
      <3>. QED BY <1>1, <1>4, <2>2
    <2>. QED BY <1>2, <2>1, <2>2
  <1>. QED
    BY <1>2, <1>4, <1>6, Sizes

(* The initial state.                                                      *)
LEMMA InitLock == Init => LockInv
  <1>. SUFFICES ASSUME Init PROVE LockInv
    OBVIOUS
  <1>1. Readers = {} /\ Writers = {} /\ Collectors = {}
    BY DEF Init, Readers, Writers, Collectors
  <1>2. Cardinality({}) = 0
    BY FS_EmptySet
  <1>3. TypeOK
    BY Win32RWLockAssumption DEF Init, TypeOK
  <1>4. OneCollector
    BY <1>1, <1>2 DEF Init, OneCollector
  <1>5. PermitsConserved
    BY <1>1, <1>2, Win32RWLockAssumption DEF Init, PermitsConserved
  <1>. QED
    BY <1>3, <1>4, <1>5 DEF LockInv

(* Every step keeps the invariant.                                         *)
LEMMA NextLock == LockInv /\ [Next]_vars => LockInv'
  <1>. SUFFICES ASSUME LockInv, [Next]_vars PROVE LockInv'
    OBVIOUS
  <1>. USE DEF LockInv
  <1>m. /\ MAX_READERS \in Nat /\ MAX_READERS > 0 /\ sem \in Nat /\ i \in Nat
        /\ depth \in Nat
        /\ Cardinality(Readers) \in Nat /\ Cardinality(Writers) \in Nat
        /\ IsFiniteSet(Readers) /\ IsFiniteSet(Writers)
        /\ MAX_READERS * Cardinality(Writers) \in Nat
    BY Sizes, Win32RWLockAssumption DEF TypeOK
  <1>c. Cardinality({}) = 0 /\ \A t : Cardinality({t}) = 1
    BY FS_EmptySet, FS_Singleton
  <1>1. ASSUME NEW t \in Threads, enter_read(t) PROVE LockInv'
    <2>1. t \notin Readers /\ t \notin Writers /\ t \notin Collectors
      BY <1>1 DEF enter_read, Readers, Writers, Collectors
    <2>2. /\ Readers' = Readers \cup {t} /\ Writers' = Writers
          /\ Collectors' = Collectors
          /\ pc' \in [Threads -> {"idle", "reading", "collect", "writing"}]
      BY <1>1, <2>1 DEF enter_read, TypeOK, Readers, Writers, Collectors
    <2>3. Cardinality(Readers') = Cardinality(Readers) + 1
      BY <2>1, <2>2, <1>m, OneMore
    <2>4. TypeOK'
      BY <1>1, <1>m, <2>2 DEF enter_read, TypeOK
    <2>5. OneCollector'
      BY <1>1, <2>2 DEF enter_read, OneCollector
    <2>6. PermitsConserved'
      BY <1>1, <1>m, <2>2, <2>3 DEF enter_read, PermitsConserved
    <2>. QED BY <2>4, <2>5, <2>6
  <1>2. ASSUME NEW t \in Threads, leave_read(t) PROVE LockInv'
    <2>1. t \in Readers /\ t \notin Writers /\ t \notin Collectors
      BY <1>2 DEF leave_read, Readers, Writers, Collectors
    <2>2. /\ Readers' = Readers \ {t} /\ Writers' = Writers
          /\ Collectors' = Collectors
          /\ pc' \in [Threads -> {"idle", "reading", "collect", "writing"}]
      BY <1>2, <2>1 DEF leave_read, TypeOK, Readers, Writers, Collectors
    <2>3. Cardinality(Readers') = Cardinality(Readers) - 1
      BY <2>1, <2>2, <1>m, OneLess
    <2>4. Cardinality(Readers) # 0
      BY <2>1, Sizes
    <2>5. sem' = sem + 1 /\ sem + 1 <= MAX_READERS
      <3>. DEFINE r == Cardinality(Readers)
                  w == MAX_READERS * Cardinality(Writers)
      <3>1. r \in Nat /\ r # 0 /\ w \in Nat /\ sem + r + i + w = MAX_READERS
        BY <1>m, <2>4 DEF PermitsConserved
      <3>. HIDE DEF r, w
      <3>2. sem + 1 <= MAX_READERS
        BY <1>m, <3>1
      <3>. QED BY <1>2, <1>m, <3>2 DEF leave_read, ReleaseSemaphore
    <2>6. TypeOK'
      BY <1>2, <1>m, <2>2, <2>5 DEF leave_read, TypeOK
    <2>7. OneCollector'
      BY <1>2, <2>2 DEF leave_read, OneCollector
    <2>8. PermitsConserved'
      BY <1>2, <1>m, <2>2, <2>3, <2>5 DEF leave_read, PermitsConserved
    <2>. QED BY <2>6, <2>7, <2>8
  <1>3. ASSUME NEW t \in Threads, WriteLock(t) PROVE LockInv'
    <2>1. t \notin Readers /\ t \notin Writers /\ t \notin Collectors
      BY <1>3 DEF WriteLock, Readers, Writers, Collectors
    <2>2. owner = None
      BY <1>3, <2>1 DEF WriteLock, OneCollector
    <2>3. Collectors = {} /\ depth = 0 /\ i = 0
      BY <2>2, <1>c DEF OneCollector
    <2>4. /\ Readers' = Readers /\ Writers' = Writers
          /\ Collectors' = {t}
          /\ pc' \in [Threads -> {"idle", "reading", "collect", "writing"}]
      BY <1>3, <2>1, <2>3 DEF WriteLock, TypeOK, Readers, Writers, Collectors
    <2>5. t # None
      BY Win32RWLockAssumption
    <2>6. TypeOK'
      BY <1>3, <1>m, <2>4 DEF WriteLock, TypeOK
    <2>7. OneCollector'
      <3>1. depth' = 1 /\ owner' = t
        BY <1>3, <2>3 DEF WriteLock
      <3>2. Cardinality(Collectors') = 1 /\ Collectors' # {}
        BY <1>c, <2>4
      <3>. QED BY <3>1, <3>2, <2>4, <2>5 DEF OneCollector
    <2>8. PermitsConserved'
      BY <1>3, <2>3, <2>4 DEF WriteLock, PermitsConserved
    <2>. QED BY <2>6, <2>7, <2>8
  <1>4. ASSUME NEW t \in Threads, WriteCollect(t) PROVE LockInv'
    <2>1. t \in Collectors
      BY <1>4 DEF WriteCollect, Collectors
    <2>2. Readers' = Readers /\ Writers' = Writers /\ Collectors' = Collectors
      BY <1>4 DEF WriteCollect, Readers, Writers, Collectors
    <2>3. TypeOK'
      BY <1>4, <1>m DEF WriteCollect, TypeOK
    <2>4. OneCollector'
      BY <1>4, <2>1, <2>2 DEF WriteCollect, OneCollector
    <2>5. PermitsConserved'
      BY <1>4, <1>m, <2>2 DEF WriteCollect, PermitsConserved
    <2>. QED BY <2>3, <2>4, <2>5
  <1>5. ASSUME NEW t \in Threads, WriteEnter(t) PROVE LockInv'
    <2>1. t \in Collectors /\ t \notin Readers /\ t \notin Writers
      BY <1>5 DEF WriteEnter, Collectors, Readers, Writers
    <2>2. Collectors = {t} /\ depth = 1
      BY <2>1, <1>c DEF OneCollector
    <2>3. /\ Readers' = Readers /\ Writers' = Writers \cup {t}
          /\ Collectors' = {}
          /\ pc' \in [Threads -> {"idle", "reading", "collect", "writing"}]
      BY <1>5, <2>1, <2>2 DEF WriteEnter, TypeOK, Readers, Writers, Collectors
    <2>4. Writers = {} /\ sem = 0 /\ Cardinality(Readers) = 0
      BY <1>5, WriterHasAll, Sizes DEF WriteEnter
    <2>5. Cardinality(Writers') = 1
      BY <2>3, <2>4, <1>c
    <2>6. TypeOK'
      BY <1>5, <1>m, <2>2, <2>3 DEF WriteEnter, TypeOK
    <2>7. OneCollector'
      BY <1>5, <1>c, <2>2, <2>3 DEF WriteEnter, OneCollector
    <2>8. PermitsConserved'
      BY <1>5, <1>m, <2>3, <2>4, <2>5 DEF WriteEnter, PermitsConserved
    <2>. QED BY <2>6, <2>7, <2>8
  <1>6. ASSUME NEW t \in Threads, leave_write(t) PROVE LockInv'
    <2>1. t \in Writers /\ t \notin Readers /\ t \notin Collectors
      BY <1>6 DEF leave_write, Collectors, Readers, Writers
    <2>2. sem = 0 /\ Readers = {} /\ i = 0 /\ Cardinality(Writers) = 1
      BY <2>1, WriterHasAll
    <2>3. /\ Readers' = Readers /\ Writers' = Writers \ {t}
          /\ Collectors' = Collectors
          /\ pc' \in [Threads -> {"idle", "reading", "collect", "writing"}]
      BY <1>6, <2>1 DEF leave_write, TypeOK, Readers, Writers, Collectors
    <2>4. Cardinality(Writers') = 0
      BY <2>1, <2>2, <2>3, <1>m, OneLess
    <2>5. sem' = MAX_READERS
      BY <1>6, <1>m, <2>2 DEF leave_write, ReleaseSemaphore
    <2>6. TypeOK'
      BY <1>6, <1>m, <2>3, <2>5 DEF leave_write, TypeOK
    <2>7. OneCollector'
      BY <1>6, <2>3 DEF leave_write, OneCollector
    <2>8. Cardinality(Readers') = 0
      BY <2>2, <2>3, <1>c
    <2>9. PermitsConserved'
      BY <1>6, <1>m, <2>2, <2>4, <2>5, <2>8 DEF leave_write, PermitsConserved
    <2>. QED BY <2>6, <2>7, <2>9
  <1>7. CASE UNCHANGED vars
    BY <1>7 DEF vars, TypeOK, OneCollector, PermitsConserved, Readers, Writers,
                Collectors
  <1>. QED
    BY <1>1, <1>2, <1>3, <1>4, <1>5, <1>6, <1>7 DEF Next, Step

(* The lock keeps its invariant: types, one collector, permits conserved.  *)
THEOREM LockSafe == Spec => []LockInv
  BY InitLock, NextLock, PTL DEF Spec

(* enter_write() keeps what rwlock.h promises: a writer is alone, however  *)
(* many threads and permits there are.                                     *)
THEOREM WriterIsAlone == Spec => []WriterAlone
  <1>1. LockInv => WriterAlone
    <2>. SUFFICES ASSUME LockInv, NEW t \in Writers
                  PROVE  Readers = {} /\ Writers = {t}
      BY DEF WriterAlone
    <2>1. Readers = {} /\ Cardinality(Writers) = 1
      BY WriterHasAll
    <2>2. Cardinality(Writers \ {t}) = 0 /\ IsFiniteSet(Writers \ {t})
      BY <2>1, Sizes, OneLess, FS_RemoveElement
    <2>3. Writers \ {t} = {}
      BY <2>2, FS_EmptySet
    <2>. QED BY <2>1, <2>3
  <1>. QED
    BY <1>1, LockSafe, PTL

(* The semaphore and the mutex implement the abstract lock.                *)
THEOREM LockRefines == Spec => ImplementsLock
  <1>1. Init => Abstract!LockInit
    BY DEF Init, Abstract!LockInit, Readers, Writers
  <1>2. LockInv /\ [Next]_vars => [Abstract!LockNext]_(Abstract!lockVars)
    <2>. SUFFICES ASSUME LockInv, [Next]_vars
                  PROVE  [Abstract!LockNext]_(Abstract!lockVars)
      OBVIOUS
    <2>t. TypeOK
      BY DEF LockInv
    <2>. USE DEF Abstract!LockNext, Abstract!lockVars
    <2>1. ASSUME NEW t \in Threads, enter_read(t) PROVE Abstract!BeginRead(t)
      <3>1. t \notin Readers /\ t \notin Writers
        BY <2>1 DEF enter_read, Readers, Writers
      <3>2. Readers' = Readers \cup {t} /\ Writers' = Writers
        BY <2>1, <2>t, <3>1 DEF enter_read, TypeOK, Readers, Writers, Collectors
      <3>3. Writers = {}
        BY <2>1, WriterHasAll, Win32RWLockAssumption DEF enter_read
      <3>. QED BY <3>1, <3>2, <3>3 DEF Abstract!BeginRead
    <2>2. ASSUME NEW t \in Threads, leave_read(t) PROVE Abstract!EndRead(t)
      <3>1. t \in Readers /\ t \notin Writers
        BY <2>2 DEF leave_read, Readers, Writers
      <3>2. Readers' = Readers \ {t} /\ Writers' = Writers
        BY <2>2, <2>t, <3>1 DEF leave_read, TypeOK, Readers, Writers, Collectors
      <3>. QED BY <3>1, <3>2 DEF Abstract!EndRead
    <2>3. ASSUME NEW t \in Threads, WriteLock(t)
          PROVE  Readers' = Readers /\ Writers' = Writers
      <3>1. t \notin Readers /\ t \notin Writers
        BY <2>3 DEF WriteLock, Readers, Writers
      <3>. QED BY <2>3, <2>t, <3>1 DEF WriteLock, TypeOK, Readers, Writers, Collectors
    <2>4. ASSUME NEW t \in Threads, WriteCollect(t)
          PROVE  Readers' = Readers /\ Writers' = Writers
      BY <2>4 DEF WriteCollect, Readers, Writers
    <2>5. ASSUME NEW t \in Threads, WriteEnter(t) PROVE Abstract!BeginWrite(t)
      <3>1. t \notin Readers /\ t \notin Writers
        BY <2>5 DEF WriteEnter, Readers, Writers
      <3>2. Readers = {} /\ Writers = {}
        BY <2>5, WriterHasAll DEF WriteEnter
      <3>3. Readers' = Readers /\ Writers' = {t}
        BY <2>5, <2>t, <3>1, <3>2 DEF WriteEnter, TypeOK, Readers, Writers, Collectors
      <3>. QED BY <3>2, <3>3 DEF Abstract!BeginWrite
    <2>6. ASSUME NEW t \in Threads, leave_write(t) PROVE Abstract!EndWrite(t)
      <3>1. t \in Writers /\ t \notin Readers
        BY <2>6 DEF leave_write, Readers, Writers
      <3>2. Writers' = Writers \ {t} /\ Readers' = Readers
        BY <2>6, <2>t, <3>1 DEF leave_write, TypeOK, Readers, Writers, Collectors
      <3>. QED BY <3>1, <3>2 DEF Abstract!EndWrite
    <2>7. CASE UNCHANGED vars
      BY <2>7 DEF vars, Readers, Writers
    <2>. QED
      BY <2>1, <2>2, <2>3, <2>4, <2>5, <2>6, <2>7 DEF Next, Step
  <1>. QED
    BY <1>1, <1>2, LockSafe, PTL DEF Spec, ImplementsLock, Abstract!LockSpec

=============================================================================
