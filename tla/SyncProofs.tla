----------------------------- MODULE SyncProofs -----------------------------
(***************************************************************************)
(* Proofs about SyncPrimitives, for every set of threads                   *)
(* and every number of permits, on both platforms.                         *)
(***************************************************************************)
EXTENDS SyncPrimitives, FiniteSetTheorems, TLAPS

(* Every call keeps the values the objects can have.                       *)
LEMMA SyncTypesKept ==
  ASSUME SyncTypes, NEW t \in Users, Uses(t) \/ Wakes(t) \/ raise(t) \/ Controls(t)
  PROVE  SyncTypes'
  <1>f. Free \in [owner : Users \cup {Nobody}, depth : Nat, abandoned : BOOLEAN]
    BY DEF Free
  <1>1. CASE UsesMutex(t)
    <2>. USE DEF mutexVars, eventVars, semVars, singVars, Go, SyncTypes
    <2>1. CASE enter(t)
      BY <2>1 DEF enter
    <2>2. CASE reenter(t)
      BY <2>2 DEF reenter
    <2>3. CASE posix_try_enter(t)
      <3>1. mx' = [mx EXCEPT !.owner = t, !.depth = 1] \/ mx' = mx
        BY <2>3 DEF posix_try_enter
      <3>2. where' = [where EXCEPT ![t] = "tried"] \/ where' = where
        BY <2>3 DEF posix_try_enter
      <3>m. [mx EXCEPT !.owner = t, !.depth = 1]
              \in [owner : Users \cup {Nobody}, depth : Nat, abandoned : BOOLEAN]
        OBVIOUS
      <3>3. mx' \in [owner : Users \cup {Nobody}, depth : Nat, abandoned : BOOLEAN]
        BY <3>1, <3>m
      <3>4. where' \in [Users -> {"out", "in", "stuck", "tried", "falls", "waits", "woken"}]
        BY <3>2
      <3>5. misled' \in BOOLEAN /\ UNCHANGED <<life, count, has, cs, instance, made, sing, ref>>
        BY <2>3 DEF posix_try_enter
      <3>. QED BY <3>3, <3>4, <3>5
    <2>4. CASE win32_try_enter(t)
      <3>1. \/ mx' = [owner |-> t, depth |-> mx.depth + 1, abandoned |-> FALSE]
            \/ mx' = mx
        BY <2>4 DEF win32_try_enter
      <3>2. where' = [where EXCEPT ![t] = "in"] \/ where' = where
        BY <2>4 DEF win32_try_enter
      <3>m. [owner |-> t, depth |-> mx.depth + 1, abandoned |-> FALSE]
              \in [owner : Users \cup {Nobody}, depth : Nat, abandoned : BOOLEAN]
        OBVIOUS
      <3>3. mx' \in [owner : Users \cup {Nobody}, depth : Nat, abandoned : BOOLEAN]
        BY <3>1, <3>m
      <3>4. where' \in [Users -> {"out", "in", "stuck", "tried", "falls", "waits", "woken"}]
        BY <3>2
      <3>5. misled' \in BOOLEAN /\ UNCHANGED <<life, count, has, cs, instance, made, sing, ref>>
        BY <2>4 DEF win32_try_enter
      <3>. QED BY <3>3, <3>4, <3>5
    <2>5. CASE leave(t)
      <3>. DEFINE d == IF Posix THEN 0 ELSE mx.depth - 1
      <3>1. mx' \in {Free, [mx EXCEPT !.depth = d]} /\ (d <= 0 => mx' = Free) /\ d \in Int
        BY <2>5 DEF leave
      <3>2. mx' \in [owner : Users \cup {Nobody}, depth : Nat, abandoned : BOOLEAN]
        BY <1>f, <3>1
      <3>. QED BY <2>5, <3>2 DEF leave
    <2>6. CASE wait(t)
      BY <1>f, <2>6 DEF wait
    <2>7. CASE spurious_wakeup(t)
      BY <2>7 DEF spurious_wakeup
    <2>8. CASE open_gate(t)
      BY <2>8 DEF open_gate
    <2>. QED BY <1>1, <2>1, <2>2, <2>3, <2>4, <2>5, <2>6, <2>7, <2>8 DEF UsesMutex
  <1>2. CASE UsesSemaphore(t)
    <2>. USE DEF mutexVars, eventVars, singVars, SyncTypes
    <2>1. CASE lock(t)
      BY <2>1 DEF lock
    <2>2. CASE trylock(t)
      BY <2>2 DEF trylock
    <2>3. CASE unlock(t)
      BY <2>3 DEF unlock
    <2>. QED BY <1>2, <2>1, <2>2, <2>3 DEF UsesSemaphore
  <1>3. CASE UsesSingleton(t)
    <2>. USE DEF mutexVars, eventVars, semVars, SyncTypes, Sing, Give
    <2>1. CASE instance_check(t)
      BY <2>1 DEF instance_check
    <2>2. CASE instance_lock(t)
      BY <2>2 DEF instance_lock
    <2>3. CASE instance_make(t)
      BY <2>3 DEF instance_make
    <2>4. CASE instance_set(t)
      BY <2>4 DEF instance_set
    <2>. QED BY <1>3, <2>1, <2>2, <2>3, <2>4 DEF UsesSingleton
  <1>4. CASE Wakes(t) \/ raise(t)
    <2>. USE DEF mutexVars, eventVars, semVars, singVars, Go, Live, SyncTypes
    <2>1. CASE falls_asleep(t)
      BY <2>1 DEF falls_asleep
    <2>2. CASE wait_returns(t)
      BY <2>2 DEF wait_returns
    <2>3. CASE cancelled(t)
      BY <2>3 DEF cancelled
    <2>4. CASE raise(t)
      BY <2>4 DEF raise
    <2>. QED BY <1>4, <2>1, <2>2, <2>3, <2>4 DEF Wakes
  <1>5. CASE Controls(t)
    <2>. USE DEF mutexVars, eventVars, semVars, singVars, Go, Live, SyncTypes
    <2>1. CASE start(t)
      BY <2>1 DEF start
    <2>2. CASE execute(t)
      BY <2>2 DEF execute
    <2>3. CASE stop(t)
      BY <1>f, <2>3 DEF stop
    <2>4. CASE pause(t) \/ resume(t) \/ wait_for(t)
      BY <2>4 DEF pause, resume, wait_for
    <2>. QED BY <1>5, <2>1, <2>2, <2>3, <2>4 DEF Controls
  <1>. QED BY <1>1, <1>2, <1>3, <1>4, <1>5 DEF Uses

-----------------------------------------------------------------------------
(* A step that leaves the mutex and the threads' places alone, ends no     *)
(* thread that is not outside, and takes no lie back.                      *)
LEMMA MutexRests ==
  ASSUME MutexHeld, UNCHANGED <<mx, where>>, misled => misled',
         \A u \in Users : life'[u] \in {"ended", "joined"}
            => life[u] \in {"ended", "joined"} \/ where[u] = "out"
  PROVE  MutexHeld'
  BY DEF MutexHeld

(* A step of t that moves only t, and after which the mutex is t's exactly *)
(* when t is in or stuck.                                                  *)
LEMMA MutexMoves ==
  ASSUME SyncTypes, MutexHeld, NEW t \in Users, NEW w, Go(t, w),
         life' = life, life[t] \notin {"ended", "joined"}, misled => misled',
         mx'.owner \in {t, Nobody}, mx'.owner = Nobody => mx'.depth = 0,
         ~misled' => /\ mx.owner \in {t, Nobody}
                     /\ mx'.owner = t <=> w \in {"in", "stuck"}
                     /\ w # "tried"
  PROVE  MutexHeld'
  <1>1. where'[t] = w /\ \A u \in Users \ {t} : where'[u] = where[u]
    BY DEF Go, SyncTypes
  <1>. QED BY <1>1, SyncAssumption DEF MutexHeld

(* enter(), leave(), wait(), raise(), cancellation, termination: the mutex *)
(* and the threads go on agreeing who is in.                               *)
LEMMA MutexKept ==
  ASSUME SyncTypes, MutexHeld, NEW t \in Users,
         Uses(t) \/ Wakes(t) \/ raise(t) \/ Controls(t)
  PROVE  MutexHeld'
  <1>. USE DEF mutexVars, eventVars, semVars, singVars
  <1>r. ASSUME Runs(t) PROVE life[t] \notin {"ended", "joined"}
    BY <1>r DEF Runs
  <1>m. mx.owner \in Users \cup {Nobody} /\ mx.depth \in Nat /\ Nobody \notin Users
    BY SyncAssumption DEF SyncTypes
  <1>1. CASE UsesMutex(t)
    <2>1. CASE enter(t)
      BY <1>m, <1>r, <2>1, MutexMoves DEF enter
    <2>2. CASE reenter(t)
      <3>1. CASE Posix
        BY <1>m, <1>r, <2>2, <3>1, MutexMoves DEF reenter
      <3>2. CASE ~Posix
        <4>1. mx'.owner = mx.owner /\ mx.owner = t /\ UNCHANGED <<where, life, misled>>
          BY <2>2, <3>2 DEF reenter, SyncTypes
        <4>. QED BY <1>m, <4>1 DEF MutexHeld
      <3>. QED BY <3>1, <3>2
    <2>3. CASE posix_try_enter(t)
      <3>1. CASE mx.owner = Nobody
        <4>1. mx'.owner = t /\ misled' /\ UNCHANGED <<where, life>>
          BY <2>3, <3>1 DEF posix_try_enter, SyncTypes
        <4>. QED BY <1>m, <4>1 DEF MutexHeld
      <3>2. CASE mx.owner # Nobody
        <4>1. mx' = mx /\ misled' /\ life' = life /\ Go(t, "tried") /\ Runs(t)
          BY <2>3, <3>2 DEF posix_try_enter
        <4>. QED BY <1>r, <4>1 DEF MutexHeld, Go, SyncTypes
      <3>. QED BY <3>1, <3>2
    <2>4. CASE win32_try_enter(t)
      <3>1. CASE mx.owner \notin {Nobody, t}
        BY <2>4, <3>1, MutexRests DEF win32_try_enter
      <3>2. CASE mx.owner \in {Nobody, t} /\ mx.abandoned
        <4>1. mx'.owner = t /\ misled' /\ UNCHANGED <<where, life>>
          BY <2>4, <3>2 DEF win32_try_enter
        <4>. QED BY <1>m, <4>1 DEF MutexHeld
      <3>3. CASE mx.owner \in {Nobody, t} /\ ~mx.abandoned
        BY <1>m, <1>r, <2>4, <3>3, MutexMoves DEF win32_try_enter
      <3>. QED BY <3>1, <3>2, <3>3
    <2>5. CASE leave(t)
      <3>. DEFINE d == IF Posix THEN 0 ELSE mx.depth - 1
      <3>1. /\ mx' = IF d <= 0 THEN Free ELSE [mx EXCEPT !.depth = d]
            /\ Go(t, IF d <= 0 THEN "out" ELSE "in") /\ UNCHANGED <<life, misled>>
            /\ Runs(t) /\ where[t] \in {"in", "tried"}
        BY <2>5 DEF leave
      <3>2. CASE d <= 0
        <4>1. mx'.owner = Nobody /\ mx'.depth = 0 /\ Go(t, "out")
          BY <3>1, <3>2 DEF Free
        <4>2. ~misled => mx.owner \in {t, Nobody}
          BY <1>m, <3>1, <3>2 DEF MutexHeld
        <4>. QED BY <1>m, <1>r, <3>1, <4>1, <4>2, MutexMoves
      <3>3. CASE ~(d <= 0)
        <4>1. mx'.owner = mx.owner /\ Go(t, "in") /\ mx.depth # 0
          BY <1>m, <3>1, <3>3 DEF SyncTypes
        <4>2. where'[t] = "in" /\ \A u \in Users \ {t} : where'[u] = where[u]
          BY <4>1 DEF Go, SyncTypes
        <4>. QED BY <1>m, <1>r, <3>1, <4>1, <4>2 DEF MutexHeld
      <3>. QED BY <3>2, <3>3
    <2>6. CASE wait(t)
      <3>1. mx'.owner = Nobody /\ mx'.depth = 0
        BY <2>6 DEF wait, Free
      <3>. QED BY <1>m, <1>r, <2>6, <3>1, MutexMoves DEF wait
    <2>7. CASE spurious_wakeup(t)
      <3>1. where'[t] = "woken" /\ \A u \in Users \ {t} : where'[u] = where[u]
        BY <2>7 DEF spurious_wakeup, Go, SyncTypes
      <3>. QED BY <1>r, <2>7, <3>1 DEF spurious_wakeup, MutexHeld
    <2>8. CASE open_gate(t)
      BY <2>8, MutexRests DEF open_gate
    <2>. QED BY <1>1, <2>1, <2>2, <2>3, <2>4, <2>5, <2>6, <2>7, <2>8 DEF UsesMutex
  <1>2. CASE UsesSemaphore(t)
    <2>1. UNCHANGED <<mx, where, life>> /\ (misled => misled')
      <3>1. CASE trylock(t)
        BY <3>1 DEF trylock
      <3>. QED BY <1>2, <3>1 DEF UsesSemaphore, lock, unlock
    <2>. QED BY <2>1, MutexRests
  <1>3. CASE UsesSingleton(t)
    <2>1. UNCHANGED <<mx, where, life, misled>>
      BY <1>3 DEF UsesSingleton, instance_check, instance_lock, instance_make,
                  instance_set
    <2>. QED BY <2>1, MutexRests
  <1>4. CASE Wakes(t) \/ raise(t)
    <2>1. CASE falls_asleep(t)
      <3>1. where'[t] = "waits" /\ \A u \in Users \ {t} : where'[u] = where[u]
        BY <2>1 DEF falls_asleep, Go, SyncTypes
      <3>. QED BY <1>r, <2>1, <3>1 DEF falls_asleep, MutexHeld
    <2>2. CASE wait_returns(t)
      BY <1>m, <1>r, <2>2, MutexMoves DEF wait_returns
    <2>3. CASE cancelled(t)
      <3>1. where'[t] = "out" /\ (\A u \in Users \ {t} : where'[u] = where[u])
            /\ \A u \in Users \ {t} : life'[u] = life[u]
        BY <2>3 DEF cancelled, Go, Live, SyncTypes
      <3>. QED BY <2>3, <3>1 DEF cancelled, MutexHeld
    <2>4. CASE raise(t)
      <3>1. \A u \in Users : \/ where'[u] = where[u]
                             \/ where[u] = "waits" /\ where'[u] = "woken"
        <4>1. PICK woken \in SUBSET {u \in Users : where[u] = "waits"} :
                where' = [u \in Users |-> IF u \in woken THEN "woken" ELSE where[u]]
          BY <2>4 DEF raise
        <4>. QED BY <4>1
      <3>2. UNCHANGED <<mx, life, misled>>
        BY <2>4 DEF raise
      <3>. QED BY <3>1, <3>2 DEF MutexHeld
    <2>. QED BY <1>4, <2>1, <2>2, <2>3, <2>4 DEF Wakes
  <1>5. CASE Controls(t)
    <2>1. CASE start(t) \/ execute(t) \/ pause(t) \/ resume(t) \/ wait_for(t)
      <3>1. UNCHANGED <<mx, where, misled>>
        BY <2>1 DEF start, execute, pause, resume, wait_for
      <3>2. \A u \in Users : life'[u] \in {"ended", "joined"}
              => life[u] \in {"ended", "joined"} \/ where[u] = "out"
        BY <2>1 DEF start, execute, pause, resume, wait_for, Live, SyncTypes
      <3>. QED BY <3>1, <3>2, MutexRests
    <2>2. CASE stop(t)
      <3>1. CASE Posix
        <4>1. \A u \in Users : life'[u] = life[u] \/ life'[u] = "cancelled"
          BY <2>2, <3>1 DEF stop, Live, SyncTypes
        <4>. QED BY <2>2, <3>1, <4>1, MutexRests DEF stop
      <3>2. CASE ~Posix
        <4>1. where'[t] = "out" /\ (\A u \in Users \ {t} : where'[u] = where[u])
              /\ \A u \in Users \ {t} : life'[u] = life[u]
          BY <2>2, <3>2 DEF stop, Go, Live, SyncTypes
        <4>2. UNCHANGED misled
              /\ mx' = IF mx.owner = t THEN [Free EXCEPT !.abandoned = TRUE] ELSE mx
          BY <2>2, <3>2 DEF stop
        <4>3. CASE mx.owner = t
          <5>1. mx'.owner = Nobody /\ mx'.depth = 0
            BY <4>2, <4>3 DEF Free
          <5>. QED BY <1>m, <4>1, <4>2, <4>3, <5>1 DEF MutexHeld
        <4>4. CASE mx.owner # t
          BY <4>1, <4>2, <4>4 DEF MutexHeld
        <4>. QED BY <4>3, <4>4
      <3>. QED BY <3>1, <3>2
    <2>. QED BY <1>5, <2>1, <2>2 DEF Controls
  <1>. QED BY <1>1, <1>2, <1>3, <1>4, <1>5 DEF Uses

-----------------------------------------------------------------------------
(* lock(), unlock() and a trylock() that answers the truth move permits    *)
(* between the semaphore and the threads.                                  *)
LEMMA PermitsStep ==
  ASSUME SyncTypes, IsFiniteSet(has), PermitsKept, NEW t \in Users,
         Uses(t) \/ Wakes(t) \/ raise(t) \/ Controls(t)
  PROVE  IsFiniteSet(has') /\ PermitsKept'
  <1>. USE DEF mutexVars, eventVars, singVars
  <1>t. count \in Nat /\ Cardinality(has) \in Nat /\ SemPermits \in Nat
    BY FS_CardinalityType, SyncAssumption DEF SyncTypes
  <1>1. CASE lock(t)
    <2>1. IsFiniteSet(has') /\ Cardinality(has') = Cardinality(has) + 1
      BY <1>1, FS_AddElement DEF lock
    <2>. QED BY <1>1, <1>t, <2>1 DEF lock, PermitsKept
  <1>2. CASE trylock(t)
    <2>1. IsFiniteSet(has \cup {t}) /\ Cardinality(has \cup {t}) = Cardinality(has) + 1
      BY <1>2, FS_AddElement DEF trylock
    <2>2. PICK answer \in BOOLEAN :
            /\ has' = IF answer THEN has \cup {t} ELSE has
            /\ misled' = (misled \/ answer # (count > 0))
      BY <1>2 DEF trylock
    <2>3. count' = IF count > 0 THEN count - 1 ELSE count
      BY <1>2 DEF trylock
    <2>4. CASE misled'
      BY <2>1, <2>2, <2>4 DEF PermitsKept
    <2>5. CASE ~misled' /\ count > 0
      <3>1. has' = has \cup {t} /\ ~misled
        BY <2>2, <2>5
      <3>. QED BY <1>t, <2>1, <2>3, <2>5, <3>1 DEF PermitsKept
    <2>6. CASE ~misled' /\ ~(count > 0)
      <3>1. has' = has /\ ~misled
        BY <2>2, <2>6
      <3>. QED BY <2>3, <2>6, <3>1 DEF PermitsKept
    <2>. QED BY <2>4, <2>5, <2>6
  <1>3. CASE unlock(t)
    <2>1. IsFiniteSet(has') /\ Cardinality(has') = Cardinality(has) - 1
      BY <1>3, FS_RemoveElement DEF unlock
    <2>. QED BY <1>3, <1>t, <2>1 DEF unlock, PermitsKept
  <1>4. CASE UsesMutex(t) \/ UsesSingleton(t) \/ Wakes(t) \/ raise(t) \/ Controls(t)
    <2>1. UNCHANGED <<count, has>> /\ (misled => misled')
      <3>1. CASE UsesMutex(t)
        <4>1. CASE win32_try_enter(t)
          BY <4>1 DEF win32_try_enter, semVars
        <4>. QED BY <3>1, <4>1 DEF UsesMutex, enter, reenter, posix_try_enter, leave,
                    wait, spurious_wakeup, open_gate, semVars
      <3>2. CASE UsesSingleton(t)
        BY <3>2 DEF UsesSingleton, instance_check, instance_lock, instance_make,
                    instance_set, semVars
      <3>3. CASE Wakes(t) \/ raise(t)
        BY <3>3 DEF Wakes, falls_asleep, wait_returns, cancelled, raise, semVars
      <3>4. CASE Controls(t)
        BY <3>4 DEF Controls, start, execute, stop, pause, resume, wait_for, semVars
      <3>. QED BY <1>4, <3>1, <3>2, <3>3, <3>4
    <2>. QED BY <2>1 DEF PermitsKept
  <1>. QED BY <1>1, <1>2, <1>3, <1>4 DEF Uses, UsesSemaphore

-----------------------------------------------------------------------------
(* instance(): the first look without the lock, the second look and the    *)
(* construction under it, and the pointer set last.                        *)
LEMMA InstanceKept ==
  ASSUME SyncTypes, InstanceOrder, NEW t \in Users,
         Uses(t) \/ Wakes(t) \/ raise(t) \/ Controls(t)
  PROVE  InstanceOrder'
  <1>0. CASE UNCHANGED <<platform, singVars>>
    BY <1>0 DEF InstanceOrder, singVars
  <1>1. CASE UsesMutex(t) \/ UsesSemaphore(t)
    BY <1>0, <1>1 DEF UsesMutex, enter, reenter, posix_try_enter, win32_try_enter, leave,
           wait, spurious_wakeup, open_gate, UsesSemaphore, lock, trylock, unlock
  <1>2. CASE Wakes(t) \/ raise(t)
    BY <1>0, <1>2 DEF Wakes, falls_asleep, wait_returns, cancelled, raise
  <1>3. CASE Controls(t)
    <2>1. CASE stop(t)
      BY <2>1 DEF stop, Posix, InstanceOrder
    <2>. QED BY <1>0, <1>3, <2>1 DEF Controls, start, execute, pause, resume, wait_for
  <1>4. CASE UsesSingleton(t)
    <2>p. platform' = platform
      BY <1>4 DEF UsesSingleton, instance_check, instance_lock, instance_make,
                  instance_set
    <2>. SUFFICES ASSUME platform = "posix" PROVE InstanceOrder'
      BY <2>p DEF InstanceOrder
    <2>i. /\ \A u \in Users : cs = u <=> sing[u] \in {"locked", "built"}
          /\ \A u \in Users : sing[u] = "built" => instance = 0 /\ made = 1
          /\ (\A u \in Users : sing[u] # "built") => made = instance
          /\ instance \in {0, 1} /\ made \in {0, 1}
          /\ \A u \in Users : sing[u] = "has" => instance = 1 /\ ref[u] = 1
      BY DEF InstanceOrder
    <2>1. CASE instance_check(t)
      <3>1. sing[t] = "none" /\ UNCHANGED <<cs, instance, made>>
        BY <2>1 DEF instance_check
      <3>2. \/ sing' = [sing EXCEPT ![t] = "null"] /\ ref' = ref
            \/ sing' = [sing EXCEPT ![t] = "has"] /\ ref' = [ref EXCEPT ![t] = 1]
               /\ instance = 1
        BY <2>1, <2>i DEF instance_check, Sing, Give
      <3>. QED BY <2>i, <3>1, <3>2 DEF InstanceOrder, SyncTypes
    <2>2. CASE instance_lock(t)
      BY <2>2, <2>i, SyncAssumption DEF instance_lock, Sing, InstanceOrder, SyncTypes
    <2>3. CASE instance_make(t)
      <3>1. sing[t] = "locked" /\ instance' = instance /\ cs = t
            /\ \A u \in Users \ {t} : sing[u] \notin {"locked", "built"}
        BY <2>3, <2>i DEF instance_make
      <3>2. made = instance
        BY <2>i, <3>1
      <3>3. CASE sing' = [sing EXCEPT ![t] = "has"] /\ ref' = [ref EXCEPT ![t] = instance]
                 /\ instance # 0 /\ cs' = Nobody /\ made' = made
        BY <2>i, <3>1, <3>2, <3>3, SyncAssumption DEF InstanceOrder, SyncTypes
      <3>4. CASE sing' = [sing EXCEPT ![t] = "built"] /\ ref' = ref
                 /\ instance = 0 /\ cs' = cs /\ made' = made + 1
        BY <2>i, <3>1, <3>2, <3>4, SyncAssumption DEF InstanceOrder, SyncTypes
      <3>5. CASE sing' = [sing EXCEPT ![t] = "threw"] /\ ref' = ref
                 /\ instance = 0 /\ cs' = Nobody /\ made' = made
        BY <2>i, <3>1, <3>2, <3>5, SyncAssumption DEF InstanceOrder, SyncTypes
      <3>. QED BY <2>3, <3>3, <3>4, <3>5 DEF instance_make, Sing, Give
    <2>4. CASE instance_set(t)
      <3>1. sing[t] = "built" /\ made = 1 /\ made' = 1 /\ instance' = 1 /\ cs' = Nobody
            /\ cs = t /\ sing' = [sing EXCEPT ![t] = "has"] /\ ref' = [ref EXCEPT ![t] = 1]
        BY <2>4, <2>i DEF instance_set, Give
      <3>2. \A u \in Users \ {t} : sing[u] \notin {"locked", "built", "has"}
        BY <2>i, <3>1
      <3>. QED BY <3>1, <3>2, SyncAssumption DEF InstanceOrder, SyncTypes
    <2>. QED BY <1>4, <2>1, <2>2, <2>3, <2>4 DEF UsesSingleton
  <1>. QED BY <1>1, <1>2, <1>3, <1>4 DEF Uses

-----------------------------------------------------------------------------
(* The mutex keeps threads apart, the semaphore loses no permit and the    *)
(* singleton is made once, whatever the threads call, however they are     *)
(* cancelled, terminated, suspended or joined meanwhile, as long as no     *)
(* try_enter() or trylock() has given a wrong answer.                      *)
THEOREM SyncSafe == SyncSpec => []OneAtATime
  <1>1. SyncInit => SyncInv
    <2>. SUFFICES ASSUME SyncInit PROVE SyncInv
      OBVIOUS
    <2>1. SyncTypes
      BY SyncAssumption DEF SyncInit, SyncTypes, Free
    <2>2. MutexHeld
      BY SyncAssumption DEF SyncInit, MutexHeld, Free
    <2>3. IsFiniteSet(has) /\ PermitsKept
      BY FS_EmptySet, SyncAssumption DEF SyncInit, PermitsKept
    <2>4. InstanceOrder
      BY SyncAssumption DEF SyncInit, InstanceOrder
    <2>. QED BY <2>1, <2>2, <2>3, <2>4 DEF SyncInv
  <1>2. SyncInv /\ [SyncNext]_syncVars => SyncInv'
    <2>1. ASSUME SyncInv, SyncNext PROVE SyncInv'
      <3>1. PICK t \in Users : Uses(t) \/ Wakes(t) \/ raise(t) \/ Controls(t)
        BY <2>1 DEF SyncNext
      <3>. QED BY <2>1, <3>1, SyncTypesKept, MutexKept, PermitsStep, InstanceKept
           DEF SyncInv
    <2>2. ASSUME SyncInv, UNCHANGED syncVars PROVE SyncInv'
      BY <2>2 DEF SyncInv, syncVars, SyncTypes, MutexHeld, PermitsKept, InstanceOrder
    <2>. QED BY <2>1, <2>2
  <1>3. SyncInv => OneAtATime
    <2>. SUFFICES ASSUME SyncInv PROVE OneAtATime
      OBVIOUS
    <2>1. EnterAlone
      BY DEF SyncInv, MutexHeld, EnterAlone
    <2>2. OneInstance
      BY DEF SyncInv, InstanceOrder, OneInstance
    <2>. QED BY <2>1, <2>2 DEF SyncInv, OneAtATime
  <1>. QED BY <1>1, <1>2, <1>3, PTL DEF SyncSpec

=============================================================================
