-------------------------------- MODULE Pool --------------------------------
(***************************************************************************)
(* The object pool of include/dcl/pool.h: pool<T>, its two size policies   *)
(* and the smart pointer pool_ptr<T> through which threads use it.         *)
(*                                                                         *)
(* Every thread owns one pool_ptr variable p and runs                      *)
(*     p = pool.acquire(key);  ...  p goes out of scope                    *)
(* any number of times.  acquire_item takes a permit of the size policy    *)
(* and only then enters the critical section cs; release_item gives the    *)
(* permit back and only then enters cs.  Those two steps are two actions,  *)
(* everything done under cs is one.                                        *)
(*                                                                         *)
(* Objects are named by the order in which "new T()" made them, so the     *)
(* vector _all is the number of objects made so far and 1..all are the     *)
(* objects in it.                                                          *)
(***************************************************************************)
EXTENDS Naturals, Sequences, FiniteSets

CONSTANTS
  Threads,       \* the threads that share the pool
  Keys,          \* the keys given to acquire()
  Limited,       \* pool_size_limited_policy or pool_size_unlimited_policy
  Limit,         \* size_limit of pool_size_limited_policy
  MayReassign,   \* do clients write p = acquire(k) while p holds an object?
  CtorMayThrow   \* may the constructor of T throw?

ASSUME PoolAssumption ==
  /\ IsFiniteSet(Threads)
  /\ Limited \in BOOLEAN
  /\ Limit \in Nat
  /\ MayReassign \in BOOLEAN
  /\ CtorMayThrow \in BOOLEAN

(* A program uses the pool, from a thread, with so many different keys.    *)
ASSUME UseAssumption == Threads # {} /\ IsFiniteSet(Keys)

None == 0        \* the null T*

VARIABLES
  permits,       \* value of the semaphore of the limited policy
  all,           \* _all.size()
  free,          \* _free: one FIFO queue of objects per key
  item,          \* item[t]: _item of t's pool_ptr, None when it is null
  ikey,          \* ikey[t]: _key of t's pool_ptr
  tmp,           \* tmp[t]: _item of the temporary acquire() returned to t
  want,          \* want[t]: the key t gave to acquire()
  pc,            \* where t is inside pool.h, "idle" when outside
  leaked         \* permits taken for an object whose constructor threw

vars == <<permits, all, free, item, ikey, tmp, want, pc, leaked>>

(* Definitions named Fault_... are mutations of the definition that follows *)
(* them; no specification uses them.                                       *)

-----------------------------------------------------------------------------
(* The size policies: lock() and unlock() of the unlimited one do nothing. *)

(* Fault: lock() does not wait. *)
Fault_PolicyLock == permits' = IF permits > 0 THEN permits - 1 ELSE 0

PolicyLock ==
  IF Limited THEN permits > 0 /\ permits' = permits - 1
             ELSE UNCHANGED permits

(* Fault: unlock() of the limited policy does nothing either. *)
Fault_PolicyUnlock == UNCHANGED permits

PolicyUnlock ==
  IF Limited THEN permits' = permits + 1 ELSE UNCHANGED permits

-----------------------------------------------------------------------------
(* The pool after construction; every pool_ptr is default constructed.     *)
Init ==
  /\ permits = Limit
  /\ all = 0
  /\ free = [k \in Keys |-> <<>>]
  /\ item = [t \in Threads |-> None]
  /\ ikey \in [Threads -> Keys]
  /\ tmp = [t \in Threads |-> None]
  /\ want = ikey
  /\ pc = [t \in Threads |-> "idle"]
  /\ leaked = 0

(* t calls acquire(k), into a null pointer or over one that holds an       *)
(* object.                                                                 *)
Acquire(t, k) ==
  /\ pc[t] = "idle"
  /\ item[t] # None => MayReassign
  /\ pc' = [pc EXCEPT ![t] = "lock"]
  /\ want' = [want EXCEPT ![t] = k]
  /\ UNCHANGED <<permits, all, free, item, ikey, tmp, leaked>>

(* size_policy->lock(): blocks while the semaphore is zero.                *)
AcquireLock(t) ==
  /\ pc[t] = "lock"
  /\ PolicyLock
  /\ pc' = [pc EXCEPT ![t] = "enter"]
  /\ UNCHANGED <<all, free, item, ikey, tmp, want, leaked>>

(* The object that acquire_item returns reaches t's pointer: a null        *)
(* pointer takes it over at once; for one that holds an object operator=   *)
(* still has to release that object.                                       *)
Deliver(t, i) ==
  IF item[t] = None
    THEN /\ item' = [item EXCEPT ![t] = i]
         /\ ikey' = [ikey EXCEPT ![t] = want[t]]
         /\ pc' = [pc EXCEPT ![t] = "idle"]
         /\ UNCHANGED tmp
    ELSE /\ tmp' = [tmp EXCEPT ![t] = i]
         /\ pc' = [pc EXCEPT ![t] = "assign"]
         /\ UNCHANGED <<item, ikey>>

(* Fault: a new object is made although one is free. *)
Fault_AcquireNew(t) ==
  /\ pc[t] = "enter"
  /\ all' = all + 1
  /\ Deliver(t, all + 1)
  /\ UNCHANGED <<permits, free, want, leaked>>

(* acquire_item under cs, empty queue: a new object joins _all.            *)
AcquireNew(t) ==
  /\ pc[t] = "enter"
  /\ free[want[t]] = <<>>
  /\ all' = all + 1
  /\ Deliver(t, all + 1)
  /\ UNCHANGED <<permits, free, want, leaked>>

(* Fault: q.front() without q.pop(). *)
Fault_AcquireReuse(t) ==
  /\ pc[t] = "enter"
  /\ free[want[t]] # <<>>
  /\ Deliver(t, Head(free[want[t]]))
  /\ UNCHANGED <<permits, all, free, want, leaked>>

(* acquire_item under cs: the oldest free object of the key is reused.     *)
AcquireReuse(t) ==
  /\ pc[t] = "enter"
  /\ free[want[t]] # <<>>
  /\ free' = [free EXCEPT ![want[t]] = Tail(@)]
  /\ Deliver(t, Head(free[want[t]]))
  /\ UNCHANGED <<permits, all, want, leaked>>

(* "new T()" throws: the exception leaves acquire_item, cs is unlocked by  *)
(* the guard, and nothing gives the permit back.                           *)
AcquireThrows(t) ==
  /\ CtorMayThrow
  /\ pc[t] = "enter"
  /\ free[want[t]] = <<>>
  /\ pc' = [pc EXCEPT ![t] = "idle"]
  /\ leaked' = IF Limited THEN leaked + 1 ELSE leaked
  /\ UNCHANGED <<permits, all, free, item, ikey, tmp, want>>

(* Fault: operator= releases the old object without its permit. *)
Fault_ReleaseUnlock(t) ==
  /\ item[t] # None
  /\ pc[t] \in {"idle", "assign"}
  /\ IF pc[t] = "idle" THEN PolicyUnlock ELSE UNCHANGED permits
  /\ pc' = [pc EXCEPT ![t] = "push"]
  /\ UNCHANGED <<all, free, item, ikey, tmp, want, leaked>>

(* release_item, first half: the permit is posted.  Called by ~pool_ptr    *)
(* (also for the self-assignment p = p, which releases and then nulls p)   *)
(* and by operator=, which has the new object in a temporary by now.       *)
ReleaseUnlock(t) ==
  /\ item[t] # None
  /\ pc[t] \in {"idle", "assign"}
  /\ PolicyUnlock
  /\ pc' = [pc EXCEPT ![t] = "push"]
  /\ UNCHANGED <<all, free, item, ikey, tmp, want, leaked>>

(* Fault: operator= copies the key before it releases the old object. *)
Fault_ReleasePushKey(t) ==
  /\ pc[t] = "push"
  /\ LET k == IF tmp[t] = None THEN ikey[t] ELSE want[t]
     IN free' = [free EXCEPT ![k] = Append(@, item[t])]
  /\ item' = [item EXCEPT ![t] = tmp[t]]
  /\ ikey' = [ikey EXCEPT ![t] = want[t]]
  /\ tmp' = [tmp EXCEPT ![t] = None]
  /\ pc' = [pc EXCEPT ![t] = "idle"]
  /\ UNCHANGED <<permits, all, want, leaked>>

(* release_item under cs, then the rest of the caller: the pointer takes   *)
(* over the temporary, which is null when there is none (the key of a null *)
(* pointer is never read).                                                 *)
ReleasePush(t) ==
  /\ pc[t] = "push"
  /\ free' = [free EXCEPT ![ikey[t]] = Append(@, item[t])]
  /\ item' = [item EXCEPT ![t] = tmp[t]]
  /\ ikey' = [ikey EXCEPT ![t] = want[t]]
  /\ tmp' = [tmp EXCEPT ![t] = None]
  /\ pc' = [pc EXCEPT ![t] = "idle"]
  /\ UNCHANGED <<permits, all, want, leaked>>

(* The copy constructor, with t's pointer as source and u's new pointer as *)
(* target: ownership moves and the source is nulled.  The two threads      *)
(* synchronise outside the pool.                                           *)
Copy(t, u) ==
  /\ t # u
  /\ pc[t] = "idle" /\ pc[u] = "idle"
  /\ item[t] # None /\ item[u] = None
  /\ item' = [item EXCEPT ![u] = item[t], ![t] = None]
  /\ ikey' = [ikey EXCEPT ![u] = ikey[t]]
  /\ UNCHANGED <<permits, all, free, tmp, want, pc, leaked>>

Step(t) ==
  \/ \E k \in Keys : Acquire(t, k)
  \/ AcquireLock(t)
  \/ AcquireNew(t)
  \/ AcquireReuse(t)
  \/ AcquireThrows(t)
  \/ ReleaseUnlock(t)
  \/ ReleasePush(t)
  \/ \E u \in Threads : Copy(t, u)

Next == \E t \in Threads : Step(t)

Spec == Init /\ [][Next]_vars

(* A thread inside pool.h keeps running; a pool_ptr is destroyed at the    *)
(* end of its scope even when it is handed from thread to thread; and      *)
(* sem_wait does not pass over a waiter for ever.                          *)
Fairness ==
  \A t \in Threads :
    /\ SF_vars(AcquireLock(t))
    /\ WF_vars(AcquireNew(t) \/ AcquireReuse(t) \/ AcquireThrows(t))
    /\ SF_vars(ReleaseUnlock(t))
    /\ WF_vars(ReleasePush(t))

FairSpec == Spec /\ Fairness

-----------------------------------------------------------------------------
(* pool::size() and pool::in_use().                                        *)
size == all

Pooled(i) == \E k \in Keys : \E n \in DOMAIN free[k] : free[k][n] = i

in_use == Cardinality({i \in 1..all : ~Pooled(i)})

(* What is behind a permit: an acquisition past lock(), and a pointer      *)
(* whose release has not yet reached unlock().                             *)
Acquirers == {t \in Threads : pc[t] = "enter" \/ tmp[t] # None}

Holders == {t \in Threads : item[t] # None /\ pc[t] # "push"}

HandedOut == Cardinality(Acquirers) + Cardinality(Holders)

-----------------------------------------------------------------------------
(* The values the variables take.                                          *)
TypeOK ==
  /\ permits \in Nat
  /\ all \in Nat
  /\ free \in [Keys -> Seq(1..all)]
  /\ item \in [Threads -> 0..all]
  /\ ikey \in [Threads -> Keys]
  /\ tmp \in [Threads -> 0..all]
  /\ want \in [Threads -> Keys]
  /\ pc \in [Threads -> {"idle", "lock", "enter", "assign", "push"}]
  /\ leaked \in Nat

(* An object is never in two places: acquire_item never hands out an       *)
(* object that another pool_ptr still refers to, and release_item never    *)
(* makes an object available twice.                                        *)
PtrsDistinct ==
  \A t, u \in Threads : item[t] # None /\ item[t] = item[u] => t = u

TmpsDistinct ==
  \A t, u \in Threads : tmp[t] # None /\ tmp[t] = tmp[u] => t = u

PtrsNotTmps ==
  \A t, u \in Threads : item[t] # None => item[t] # tmp[u]

FreeNotHeld ==
  \A k \in Keys : \A n \in DOMAIN free[k] : \A t \in Threads :
    free[k][n] # item[t] /\ free[k][n] # tmp[t]

FreeDistinct ==
  \A k, l \in Keys : \A n \in DOMAIN free[k], m \in DOMAIN free[l] :
    free[k][n] = free[l][m] => k = l /\ n = m

Exclusive ==
  PtrsDistinct /\ TmpsDistinct /\ PtrsNotTmps /\ FreeNotHeld /\ FreeDistinct

(* No object of _all is forgotten: each is in a pointer, in a temporary or *)
(* free, whatever acquisitions, releases, moves and constructor failures   *)
(* are under way.                                                          *)
NoneLost ==
  \A i \in 1..all :
    \/ \E t \in Threads : item[t] = i \/ tmp[t] = i
    \/ Pooled(i)

(* Every permit of the limited policy is in the semaphore, behind an       *)
(* object in use, or leaked by a constructor that threw.                   *)
PermitsAccounted ==
  Limited => permits + HandedOut + leaked = Limit

(* The limited policy does what it is for: no more than Limit objects are  *)
(* handed out at a time.                                                   *)
LimitRespected == Limited => HandedOut <= Limit

(* How far the number of objects can grow.  release_item posts its permit  *)
(* before the object is back in the queue, so besides the Limit objects    *)
(* behind permits each other thread can have one in that window when a new *)
(* one is made for a key.                                                  *)
SizeBound ==
  Limited =>
    size <= Cardinality(Keys) * (Limit + Cardinality(Threads) - 1)

(* tests/test_pool.cpp checks in_use() between operations: once no thread  *)
(* is inside the pool, in_use() counts exactly the pointers that hold an   *)
(* object.                                                                 *)
InUseExact ==
  (\A t \in Threads : pc[t] \in {"idle", "lock"})
    => in_use = Cardinality({t \in Threads : item[t] # None})

(* What size() and in_use() count can be relied on.                        *)
CountsTrue == SizeBound /\ InUseExact

(* The key an object is filed under.                                       *)
KeysOf(i) ==
  {k \in Keys :
     \/ \E t \in Threads : item[t] = i /\ ikey[t] = k
     \/ \E t \in Threads : tmp[t] = i /\ want[t] = k
     \/ \E n \in DOMAIN free[k] : free[k][n] = i}

(* An object acquired under a key stays with that key: it is never filed   *)
(* under another one, so acquire(key) never returns an object prepared for *)
(* a different key (a connection to another database, say).                *)
KeyStable == [][\A i \in 1..all : KeysOf(i)' = KeysOf(i)]_vars

(* An acquire() that was called returns.                                   *)
AcquireCompletes ==
  \A t \in Threads :
    pc[t] \in {"lock", "enter"} ~> pc[t] \notin {"lock", "enter"}

(* tests/test_pool.cpp:100 expects a limited pool to have made as many     *)
(* objects as its limit after 200 threads used it.                         *)
SizeWithinLimit == Limited => size <= Limit

-----------------------------------------------------------------------------
(* The inductive invariant: what each place in the code implies about the  *)
(* pointer and the temporary, beside the properties above.                 *)
Places ==
  \A t \in Threads :
    /\ tmp[t] # None => pc[t] \in {"assign", "push"}
    /\ pc[t] = "assign" => item[t] # None /\ tmp[t] # None
    /\ pc[t] = "push" => item[t] # None

PoolInv == TypeOK /\ Places /\ Exclusive /\ NoneLost

(* The objects made for a key.  A new one is made only when the queue of   *)
(* the key is empty, so this holds key by key.                             *)
ObjectsOf(k) == {i \in 1..all : k \in KeysOf(i)}

KeyBound ==
  Limited => \A k \in Keys :
    Cardinality(ObjectsOf(k)) <= Limit + Cardinality(Threads) - 1

=============================================================================
