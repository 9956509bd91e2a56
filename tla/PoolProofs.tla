----------------------------- MODULE PoolProofs -----------------------------
(***************************************************************************)
(* Proofs about Pool, for every set of threads and keys, every limit and   *)
(* either size policy.                                                     *)
(***************************************************************************)
EXTENDS Pool, FiniteSetTheorems, SequenceTheorems, TLAPS

(* A sequence of numbers up to m is one of numbers up to m + 1.            *)
LEMMA SeqWiden ==
  ASSUME NEW m \in Nat, NEW s \in Seq(1..m)
  PROVE  s \in Seq(1..(m + 1))
  BY SeqMonotonic, 1..m \subseteq 1..(m+1)

(* What popping the front of a queue leaves.                               *)
LEMMA TailPositions ==
  ASSUME NEW S, NEW s \in Seq(S), s # <<>>
  PROVE  /\ Head(s) \in S
         /\ Head(s) = s[1]
         /\ 1 \in DOMAIN s
         /\ Tail(s) \in Seq(S)
         /\ \A n \in DOMAIN Tail(s) :
              n + 1 \in DOMAIN s /\ n + 1 # 1 /\ n \in Nat
              /\ Tail(s)[n] = s[n + 1]
         /\ \A n \in DOMAIN s : n = 1 \/ (n - 1 \in DOMAIN Tail(s)
                                          /\ Tail(s)[n - 1] = s[n])
  <1>1. Len(s) \in Nat /\ DOMAIN s = 1..Len(s) /\ Len(s) # 0
    BY LenProperties, EmptySeq
  <1>2. Tail(s) \in Seq(S) /\ Len(Tail(s)) = Len(s) - 1 /\ Head(s) \in S
        /\ \A i \in 1..Len(Tail(s)) : Tail(s)[i] = s[i + 1]
    BY HeadTailProperties
  <1>3. DOMAIN Tail(s) = 1..(Len(s) - 1)
    BY <1>2, LenProperties
  <1>4. Head(s) = s[1]
    OBVIOUS
  <1>. QED
    BY <1>1, <1>2, <1>3, <1>4

(* What pushing at the back of a queue adds.                               *)
LEMMA AppendPositions ==
  ASSUME NEW S, NEW s \in Seq(S), NEW e \in S
  PROVE  /\ Append(s, e) \in Seq(S)
         /\ \A n \in DOMAIN s :
              n \in DOMAIN Append(s, e) /\ Append(s, e)[n] = s[n]
         /\ \A n \in DOMAIN Append(s, e) :
              n \in DOMAIN s \/ n = Len(s) + 1
         /\ Len(s) + 1 \in DOMAIN Append(s, e)
         /\ Len(s) + 1 \notin DOMAIN s
         /\ Append(s, e)[Len(s) + 1] = e
  <1>1. Len(s) \in Nat /\ DOMAIN s = 1..Len(s)
    BY LenProperties
  <1>2. Append(s, e) \in Seq(S) /\ Len(Append(s, e)) = Len(s) + 1
        /\ (\A i \in 1..Len(s) : Append(s, e)[i] = s[i])
        /\ Append(s, e)[Len(s) + 1] = e
    BY AppendProperties
  <1>3. DOMAIN Append(s, e) = 1..(Len(s) + 1)
    BY <1>2, LenProperties
  <1>. QED
    BY <1>1, <1>2, <1>3

-----------------------------------------------------------------------------
(* Type correctness together with what each place in the code implies      *)
(* about the pointer and the temporary.                                    *)
LEMMA InitTypes == Init => TypeOK /\ Places
  <1>. SUFFICES ASSUME Init PROVE TypeOK /\ Places
    OBVIOUS
  <1>1. <<>> \in Seq(1..0)
    BY EmptySeq
  <1>2. TypeOK
    BY <1>1, PoolAssumption DEF Init, TypeOK, None
  <1>3. Places
    BY DEF Init, Places, None
  <1>. QED
    BY <1>2, <1>3

(* Every step keeps types and places.                                      *)
LEMMA NextTypes ==
  ASSUME TypeOK, Places, Next
  PROVE  TypeOK' /\ Places'
  <1>. USE DEF None
  <1>1. ASSUME NEW t \in Threads, NEW k \in Keys, Acquire(t, k)
        PROVE  TypeOK' /\ Places'
    BY <1>1 DEF TypeOK, Places, Acquire
  <1>2. ASSUME NEW t \in Threads, AcquireLock(t) PROVE TypeOK' /\ Places'
    BY <1>2 DEF TypeOK, Places, AcquireLock, PolicyLock
  <1>3. ASSUME NEW t \in Threads, AcquireNew(t) PROVE TypeOK' /\ Places'
    <2>1. free' \in [Keys -> Seq(1..all')]
      BY <1>3, SeqWiden DEF TypeOK, AcquireNew
    <2>2. all' \in Nat /\ all' = all + 1 /\ all' \in 0..all' /\ all' # 0
          /\ \A n \in 0..all : n \in 0..all'
      BY <1>3 DEF TypeOK, AcquireNew
    <2>5. item' \in [Threads -> 0..all'] /\ tmp' \in [Threads -> 0..all']
      <3>1. item \in [Threads -> 0..all'] /\ tmp \in [Threads -> 0..all']
        BY <2>2 DEF TypeOK
      <3>. QED
        BY <1>3, <2>2, <3>1, ZenonT(60) DEF AcquireNew, Deliver
    <2>3. TypeOK'
      BY <1>3, <2>1, <2>2, <2>5, ZenonT(60) DEF TypeOK, AcquireNew, Deliver
    <2>4. Places'
      BY <1>3, <2>2 DEF TypeOK, Places, AcquireNew, Deliver
    <2>. QED BY <2>3, <2>4
  <1>4. ASSUME NEW t \in Threads, AcquireReuse(t) PROVE TypeOK' /\ Places'
    <2>1. /\ Head(free[want[t]]) \in 1..all
          /\ Tail(free[want[t]]) \in Seq(1..all)
      BY <1>4, TailPositions DEF TypeOK, AcquireReuse
    <2>2. free' \in [Keys -> Seq(1..all)]
      BY <1>4, <2>1 DEF TypeOK, AcquireReuse
    <2>5. PICK h \in 1..all : Deliver(t, h)
      BY <1>4, <2>1 DEF AcquireReuse
    <2>6. UNCHANGED <<permits, all, want, leaked>> /\ pc[t] = "enter"
      BY <1>4 DEF AcquireReuse
    <2>7. h \in 0..all /\ h # 0
      BY DEF TypeOK
    <2>3. TypeOK'
      BY <2>2, <2>5, <2>6, <2>7, ZenonT(60) DEF TypeOK, Deliver
    <2>4. Places'
      BY <2>5, <2>6, <2>7 DEF TypeOK, Places, Deliver
    <2>. QED BY <2>3, <2>4
  <1>5. ASSUME NEW t \in Threads, AcquireThrows(t) PROVE TypeOK' /\ Places'
    <2>1. leaked' \in Nat
      BY <1>5, PoolAssumption DEF TypeOK, AcquireThrows
    <2>2. TypeOK'
      BY <1>5, <2>1 DEF TypeOK, AcquireThrows
    <2>3. Places'
      BY <1>5 DEF TypeOK, Places, AcquireThrows
    <2>. QED BY <2>2, <2>3
  <1>6. ASSUME NEW t \in Threads, ReleaseUnlock(t) PROVE TypeOK' /\ Places'
    <2>1. permits' \in Nat
      BY <1>6, PoolAssumption DEF TypeOK, ReleaseUnlock, PolicyUnlock
    <2>2. TypeOK'
      BY <1>6, <2>1 DEF TypeOK, ReleaseUnlock
    <2>3. Places'
      BY <1>6 DEF TypeOK, Places, ReleaseUnlock
    <2>. QED BY <2>2, <2>3
  <1>7. ASSUME NEW t \in Threads, ReleasePush(t) PROVE TypeOK' /\ Places'
    <2>1. item[t] \in 1..all
      BY <1>7 DEF TypeOK, Places, ReleasePush
    <2>2. free' \in [Keys -> Seq(1..all)]
      BY <1>7, <2>1, AppendPositions DEF TypeOK, ReleasePush
    <2>3. TypeOK'
      BY <1>7, <2>2 DEF TypeOK, ReleasePush
    <2>4. Places'
      BY <1>7 DEF TypeOK, Places, ReleasePush
    <2>. QED BY <2>3, <2>4
  <1>8. ASSUME NEW t \in Threads, NEW u \in Threads, Copy(t, u)
        PROVE  TypeOK' /\ Places'
    BY <1>8 DEF TypeOK, Places, Copy
  <1>. QED
    BY <1>1, <1>2, <1>3, <1>4, <1>5, <1>6, <1>7, <1>8 DEF Next, Step

(* pool.h keeps every variable in its range, whatever the threads do.      *)
THEOREM PoolTypeCorrect == Spec => []TypeOK
  <1>1. Init => TypeOK /\ Places
    BY InitTypes
  <1>2. TypeOK /\ Places /\ [Next]_vars => (TypeOK /\ Places)'
    BY NextTypes DEF vars, TypeOK, Places
  <1>. QED
    BY <1>1, <1>2, PTL DEF Spec

-----------------------------------------------------------------------------
(* An object is in one place, and in some place.  The invariant needs      *)
(* Places: a pointer in the release window still refers to its object, and *)
(* a temporary exists only while operator= runs.                           *)
LEMMA InitPlacement == Init => Exclusive /\ NoneLost
  BY DEF Init, Exclusive, PtrsDistinct, TmpsDistinct, PtrsNotTmps,
         FreeNotHeld, FreeDistinct, NoneLost

(* A step that moves no object keeps every object where it is.             *)
LEMMA NoMove ==
  ASSUME Exclusive, NoneLost, UNCHANGED <<all, free, item, tmp>>
  PROVE  Exclusive' /\ NoneLost'
  BY DEF Exclusive, PtrsDistinct, TmpsDistinct, PtrsNotTmps,
         FreeNotHeld, FreeDistinct, NoneLost, Pooled

(* An object that is in no place is put into t's hands: into the pointer   *)
(* if that is null, else into the temporary.  Then it is there only, and   *)
(* every other object is where it was.                                     *)
LEMMA DeliverPlacement ==
  ASSUME PoolInv, NEW t \in Threads, NEW h, Deliver(t, h),
         pc[t] = "enter",
         h # None,
         \A u \in Threads : item[u] # h /\ tmp[u] # h
  PROVE  /\ PtrsDistinct' /\ TmpsDistinct' /\ PtrsNotTmps'
         /\ \A u \in Threads : /\ item'[u] = item[u] \/ item'[u] = h
                               /\ tmp'[u] = tmp[u] \/ tmp'[u] = h
         /\ \E u \in Threads : item'[u] = h \/ tmp'[u] = h
         /\ \A u \in Threads, i \in 1..all :
              item[u] = i \/ tmp[u] = i => item'[u] = i \/ tmp'[u] = i
  <1>. USE DEF None
  <1>1. tmp[t] = 0 /\ item \in [Threads -> 0..all] /\ tmp \in [Threads -> 0..all]
        /\ all \in Nat
    BY DEF PoolInv, Places, TypeOK
  <1>2. CASE item[t] = 0
    <2>1. item' = [item EXCEPT ![t] = h] /\ tmp' = tmp
      BY <1>2 DEF Deliver
    <2>. QED
      BY <1>1, <1>2, <2>1
        DEF PoolInv, Exclusive, PtrsDistinct, TmpsDistinct, PtrsNotTmps
  <1>3. CASE item[t] # 0
    <2>1. tmp' = [tmp EXCEPT ![t] = h] /\ item' = item
      BY <1>3 DEF Deliver
    <2>. QED
      BY <1>1, <1>3, <2>1
        DEF PoolInv, Exclusive, PtrsDistinct, TmpsDistinct, PtrsNotTmps
  <1>. QED BY <1>2, <1>3

(* A new object is in no place before acquire_item returns it.             *)
LEMMA NewPlacement ==
  ASSUME PoolInv, NEW t \in Threads, AcquireNew(t)
  PROVE  Exclusive' /\ NoneLost'
  <1>. DEFINE h == all + 1
  <1>1. /\ all \in Nat /\ all' = h /\ free' = free /\ h # None
        /\ Deliver(t, h) /\ pc[t] = "enter"
    BY DEF PoolInv, TypeOK, AcquireNew, None
  <1>2. \A u \in Threads : item[u] # h /\ tmp[u] # h
    BY DEF PoolInv, TypeOK
  <1>3. \A k \in Keys : \A n \in DOMAIN free[k] : free[k][n] # h
    <2>1. ASSUME NEW k \in Keys, NEW n \in DOMAIN free[k]
          PROVE  free[k][n] \in 1..all
      BY <2>1, ElementOfSeq, LenProperties DEF PoolInv, TypeOK
    <2>. QED
      BY <1>1, <2>1
  <1>4. \A i \in 1..all' : i \in 1..all \/ i = h
    BY <1>1
  <1>. HIDE DEF h
  <1>7. /\ PtrsDistinct' /\ TmpsDistinct' /\ PtrsNotTmps'
        /\ \A u \in Threads : /\ item'[u] = item[u] \/ item'[u] = h
                              /\ tmp'[u] = tmp[u] \/ tmp'[u] = h
        /\ \E u \in Threads : item'[u] = h \/ tmp'[u] = h
        /\ \A u \in Threads, i \in 1..all :
             item[u] = i \/ tmp[u] = i => item'[u] = i \/ tmp'[u] = i
    BY <1>1, <1>2, DeliverPlacement
  <1>8. FreeNotHeld'
    <2>. SUFFICES ASSUME NEW k \in Keys, NEW n \in DOMAIN free[k],
                         NEW u \in Threads
                  PROVE  free[k][n] # item'[u] /\ free[k][n] # tmp'[u]
      BY <1>1 DEF FreeNotHeld
    <2>1. free[k][n] # item[u] /\ free[k][n] # tmp[u]
      BY DEF PoolInv, Exclusive, FreeNotHeld
    <2>. QED
      BY <1>3, <1>7, <2>1
  <1>9. FreeDistinct'
    BY <1>1 DEF PoolInv, Exclusive, FreeDistinct
  <1>5. Exclusive'
    BY <1>7, <1>8, <1>9 DEF Exclusive
  <1>6. NoneLost'
    BY <1>1, <1>4, <1>7 DEF PoolInv, NoneLost, Pooled
  <1>. QED BY <1>5, <1>6

(* The front of a queue moves from the queue to the thread.                *)
LEMMA ReusePlacement ==
  ASSUME PoolInv, NEW t \in Threads, AcquireReuse(t)
  PROVE  Exclusive' /\ NoneLost'
  <1>. DEFINE w == want[t]
              h == Head(free[w])
  <1>1. /\ w \in Keys /\ free[w] \in Seq(1..all) /\ free[w] # <<>>
        /\ Deliver(t, h) /\ pc[t] = "enter" /\ all' = all /\ all \in Nat
        /\ free' = [free EXCEPT ![w] = Tail(free[w])]
        /\ free \in [Keys -> Seq(1..all)]
    BY DEF PoolInv, TypeOK, AcquireReuse
  <1>2. /\ h \in 1..all /\ h = free[w][1] /\ 1 \in DOMAIN free[w]
        /\ \A n \in DOMAIN Tail(free[w]) :
             n + 1 \in DOMAIN free[w] /\ n + 1 # 1 /\ n \in Nat
             /\ Tail(free[w])[n] = free[w][n + 1]
        /\ \A n \in DOMAIN free[w] :
             n = 1 \/ (n - 1 \in DOMAIN Tail(free[w])
                      /\ Tail(free[w])[n - 1] = free[w][n])
    BY <1>1, TailPositions
  <1>. DEFINE q == Tail(free[w])
  <1>3. /\ free'[w] = q
        /\ \A k \in Keys : k # w => free'[k] = free[k]
    BY <1>1
  <1>. HIDE DEF w, h, q
  <1>4. h # None
    BY <1>1, <1>2 DEF None
  <1>5. \A u \in Threads : item[u] # h /\ tmp[u] # h
    BY <1>1, <1>2 DEF PoolInv, Exclusive, FreeNotHeld
  <1>6. /\ \A n \in DOMAIN q : n + 1 \in DOMAIN free[w] /\ n + 1 # 1
                              /\ q[n] = free[w][n + 1] /\ n \in Nat
        /\ \A n \in DOMAIN free[w] :
             n = 1 \/ (n - 1 \in DOMAIN q /\ q[n - 1] = free[w][n])
    BY <1>2 DEF q
  <1>12. /\ PtrsDistinct' /\ TmpsDistinct' /\ PtrsNotTmps'
         /\ \A u \in Threads : /\ item'[u] = item[u] \/ item'[u] = h
                               /\ tmp'[u] = tmp[u] \/ tmp'[u] = h
         /\ \E u \in Threads : item'[u] = h \/ tmp'[u] = h
         /\ \A u \in Threads, i \in 1..all :
              item[u] = i \/ tmp[u] = i => item'[u] = i \/ tmp'[u] = i
    BY <1>1, <1>4, <1>5, DeliverPlacement
  <1>7. \A k \in Keys : \A n \in DOMAIN free'[k] : free'[k][n] # h
    BY <1>1, <1>2, <1>3, <1>6 DEF PoolInv, Exclusive, FreeDistinct
  <1>8. FreeDistinct'
    BY <1>1, <1>3, <1>6 DEF PoolInv, Exclusive, FreeDistinct
  <1>9. FreeNotHeld'
    <2>1. \A k \in Keys : \A n \in DOMAIN free'[k] : \A u \in Threads :
            free'[k][n] # item[u] /\ free'[k][n] # tmp[u]
      BY <1>3, <1>6 DEF PoolInv, Exclusive, FreeNotHeld
    <2>. SUFFICES ASSUME NEW k \in Keys, NEW n \in DOMAIN free'[k],
                         NEW u \in Threads
                  PROVE  free'[k][n] # item'[u] /\ free'[k][n] # tmp'[u]
      BY DEF FreeNotHeld
    <2>. QED
      BY <1>7, <1>12, <2>1
  <1>10. Exclusive'
    BY <1>8, <1>9, <1>12 DEF Exclusive
  <1>11. NoneLost'
    <2>1. \A i \in 1..all : Pooled(i) => i = h \/ Pooled(i)'
      <3>. SUFFICES ASSUME NEW i \in 1..all, i # h, NEW k \in Keys,
                           NEW n \in DOMAIN free[k], free[k][n] = i
                    PROVE  \E l \in Keys : \E m \in DOMAIN free'[l] :
                             free'[l][m] = i
        BY DEF Pooled
      <3>1. CASE k # w
        BY <1>3, <3>1
      <3>2. CASE k = w
        <4>1. n # 1
          BY <1>2, <3>2
        <4>. QED
          BY <1>1, <1>3, <1>6, <3>2, <4>1
      <3>. QED BY <3>1, <3>2
    <2>. QED
      BY <1>1, <1>12, <2>1 DEF PoolInv, NoneLost
  <1>. QED BY <1>10, <1>11

(* The released object moves to the back of the queue of its key, and the  *)
(* temporary into the pointer.                                             *)
LEMMA PushPlacement ==
  ASSUME PoolInv, NEW t \in Threads, ReleasePush(t)
  PROVE  Exclusive' /\ NoneLost'
  <1>. DEFINE w == ikey[t]
              q == Append(free[w], item[t])
              e == Len(free[w]) + 1
  <1>1. /\ w \in Keys /\ item[t] \in 1..all /\ all' = all
        /\ free \in [Keys -> Seq(1..all)] /\ free[w] \in Seq(1..all)
        /\ free' = [free EXCEPT ![w] = q]
        /\ item[t] # None
    BY DEF PoolInv, TypeOK, Places, ReleasePush, None
  <1>2. /\ free'[w] = q
        /\ \A k \in Keys : k # w => free'[k] = free[k]
    BY <1>1
  <1>3. /\ \A n \in DOMAIN free[w] : n \in DOMAIN q /\ q[n] = free[w][n]
        /\ \A n \in DOMAIN q : n \in DOMAIN free[w] \/ n = e
        /\ e \in DOMAIN q /\ e \notin DOMAIN free[w] /\ q[e] = item[t]
    BY <1>1, AppendPositions
  <1>4. /\ item' = [item EXCEPT ![t] = tmp[t]]
        /\ tmp' = [tmp EXCEPT ![t] = None]
        /\ item \in [Threads -> 0..all] /\ tmp \in [Threads -> 0..all]
    BY DEF PoolInv, TypeOK, ReleasePush
  <1>. HIDE DEF w, q, e
  <1>5. PtrsDistinct' /\ TmpsDistinct' /\ PtrsNotTmps'
    BY <1>4 DEF PoolInv, Exclusive, PtrsDistinct, TmpsDistinct, PtrsNotTmps
  <1>6. \A k \in Keys : \A n \in DOMAIN free'[k] :
          \/ n \in DOMAIN free[k] /\ free'[k][n] = free[k][n]
          \/ k = w /\ n = e /\ free'[k][n] = item[t]
    BY <1>2, <1>3
  <1>7. FreeDistinct'
    <2>. SUFFICES ASSUME NEW k \in Keys, NEW l \in Keys,
                         NEW n \in DOMAIN free'[k], NEW m \in DOMAIN free'[l],
                         free'[k][n] = free'[l][m]
                  PROVE  k = l /\ n = m
      BY DEF FreeDistinct
    <2>. QED
      BY <1>6 DEF PoolInv, Exclusive, FreeDistinct, FreeNotHeld
  <1>8. FreeNotHeld'
    <2>. SUFFICES ASSUME NEW k \in Keys, NEW n \in DOMAIN free'[k],
                         NEW u \in Threads
                  PROVE  free'[k][n] # item'[u] /\ free'[k][n] # tmp'[u]
      BY DEF FreeNotHeld
    <2>1. CASE n \in DOMAIN free[k] /\ free'[k][n] = free[k][n]
      <3>1. free[k][n] \in 1..all
        BY <1>1, <2>1, ElementOfSeq, LenProperties
      <3>. QED
        BY <1>4, <2>1, <3>1 DEF PoolInv, Exclusive, FreeNotHeld, None
    <2>2. CASE free'[k][n] = item[t]
      BY <1>1, <1>4, <2>2
        DEF PoolInv, Exclusive, PtrsDistinct, PtrsNotTmps, None
    <2>. QED BY <1>6, <2>1, <2>2
  <1>9. NoneLost'
    <2>. SUFFICES ASSUME NEW i \in 1..all
                  PROVE  \/ \E u \in Threads : item'[u] = i \/ tmp'[u] = i
                         \/ Pooled(i)'
      BY <1>1 DEF NoneLost
    <2>1. CASE i = item[t]
      BY <1>1, <1>2, <1>3, <2>1 DEF Pooled
    <2>2. CASE Pooled(i)
      BY <1>2, <1>3, <2>2 DEF Pooled
    <2>3. ASSUME NEW u \in Threads, item[u] = i \/ tmp[u] = i, i # item[t]
          PROVE  \E v \in Threads : item'[v] = i \/ tmp'[v] = i
      BY <1>4, <2>3 DEF None
    <2>. QED
      BY <2>1, <2>2, <2>3 DEF PoolInv, NoneLost
  <1>. QED BY <1>5, <1>7, <1>8, <1>9 DEF Exclusive

(* Copying a pool_ptr moves the object from one pointer to another.        *)
LEMMA CopyPlacement ==
  ASSUME PoolInv, NEW t \in Threads, NEW u \in Threads, Copy(t, u)
  PROVE  Exclusive' /\ NoneLost'
  <1>1. /\ item' = [item EXCEPT ![u] = item[t], ![t] = None] /\ tmp' = tmp
        /\ free' = free /\ all' = all /\ item[u] = None /\ t # u
        /\ item \in [Threads -> 0..all] /\ item[t] # None
    BY DEF PoolInv, TypeOK, Copy
  <1>2. PtrsDistinct' /\ TmpsDistinct' /\ PtrsNotTmps' /\ FreeDistinct'
    BY <1>1 DEF PoolInv, Exclusive, PtrsDistinct, TmpsDistinct, PtrsNotTmps,
                FreeDistinct, None
  <1>3. FreeNotHeld'
    <2>. SUFFICES ASSUME NEW k \in Keys, NEW n \in DOMAIN free[k],
                         NEW v \in Threads
                  PROVE  free[k][n] # item'[v] /\ free[k][n] # tmp[v]
      BY <1>1 DEF FreeNotHeld
    <2>1. item'[v] = item[v] \/ item'[v] = item[t] \/ item'[v] = None
      BY <1>1
    <2>2. free[k][n] # None
      BY ElementOfSeq, LenProperties, SMTT(30) DEF PoolInv, TypeOK, None
    <2>. QED
      BY <2>1, <2>2 DEF PoolInv, Exclusive, FreeNotHeld
  <1>4. NoneLost'
    <2>. SUFFICES ASSUME NEW i \in 1..all
                  PROVE  \/ \E v \in Threads : item'[v] = i \/ tmp[v] = i
                         \/ Pooled(i)
      BY <1>1 DEF NoneLost, Pooled
    <2>1. ASSUME NEW v \in Threads, item[v] = i
          PROVE  \E x \in Threads : item'[x] = i
      BY <1>1, <2>1 DEF None
    <2>. QED BY <2>1 DEF PoolInv, NoneLost
  <1>. QED BY <1>2, <1>3, <1>4 DEF Exclusive

(* Every step keeps the invariant: one lemma above per action that moves   *)
(* an object.                                                              *)
LEMMA PoolInvInductive ==
  ASSUME PoolInv, [Next]_vars
  PROVE  PoolInv'
  <1>1. CASE UNCHANGED vars
    <2>1. Exclusive' /\ NoneLost'
      BY <1>1, NoMove DEF vars, PoolInv
    <2>. QED
      BY <1>1, <2>1 DEF vars, PoolInv, TypeOK, Places
  <1>2. CASE Next
    <2>1. TypeOK' /\ Places'
      BY <1>2, NextTypes DEF PoolInv
    <2>2. ASSUME NEW t \in Threads, Step(t) PROVE Exclusive' /\ NoneLost'
      <3>1. CASE \/ \E k \in Keys : Acquire(t, k)
                 \/ AcquireLock(t) \/ AcquireThrows(t) \/ ReleaseUnlock(t)
        BY <3>1, NoMove
          DEF PoolInv, Acquire, AcquireLock, AcquireThrows, ReleaseUnlock
      <3>. QED
        BY <2>2, <3>1, NewPlacement, ReusePlacement, PushPlacement,
           CopyPlacement DEF Step
    <2>. QED
      BY <1>2, <2>1, <2>2 DEF Next, PoolInv
  <1>. QED BY <1>1, <1>2

(* No two pool_ptrs ever share an object, no object is both in use and     *)
(* free, none is free twice, and none is forgotten.                        *)
THEOREM PoolSafe == Spec => []PoolInv
  <1>1. Init => PoolInv
    BY InitTypes, InitPlacement DEF PoolInv
  <1>2. PoolInv /\ [Next]_vars => PoolInv'
    BY PoolInvInductive
  <1>. QED
    BY <1>1, <1>2, PTL DEF Spec

-----------------------------------------------------------------------------
(* The permits.  Acquirers and Holders change by at most one thread each   *)
(* in a step; these facts count them.                                      *)
LEMMA CountAdd ==
  ASSUME NEW S \in SUBSET Threads, NEW t \in Threads \ S
  PROVE  Cardinality(S \cup {t}) = Cardinality(S) + 1
  BY FS_AddElement, FS_Subset, PoolAssumption

(* One thread less.                                                        *)
LEMMA CountRemove ==
  ASSUME NEW S \in SUBSET Threads, NEW t \in S
  PROVE  Cardinality(S \ {t}) = Cardinality(S) - 1
  BY FS_RemoveElement, FS_Subset, PoolAssumption

(* Both counts are numbers.                                                *)
LEMMA CountType ==
  ASSUME NEW S \in SUBSET Threads
  PROVE  Cardinality(S) \in Nat
  BY FS_Subset, FS_CardinalityType, PoolAssumption

(* Delivering an object leaves as many permits behind objects as before:   *)
(* the acquisition's permit becomes the pointer's, or stays with the       *)
(* temporary.                                                              *)
LEMMA DeliverPermits ==
  ASSUME PoolInv, NEW t \in Threads, NEW h, h # None, Deliver(t, h),
         pc[t] = "enter"
  PROVE  HandedOut' = HandedOut
  <1>1. tmp[t] = None /\ t \in Acquirers
    BY DEF PoolInv, Places, Acquirers
  <1>2. Acquirers \in SUBSET Threads /\ Holders \in SUBSET Threads
    BY DEF Acquirers, Holders
  <1>3. CASE item[t] = None
    <2>1. Acquirers' = Acquirers \ {t}
      BY <1>1, <1>3 DEF Deliver, Acquirers, PoolInv, TypeOK
    <2>2. Holders' = Holders \cup {t} /\ t \notin Holders
      BY <1>3 DEF Deliver, Holders, PoolInv, TypeOK
    <2>. QED
      BY <1>1, <1>2, <2>1, <2>2, CountAdd, CountRemove, CountType
        DEF HandedOut
  <1>4. CASE item[t] # None
    <2>1. Acquirers' = Acquirers
      BY <1>1, <1>4 DEF Deliver, Acquirers, PoolInv, TypeOK
    <2>2. Holders' = Holders
      BY <1>4 DEF Deliver, Holders, PoolInv, TypeOK
    <2>. QED
      BY <2>1, <2>2 DEF HandedOut
  <1>. QED BY <1>3, <1>4

(* Every step keeps the permits accounted for.                             *)
LEMMA PermitsInductive ==
  ASSUME PoolInv, PermitsAccounted, [Next]_vars
  PROVE  PermitsAccounted'
  <1>. SUFFICES ASSUME Limited PROVE permits' + HandedOut' + leaked' = Limit
    BY DEF PermitsAccounted
  <1>1. permits + HandedOut + leaked = Limit
    BY DEF PermitsAccounted
  <1>2. Acquirers \in SUBSET Threads /\ Holders \in SUBSET Threads
    BY DEF Acquirers, Holders
  <1>3. /\ permits \in Nat /\ leaked \in Nat /\ Limit \in Nat
        /\ Cardinality(Acquirers) \in Nat /\ Cardinality(Holders) \in Nat
    BY <1>2, CountType, PoolAssumption DEF PoolInv, TypeOK
  <1>4. ASSUME HandedOut' = HandedOut, UNCHANGED <<permits, leaked>>
        PROVE  permits' + HandedOut' + leaked' = Limit
    BY <1>1, <1>4
  <1>5. CASE UNCHANGED vars
    <2>1. HandedOut' = HandedOut
      BY <1>5 DEF vars, HandedOut, Acquirers, Holders
    <2>. QED BY <1>4, <1>5, <2>1 DEF vars
  <1>6. ASSUME NEW t \in Threads, NEW k \in Keys, Acquire(t, k)
        PROVE  permits' + HandedOut' + leaked' = Limit
    <2>1. Acquirers' = Acquirers /\ Holders' = Holders
      BY <1>6 DEF Acquire, Acquirers, Holders, PoolInv, TypeOK
    <2>. QED BY <1>4, <1>6, <2>1 DEF HandedOut, Acquire
  <1>7. ASSUME NEW t \in Threads, AcquireLock(t)
        PROVE  permits' + HandedOut' + leaked' = Limit
    <2>1. tmp[t] = None
      BY <1>7 DEF AcquireLock, PoolInv, Places
    <2>2. Acquirers' = Acquirers \cup {t} /\ t \notin Acquirers
      BY <1>7, <2>1 DEF AcquireLock, Acquirers, PoolInv, TypeOK
    <2>3. Holders' = Holders
      BY <1>7 DEF AcquireLock, Holders, PoolInv, TypeOK
    <2>4. permits' = permits - 1 /\ leaked' = leaked
      BY <1>7 DEF AcquireLock, PolicyLock
    <2>. QED
      BY <1>1, <1>2, <1>3, <2>2, <2>3, <2>4, CountAdd DEF HandedOut
  <1>8. ASSUME NEW t \in Threads, AcquireNew(t)
        PROVE  permits' + HandedOut' + leaked' = Limit
    <2>1. all + 1 # None
      BY DEF PoolInv, TypeOK, None
    <2>. QED
      BY <1>4, <1>8, <2>1, DeliverPermits DEF AcquireNew
  <1>9. ASSUME NEW t \in Threads, AcquireReuse(t)
        PROVE  permits' + HandedOut' + leaked' = Limit
    <2>1. Head(free[want[t]]) \in 1..all
      BY <1>9, TailPositions DEF PoolInv, TypeOK, AcquireReuse
    <2>2. Head(free[want[t]]) # None
      BY <2>1 DEF PoolInv, TypeOK, None
    <2>. QED
      BY <1>4, <1>9, <2>2, DeliverPermits DEF AcquireReuse
  <1>10. ASSUME NEW t \in Threads, AcquireThrows(t)
         PROVE  permits' + HandedOut' + leaked' = Limit
    <2>1. tmp[t] = None
      BY <1>10 DEF AcquireThrows, PoolInv, Places
    <2>2. Acquirers' = Acquirers \ {t} /\ t \in Acquirers
      BY <1>10, <2>1 DEF AcquireThrows, Acquirers, PoolInv, TypeOK
    <2>3. Holders' = Holders
      BY <1>10 DEF AcquireThrows, Holders, PoolInv, TypeOK
    <2>4. permits' = permits /\ leaked' = leaked + 1
      BY <1>10 DEF AcquireThrows
    <2>5. Cardinality(Acquirers') = Cardinality(Acquirers) - 1
      BY <1>2, <2>2, CountRemove
    <2>. QED
      BY <1>1, <1>3, <2>3, <2>4, <2>5 DEF HandedOut
  <1>11. ASSUME NEW t \in Threads, ReleaseUnlock(t)
         PROVE  permits' + HandedOut' + leaked' = Limit
    <2>1. Acquirers' = Acquirers
      BY <1>11 DEF ReleaseUnlock, Acquirers, PoolInv, TypeOK
    <2>2. Holders' = Holders \ {t} /\ t \in Holders
      BY <1>11 DEF ReleaseUnlock, Holders, PoolInv, TypeOK
    <2>3. permits' = permits + 1 /\ leaked' = leaked
      BY <1>11 DEF ReleaseUnlock, PolicyUnlock
    <2>. QED
      BY <1>1, <1>2, <1>3, <2>1, <2>2, <2>3, CountRemove DEF HandedOut
  <1>12. ASSUME NEW t \in Threads, ReleasePush(t)
         PROVE  permits' + HandedOut' + leaked' = Limit
    <2>1. t \notin Holders /\ UNCHANGED <<permits, leaked>>
      BY <1>12 DEF ReleasePush, Holders
    <2>2. CASE tmp[t] = None
      <3>1. Acquirers' = Acquirers /\ Holders' = Holders
        BY <1>12, <2>2 DEF ReleasePush, Acquirers, Holders, PoolInv, TypeOK
      <3>. QED BY <1>4, <2>1, <3>1 DEF HandedOut
    <2>3. CASE tmp[t] # None
      <3>1. Acquirers' = Acquirers \ {t} /\ t \in Acquirers
        BY <1>12, <2>3 DEF ReleasePush, Acquirers, PoolInv, TypeOK
      <3>2. Holders' = Holders \cup {t}
        BY <1>12, <2>3 DEF ReleasePush, Holders, PoolInv, TypeOK
      <3>. QED
        BY <1>1, <1>2, <1>3, <2>1, <3>1, <3>2, CountAdd, CountRemove
          DEF HandedOut
    <2>. QED BY <2>2, <2>3
  <1>13. ASSUME NEW t \in Threads, NEW u \in Threads, Copy(t, u)
         PROVE  permits' + HandedOut' + leaked' = Limit
    <2>1. Acquirers' = Acquirers
      BY <1>13 DEF Copy, Acquirers
    <2>2. /\ Holders' = (Holders \ {t}) \cup {u}
          /\ t \in Holders /\ u \notin Holders
      <3>1. /\ item'[u] = item[t] /\ item'[t] = None /\ t # u
            /\ \A v \in Threads \ {t, u} : item'[v] = item[v]
        BY <1>13 DEF Copy, PoolInv, TypeOK
      <3>2. /\ pc' = pc /\ pc[t] = "idle" /\ pc[u] = "idle"
            /\ item[t] # None /\ item[u] = None
        BY <1>13 DEF Copy
      <3>. QED
        BY <3>1, <3>2 DEF Holders
    <2>3. Cardinality(Holders \ {t}) = Cardinality(Holders) - 1
      BY <1>2, <2>2, CountRemove
    <2>4. Cardinality(Holders') = Cardinality(Holders \ {t}) + 1
      BY <1>2, <2>2, CountAdd
    <2>. QED
      BY <1>3, <1>4, <1>13, <2>1, <2>3, <2>4 DEF HandedOut, Copy
  <1>. QED
    BY <1>5, <1>6, <1>7, <1>8, <1>9, <1>10, <1>11, <1>12, <1>13
      DEF Next, Step

(* Every permit is in the semaphore, behind an object in use, or leaked by *)
(* a constructor that threw.                                               *)
THEOREM PermitsSafe == Spec => []PermitsAccounted
  <1>1. Init => PermitsAccounted
    <2>. SUFFICES ASSUME Init PROVE PermitsAccounted
      OBVIOUS
    <2>1. Acquirers = {} /\ Holders = {}
      BY DEF Init, Acquirers, Holders
    <2>. QED
      BY <2>1, FS_EmptySet, PoolAssumption
        DEF Init, PermitsAccounted, HandedOut
  <1>2. PoolInv /\ PermitsAccounted /\ [Next]_vars => PermitsAccounted'
    BY PermitsInductive
  <1>. QED
    BY <1>1, <1>2, PoolSafe, PTL DEF Spec

(* A limited pool never hands out more objects than its limit.             *)
THEOREM LimitSafe == Spec => []LimitRespected
  <1>1. PoolInv /\ PermitsAccounted => LimitRespected
    <2>1. Acquirers \in SUBSET Threads /\ Holders \in SUBSET Threads
      BY DEF Acquirers, Holders
    <2>2. Cardinality(Acquirers) \in Nat /\ Cardinality(Holders) \in Nat
      BY <2>1, CountType
    <2>. QED
      BY <2>2, PoolAssumption
        DEF PoolInv, TypeOK, PermitsAccounted, LimitRespected, HandedOut
  <1>. QED
    BY <1>1, PoolSafe, PermitsSafe, PTL

-----------------------------------------------------------------------------
(* The three places where the key of an object is kept: with the pointer,  *)
(* with the temporary, and by the queue it is in.                          *)
PtrKey(i, k) == \E t \in Threads : item[t] = i /\ ikey[t] = k
TmpKey(i, k) == \E t \in Threads : tmp[t] = i /\ want[t] = k
FreeKey(i, k) == \E n \in DOMAIN free[k] : free[k][n] = i
Filed(i, k) == PtrKey(i, k) \/ TmpKey(i, k) \/ FreeKey(i, k)

(* KeysOf, by these places.                                                *)
LEMMA KeysFiled ==
  ASSUME NEW i
  PROVE  /\ KeysOf(i) = {k \in Keys : Filed(i, k)}
         /\ KeysOf(i)' = {k \in Keys : Filed(i, k)'}
  BY DEF KeysOf, Filed, PtrKey, TmpKey, FreeKey

(* t is given the object h for its key want[t]: the other objects keep     *)
(* theirs, and h is filed under that key.                                  *)
LEMMA DeliverKeys ==
  ASSUME PoolInv, NEW t \in Threads, NEW h, Deliver(t, h), want' = want,
         pc[t] = "enter", h # None,
         NEW i, i # None, NEW k
  PROVE  /\ i # h => (PtrKey(i, k)' \/ TmpKey(i, k)' <=> PtrKey(i, k) \/ TmpKey(i, k))
         /\ (\A u \in Threads : item[u] # h /\ tmp[u] # h)
              => (PtrKey(h, k)' \/ TmpKey(h, k)' <=> k = want[t])
  <1>1. /\ tmp[t] = None /\ item \in [Threads -> 0..all] /\ tmp \in [Threads -> 0..all]
        /\ ikey \in [Threads -> Keys]
    BY DEF PoolInv, Places, TypeOK
  <1>2. CASE item[t] = None
    <2>1. item' = [item EXCEPT ![t] = h] /\ ikey' = [ikey EXCEPT ![t] = want[t]] /\ tmp' = tmp
      BY <1>2 DEF Deliver
    <2>2. /\ item'[t] = h /\ ikey'[t] = want[t]
          /\ \A u \in Threads : u # t => item'[u] = item[u] /\ ikey'[u] = ikey[u]
      BY <1>1, <2>1
    <2>. QED BY <1>2, <2>1, <2>2 DEF PtrKey, TmpKey
  <1>3. CASE item[t] # None
    <2>1. tmp' = [tmp EXCEPT ![t] = h] /\ item' = item /\ ikey' = ikey
      BY <1>3 DEF Deliver
    <2>2. /\ tmp'[t] = h /\ \A u \in Threads : u # t => tmp'[u] = tmp[u]
      BY <1>1, <2>1
    <2>. QED BY <1>1, <2>1, <2>2 DEF PtrKey, TmpKey
  <1>. QED BY <1>2, <1>3

(* A new object, all + 1, is filed under the key it was made for, and the  *)
(* others stay where they are.                                             *)
LEMMA NewKeys ==
  ASSUME PoolInv, NEW t \in Threads, AcquireNew(t), NEW h, h = all + 1
  PROVE  /\ \A i \in 1..all : KeysOf(i)' = KeysOf(i)
         /\ KeysOf(h)' = {want[t]}
  <1>1. /\ all \in Nat /\ free' = free /\ want' = want /\ h # None
        /\ Deliver(t, h) /\ pc[t] = "enter" /\ want[t] \in Keys
    BY DEF PoolInv, TypeOK, AcquireNew, None
  <1>2. \A u \in Threads : item[u] # h /\ tmp[u] # h
    BY DEF PoolInv, TypeOK
  <1>3. ASSUME NEW k \in Keys PROVE ~FreeKey(h, k) /\ ~FreeKey(h, k)'
    <2>1. ASSUME NEW n \in DOMAIN free[k] PROVE free[k][n] \in 1..all
      BY ElementOfSeq, LenProperties DEF PoolInv, TypeOK
    <2>. QED BY <1>1, <2>1 DEF FreeKey
  <1>4. \A i \in 1..all : i # h /\ i # None
    BY <1>1 DEF None
  <1>5. ASSUME NEW i \in 1..all, NEW k \in Keys PROVE Filed(i, k)' <=> Filed(i, k)
    <2>1. FreeKey(i, k)' <=> FreeKey(i, k)
      BY <1>1 DEF FreeKey
    <2>. QED BY <1>1, <1>4, <2>1, DeliverKeys DEF Filed
  <1>6. ASSUME NEW k \in Keys PROVE Filed(h, k)' <=> k = want[t]
    BY <1>1, <1>2, <1>3, DeliverKeys DEF Filed
  <1>7. ASSUME NEW i \in 1..all PROVE KeysOf(i)' = KeysOf(i)
    BY <1>5, KeysFiled
  <1>8. KeysOf(h)' = {want[t]}
    <2>1. KeysOf(h)' = {k \in Keys : Filed(h, k)'}
      BY KeysFiled
    <2>. QED BY <1>1, <1>6, <2>1
  <1>. QED BY <1>7, <1>8


(* The front of a queue goes to the thread that asked for its key.         *)
LEMMA ReuseKeys ==
  ASSUME PoolInv, NEW t \in Threads, AcquireReuse(t), NEW i \in 1..all
  PROVE  KeysOf(i)' = KeysOf(i)
  <1>0. PICK h : h = Head(free[want[t]])
    OBVIOUS
  <1>1. /\ want[t] \in Keys /\ free[want[t]] \in Seq(1..all) /\ free[want[t]] # <<>>
        /\ Deliver(t, h) /\ pc[t] = "enter" /\ want' = want /\ all \in Nat
        /\ free' = [free EXCEPT ![want[t]] = Tail(free[want[t]])]
        /\ free \in [Keys -> Seq(1..all)]
    BY <1>0 DEF PoolInv, TypeOK, AcquireReuse
  <1>. DEFINE w == want[t]
              q == Tail(free[w])
  <1>2. /\ h \in 1..all /\ h = free[w][1] /\ 1 \in DOMAIN free[w]
        /\ \A n \in DOMAIN q : n + 1 \in DOMAIN free[w] /\ n + 1 # 1 /\ n \in Nat
                               /\ q[n] = free[w][n + 1]
        /\ \A n \in DOMAIN free[w] :
             n = 1 \/ (n - 1 \in DOMAIN q /\ q[n - 1] = free[w][n])
    BY <1>0, <1>1, TailPositions
  <1>3. free'[w] = q /\ \A k \in Keys : k # w => free'[k] = free[k]
    BY <1>1
  <1>4. h # None /\ i # None
    BY <1>1, <1>2 DEF None
  <1>5. \A u \in Threads : item[u] # h /\ tmp[u] # h
    BY <1>1, <1>2 DEF PoolInv, Exclusive, FreeNotHeld
  <1>6. ASSUME NEW k \in Keys, NEW n \in DOMAIN free[k], free[k][n] = h
        PROVE  k = w /\ n = 1
    BY <1>1, <1>2, <1>6 DEF PoolInv, Exclusive, FreeDistinct
  <1>. HIDE DEF w, q
  <1>7. ASSUME NEW k \in Keys PROVE Filed(i, k)' <=> Filed(i, k)
    <2>1. CASE i # h
      <3>1. FreeKey(i, k)' <=> FreeKey(i, k)
        <4>1. CASE k # w
          BY <1>3, <4>1 DEF FreeKey
        <4>2. ASSUME k = w, FreeKey(i, w) PROVE \E n \in DOMAIN q : q[n] = i
          BY <1>2, <2>1, <4>2 DEF FreeKey
        <4>3. ASSUME k = w, NEW n \in DOMAIN q, q[n] = i PROVE FreeKey(i, w)
          BY <1>2, <4>3 DEF FreeKey
        <4>4. ASSUME k = w PROVE FreeKey(i, k)' <=> \E n \in DOMAIN q : q[n] = i
          BY <1>3, <4>4 DEF FreeKey
        <4>. QED BY <4>1, <4>2, <4>3, <4>4
      <3>. QED BY <1>1, <1>4, <2>1, <3>1, DeliverKeys DEF Filed
    <2>2. CASE i = h
      <3>1. ~FreeKey(h, k)'
        <4>1. ASSUME NEW n \in DOMAIN free'[k], free'[k][n] = h PROVE FALSE
          BY <1>2, <1>3, <1>6, <4>1
        <4>. QED BY <4>1 DEF FreeKey
      <3>2. FreeKey(h, k) <=> k = w
        BY <1>2, <1>6 DEF FreeKey
      <3>3. ~PtrKey(h, k) /\ ~TmpKey(h, k)
        BY <1>5 DEF PtrKey, TmpKey
      <3>4. PtrKey(h, k)' \/ TmpKey(h, k)' <=> k = w
        BY <1>1, <1>4, <1>5, DeliverKeys DEF w
      <3>. QED BY <2>2, <3>1, <3>2, <3>3, <3>4 DEF Filed
    <2>. QED BY <2>1, <2>2
  <1>. QED BY <1>7, KeysFiled

(* A released object goes to the queue of its key, and the temporary's key *)
(* goes to the pointer together with the object.                           *)
LEMMA PushKeys ==
  ASSUME PoolInv, NEW t \in Threads, ReleasePush(t), NEW i \in 1..all
  PROVE  KeysOf(i)' = KeysOf(i)
  <1>1. /\ item[t] \in 1..all /\ ikey[t] \in Keys
        /\ free' = [free EXCEPT ![ikey[t]] = Append(free[ikey[t]], item[t])]
        /\ item' = [item EXCEPT ![t] = tmp[t]] /\ ikey' = [ikey EXCEPT ![t] = want[t]]
        /\ tmp' = [tmp EXCEPT ![t] = None] /\ want' = want
        /\ free \in [Keys -> Seq(1..all)]
    BY DEF PoolInv, TypeOK, Places, ReleasePush, None
  <1>2. /\ item'[t] = tmp[t] /\ ikey'[t] = want[t] /\ tmp'[t] = None
        /\ \A u \in Threads :
             u # t => item'[u] = item[u] /\ ikey'[u] = ikey[u] /\ tmp'[u] = tmp[u]
    BY <1>1 DEF PoolInv, TypeOK
  <1>3. i # None
    BY DEF PoolInv, TypeOK, None
  <1>4. ASSUME NEW k \in Keys
        PROVE  FreeKey(i, k)' <=> FreeKey(i, k) \/ (i = item[t] /\ k = ikey[t])
    <2>1. CASE k # ikey[t]
      BY <1>1, <2>1 DEF FreeKey
    <2>2. CASE k = ikey[t]
      <3>. DEFINE q == Append(free[k], item[t])
      <3>1. free'[k] = q /\ free[k] \in Seq(1..all)
        BY <1>1, <2>2
      <3>2. /\ \A n \in DOMAIN free[k] : n \in DOMAIN q /\ q[n] = free[k][n]
            /\ \A n \in DOMAIN q : n \in DOMAIN free[k] \/ n = Len(free[k]) + 1
            /\ Len(free[k]) + 1 \in DOMAIN q /\ q[Len(free[k]) + 1] = item[t]
        BY <1>1, <3>1, AppendPositions
      <3>. HIDE DEF q
      <3>. QED BY <2>2, <3>1, <3>2 DEF FreeKey
    <2>. QED BY <2>1, <2>2
  <1>5. ASSUME NEW k \in Keys
        PROVE  Filed(i, k)' <=> Filed(i, k)
    <2>1. PtrKey(i, k)' => PtrKey(i, k) \/ TmpKey(i, k)
      BY <1>2 DEF PtrKey, TmpKey
    <2>2. TmpKey(i, k)' => TmpKey(i, k)
      BY <1>1, <1>2, <1>3 DEF TmpKey
    <2>3. PtrKey(i, k) => PtrKey(i, k)' \/ (i = item[t] /\ k = ikey[t])
      BY <1>2 DEF PtrKey
    <2>4. TmpKey(i, k) => TmpKey(i, k)' \/ PtrKey(i, k)'
      BY <1>1, <1>2 DEF PtrKey, TmpKey
    <2>5. i = item[t] /\ k = ikey[t] => PtrKey(i, k)
      BY DEF PtrKey
    <2>. QED BY <1>4, <2>1, <2>2, <2>3, <2>4, <2>5 DEF Filed
  <1>. QED BY <1>5, KeysFiled

(* The key moves with the object from one pointer to another.              *)
LEMMA CopyKeys ==
  ASSUME PoolInv, NEW t \in Threads, NEW u \in Threads, Copy(t, u), NEW i \in 1..all
  PROVE  KeysOf(i)' = KeysOf(i)
  <1>1. /\ item' = [item EXCEPT ![u] = item[t], ![t] = None]
        /\ ikey' = [ikey EXCEPT ![u] = ikey[t]] /\ UNCHANGED <<tmp, want, free>>
        /\ item[u] = None /\ t # u
    BY DEF Copy
  <1>2. /\ item'[u] = item[t] /\ item'[t] = None /\ ikey'[u] = ikey[t]
        /\ \A v \in Threads : v # u => ikey'[v] = ikey[v]
        /\ \A v \in Threads : v # u /\ v # t => item'[v] = item[v]
    BY <1>1 DEF PoolInv, TypeOK
  <1>3. i # None
    BY DEF PoolInv, TypeOK, None
  <1>4. ASSUME NEW k \in Keys PROVE Filed(i, k)' <=> Filed(i, k)
    <2>1. PtrKey(i, k)' <=> PtrKey(i, k)
      BY <1>1, <1>2, <1>3, ZenonT(60) DEF PtrKey
    <2>2. (TmpKey(i, k)' <=> TmpKey(i, k)) /\ (FreeKey(i, k)' <=> FreeKey(i, k))
      BY <1>1 DEF TmpKey, FreeKey
    <2>. QED BY <2>1, <2>2 DEF Filed
  <1>. QED BY <1>4, KeysFiled

(* No step files an object under another key.                              *)
LEMMA StepKeys ==
  ASSUME PoolInv, [Next]_vars, NEW i \in 1..all
  PROVE  KeysOf(i)' = KeysOf(i)
  <1>1. CASE UNCHANGED <<item, ikey, tmp, want, free>>
    BY <1>1 DEF KeysOf
  <1>2. ASSUME NEW t \in Threads, NEW k \in Keys, Acquire(t, k)
        PROVE  KeysOf(i)' = KeysOf(i)
    <2>1. UNCHANGED <<item, ikey, tmp, free>> /\ i # None
      BY <1>2 DEF Acquire, PoolInv, TypeOK, None
    <2>2. tmp[t] = None
      BY <1>2 DEF Acquire, PoolInv, Places
    <2>3. \A u \in Threads : u # t => want'[u] = want[u]
      BY <1>2 DEF Acquire, PoolInv, TypeOK
    <2>. QED BY <2>1, <2>2, <2>3 DEF KeysOf
  <1>3. ASSUME NEW t \in Threads, AcquireNew(t) PROVE KeysOf(i)' = KeysOf(i)
    BY <1>3, NewKeys
  <1>4. ASSUME NEW t \in Threads,
               AcquireLock(t) \/ AcquireThrows(t) \/ ReleaseUnlock(t)
        PROVE  KeysOf(i)' = KeysOf(i)
    BY <1>1, <1>4 DEF AcquireLock, AcquireThrows, ReleaseUnlock
  <1>. QED
    BY <1>1, <1>2, <1>3, <1>4, ReuseKeys, PushKeys, CopyKeys DEF Next, Step, vars

(* acquire(key) never returns an object that was made for another key.     *)
THEOREM KeysSafe == Spec => KeyStable
  <1>1. PoolInv /\ [Next]_vars => [\A i \in 1..all : KeysOf(i)' = KeysOf(i)]_vars
    BY StepKeys
  <1>. QED BY <1>1, PoolSafe, PTL DEF Spec, KeyStable


-----------------------------------------------------------------------------
(* What size() and in_use() count.                                         *)

(* A set has no fewer elements than its image.                             *)
LEMMA ImageBound ==
  ASSUME NEW S, IsFiniteSet(S), NEW f
  PROVE  /\ IsFiniteSet({f[x] : x \in S})
         /\ Cardinality({f[x] : x \in S}) <= Cardinality(S)
  <1>. DEFINE T == {f[x] : x \in S}
              g == [x \in S |-> f[x]]
  <1>1. g \in Surjection(S, T)
    BY DEF Surjection
  <1>. QED BY <1>1, FS_Surjection

(* Two sets together have no more elements than one after the other.       *)
LEMMA UnionBound ==
  ASSUME NEW S, NEW T, IsFiniteSet(S), IsFiniteSet(T)
  PROVE  /\ IsFiniteSet(S \cup T)
         /\ Cardinality(S \cup T) <= Cardinality(S) + Cardinality(T)
         /\ Cardinality(S \cup T) \in Nat
  <1>1. IsFiniteSet(S \cup T) /\ IsFiniteSet(S \cap T)
    BY FS_Union, FS_Intersection
  <1>2. Cardinality(S \cup T) = Cardinality(S) + Cardinality(T) - Cardinality(S \cap T)
    BY FS_Union
  <1>3. /\ Cardinality(S) \in Nat /\ Cardinality(T) \in Nat
        /\ Cardinality(S \cap T) \in Nat /\ Cardinality(S \cup T) \in Nat
    BY <1>1, FS_CardinalityType
  <1>. QED BY <1>1, <1>2, <1>3

(* Outside the pool in_use() counts the pointers that hold an object.      *)
LEMMA CountHeld == PoolInv => InUseExact
  <1>. SUFFICES ASSUME PoolInv, \A t \in Threads : pc[t] \in {"idle", "lock"}
                PROVE  in_use = Cardinality({t \in Threads : item[t] # None})
    BY DEF InUseExact
  <1>. DEFINE S == {t \in Threads : item[t] # None}
              T == {i \in 1..all : ~Pooled(i)}
              f == [t \in S |-> item[t]]
  <1>1. \A t \in Threads : tmp[t] = None
    BY DEF PoolInv, Places
  <1>2. \A t \in S : item[t] \in T
    <2>1. \A t \in S : item[t] \in 1..all
      BY DEF PoolInv, TypeOK, None
    <2>2. \A t \in S : ~Pooled(item[t])
      BY DEF PoolInv, Exclusive, FreeNotHeld, Pooled
    <2>. QED BY <2>1, <2>2
  <1>3. \A i \in T : \E t \in S : item[t] = i
    <2>1. \A i \in 1..all : i # None
      BY DEF PoolInv, TypeOK, None
    <2>. QED BY <1>1, <2>1 DEF PoolInv, NoneLost
  <1>4. f \in Bijection(S, T)
    <2>1. f \in [S -> T]
      BY <1>2
    <2>2. \A t, u \in S : f[t] = f[u] => t = u
      BY DEF PoolInv, Exclusive, PtrsDistinct
    <2>3. \A i \in T : \E t \in S : f[t] = i
      BY <1>3
    <2>. QED BY <2>1, <2>2, <2>3 DEF Bijection, Injection, IsInjective, Surjection
  <1>5. IsFiniteSet(S)
    BY FS_Subset, PoolAssumption
  <1>6. ExistsBijection(S, T)
    BY <1>4 DEF ExistsBijection
  <1>. HIDE DEF S, T, f
  <1>7. Cardinality(T) = Cardinality(S)
    BY <1>5, <1>6, FS_Bijection
  <1>. QED BY <1>7 DEF in_use, S, T

(* When a thread makes a new object for its key, the other objects of the  *)
(* key are behind permits, of which this thread has one itself, or in the  *)
(* hands of another thread between unlock() and the queue.                 *)
LEMMA NewCount ==
  ASSUME PoolInv, PermitsAccounted, Limited, NEW t \in Threads, AcquireNew(t)
  PROVE  /\ IsFiniteSet(ObjectsOf(want[t]))
         /\ Cardinality(ObjectsOf(want[t])) + 1 <= Limit + Cardinality(Threads) - 1
  <1>. DEFINE O == ObjectsOf(want[t])
              H == {item[u] : u \in Holders}
              A == {tmp[u] : u \in Acquirers \ {t}}
              R == {item[u] : u \in {v \in Threads \ {t} : pc[v] = "push"}}
  <1>1. free[want[t]] = <<>> /\ pc[t] = "enter" /\ tmp[t] = None /\ want[t] \in Keys
    BY DEF AcquireNew, PoolInv, Places, TypeOK
  <1>2. DOMAIN free[want[t]] = {}
    BY <1>1
  <1>3. O \subseteq (H \cup A) \cup R
    <2>. SUFFICES ASSUME NEW i \in O PROVE i \in (H \cup A) \cup R
      OBVIOUS
    <2>1. i \in 1..all /\ i # None /\ want[t] \in KeysOf(i)
      BY DEF ObjectsOf, PoolInv, TypeOK, None
    <2>2. \E u \in Threads : item[u] = i \/ tmp[u] = i
      BY <1>2, <2>1 DEF KeysOf
    <2>3. ASSUME NEW u \in Threads, item[u] = i PROVE i \in H \cup R
      <3>1. u # t \/ pc[u] # "push"
        BY <1>1
      <3>. QED BY <2>1, <2>3, <3>1 DEF Holders
    <2>4. ASSUME NEW u \in Threads, tmp[u] = i PROVE i \in A
      BY <1>1, <2>1, <2>4 DEF Acquirers
    <2>. QED BY <2>2, <2>3, <2>4
  <1>4. /\ Acquirers \in SUBSET Threads /\ Holders \in SUBSET Threads /\ t \in Acquirers
        /\ {v \in Threads \ {t} : pc[v] = "push"} \in SUBSET (Threads \ {t})
    BY <1>1 DEF Acquirers, Holders
  <1>5. /\ IsFiniteSet(Holders) /\ IsFiniteSet(Acquirers \ {t})
        /\ IsFiniteSet(Threads \ {t})
        /\ Cardinality(Acquirers \ {t}) = Cardinality(Acquirers) - 1
        /\ Cardinality(Threads \ {t}) = Cardinality(Threads) - 1
        /\ Cardinality(Acquirers) \in Nat /\ Cardinality(Holders) \in Nat
        /\ Cardinality(Threads) \in Nat
    BY <1>4, PoolAssumption, FS_Subset, FS_RemoveElement, FS_CardinalityType
  <1>6. /\ IsFiniteSet({v \in Threads \ {t} : pc[v] = "push"})
        /\ Cardinality({v \in Threads \ {t} : pc[v] = "push"}) <= Cardinality(Threads) - 1
        /\ Cardinality({v \in Threads \ {t} : pc[v] = "push"}) \in Nat
    BY <1>4, <1>5, FS_Subset, FS_CardinalityType
  <1>7. /\ IsFiniteSet(H) /\ Cardinality(H) <= Cardinality(Holders)
        /\ IsFiniteSet(A) /\ Cardinality(A) <= Cardinality(Acquirers) - 1
    BY <1>5, ImageBound
  <1>8. IsFiniteSet(R) /\ Cardinality(R) <= Cardinality({v \in Threads \ {t} : pc[v] = "push"})
    BY <1>6, ImageBound
  <1>. HIDE DEF O, H, A, R
  <1>9. /\ Cardinality(H) \in Nat /\ Cardinality(A) \in Nat /\ Cardinality(R) \in Nat
    BY <1>7, <1>8, FS_CardinalityType
  <1>10. /\ IsFiniteSet(H \cup A) /\ Cardinality(H \cup A) <= Cardinality(H) + Cardinality(A)
         /\ Cardinality(H \cup A) \in Nat
    BY <1>7, UnionBound
  <1>11. /\ IsFiniteSet((H \cup A) \cup R)
         /\ Cardinality((H \cup A) \cup R) <= Cardinality(H \cup A) + Cardinality(R)
         /\ Cardinality((H \cup A) \cup R) \in Nat
    BY <1>8, <1>10, UnionBound
  <1>12. IsFiniteSet(O) /\ Cardinality(O) <= Cardinality((H \cup A) \cup R)
         /\ Cardinality(O) \in Nat
    BY <1>3, <1>11, FS_Subset, FS_CardinalityType
  <1>13. Cardinality(Acquirers) + Cardinality(Holders) <= Limit
    BY <1>5, PoolAssumption DEF PermitsAccounted, HandedOut, PoolInv, TypeOK
  <1>14. Cardinality(O) + 1 <= Limit + Cardinality(Threads) - 1
    BY <1>5, <1>6, <1>7, <1>8, <1>9, <1>10, <1>11, <1>12, <1>13, PoolAssumption
  <1>. QED BY <1>12, <1>14 DEF O


(* Every step keeps the bound of every key.                                *)
LEMMA KeyBoundInductive ==
  ASSUME PoolInv, PermitsAccounted, KeyBound, [Next]_vars
  PROVE  KeyBound'
  <1>. SUFFICES ASSUME Limited, NEW k \in Keys
                PROVE  Cardinality(ObjectsOf(k)') <= Limit + Cardinality(Threads) - 1
    BY DEF KeyBound
  <1>1. Cardinality(ObjectsOf(k)) <= Limit + Cardinality(Threads) - 1
    BY DEF KeyBound
  <1>2. CASE all' = all
    <2>1. ObjectsOf(k)' = ObjectsOf(k)
      BY <1>2, StepKeys DEF ObjectsOf
    <2>. QED BY <1>1, <2>1
  <1>3. ASSUME NEW t \in Threads, AcquireNew(t)
        PROVE  Cardinality(ObjectsOf(k)') <= Limit + Cardinality(Threads) - 1
    <2>0. PICK h : h = all + 1
      OBVIOUS
    <2>1. /\ all \in Nat /\ all' = h /\ 1..all' = (1..all) \cup {h}
      BY <1>3, <2>0 DEF AcquireNew, PoolInv, TypeOK
    <2>2. /\ \A i \in 1..all : KeysOf(i)' = KeysOf(i)
          /\ KeysOf(h)' = {want[t]}
      BY <1>3, <2>0, NewKeys
    <2>3. ObjectsOf(k)' = ObjectsOf(k) \cup (IF k = want[t] THEN {h} ELSE {})
      BY <2>1, <2>2 DEF ObjectsOf
    <2>4. CASE k # want[t]
      BY <1>1, <2>3, <2>4
    <2>5. CASE k = want[t]
      <3>1. /\ IsFiniteSet(ObjectsOf(k))
            /\ Cardinality(ObjectsOf(k)) + 1 <= Limit + Cardinality(Threads) - 1
        BY <1>3, <2>5, NewCount
      <3>2. h \notin ObjectsOf(k)
        BY <2>0, <2>1 DEF ObjectsOf
      <3>3. Cardinality(ObjectsOf(k) \cup {h}) = Cardinality(ObjectsOf(k)) + 1
        BY <3>1, <3>2, FS_AddElement
      <3>. QED BY <2>3, <2>5, <3>1, <3>3
    <2>. QED BY <2>4, <2>5
  <1>4. CASE UNCHANGED vars
    BY <1>2, <1>4 DEF vars
  <1>5. ASSUME NEW t \in Threads, Step(t), ~AcquireNew(t) PROVE all' = all
    BY <1>5 DEF Step, Acquire, AcquireLock, AcquireReuse, AcquireThrows, ReleaseUnlock,
                ReleasePush, Copy
  <1>. QED BY <1>2, <1>3, <1>4, <1>5 DEF Next

(* So many keys, so many objects each: an object is told from the others   *)
(* by a key of its own and by its place among the objects of that key.     *)
LEMMA CountObjects == PoolInv /\ KeyBound => SizeBound
  <1>. SUFFICES ASSUME PoolInv, KeyBound, Limited
                PROVE  all <= Cardinality(Keys) * (Limit + Cardinality(Threads) - 1)
    BY DEF SizeBound, size
  <1>. DEFINE B == Limit + Cardinality(Threads) - 1
              key == [i \in 1..all |-> CHOOSE k \in Keys : k \in KeysOf(i)]
              Upto(i) == {j \in ObjectsOf(key[i]) : j <= i}
              f == [i \in 1..all |-> <<key[i], Cardinality(Upto(i))>>]
  <1>0. all \in Nat
    BY DEF PoolInv, TypeOK
  <1>1. B \in Nat
    <2>1. Cardinality(Threads) \in Nat /\ Cardinality(Threads) # 0
      BY PoolAssumption, UseAssumption, FS_CardinalityType, FS_EmptySet
    <2>. QED BY <2>1, PoolAssumption
  <1>2. ASSUME NEW i \in 1..all PROVE key[i] \in Keys /\ i \in ObjectsOf(key[i])
    <2>1. \E k \in Keys : k \in KeysOf(i)
      <3>1. CASE Pooled(i)
        BY <3>1 DEF Pooled, KeysOf
      <3>2. ASSUME NEW t \in Threads, item[t] = i \/ tmp[t] = i
            PROVE  ikey[t] \in KeysOf(i) \/ want[t] \in KeysOf(i)
        BY <3>2 DEF KeysOf, PoolInv, TypeOK
      <3>3. \A k \in KeysOf(i) : k \in Keys
        BY DEF KeysOf
      <3>. QED BY <3>1, <3>2, <3>3 DEF PoolInv, NoneLost
    <2>. QED BY <2>1 DEF ObjectsOf
  <1>3. ASSUME NEW k \in Keys
        PROVE  /\ ObjectsOf(k) \subseteq 1..all /\ IsFiniteSet(ObjectsOf(k))
               /\ Cardinality(ObjectsOf(k)) <= B
    <2>1. ObjectsOf(k) \subseteq 1..all
      BY DEF ObjectsOf
    <2>2. IsFiniteSet(1..all)
      BY <1>0, FS_Interval
    <2>. QED BY <2>1, <2>2, FS_Subset DEF KeyBound
  <1>. HIDE DEF key, B
  <1>4. ASSUME NEW i \in 1..all
        PROVE  /\ IsFiniteSet(Upto(i)) /\ i \in Upto(i)
               /\ Cardinality(Upto(i)) \in 1..B
    <2>1. Upto(i) \subseteq ObjectsOf(key[i]) /\ i \in Upto(i)
      BY <1>2
    <2>2. /\ IsFiniteSet(Upto(i)) /\ Cardinality(Upto(i)) <= Cardinality(ObjectsOf(key[i]))
      BY <1>2, <1>3, <2>1, FS_Subset
    <2>3. Cardinality(Upto(i)) \in Nat /\ Cardinality(Upto(i)) # 0
      BY <2>1, <2>2, FS_CardinalityType, FS_EmptySet
    <2>4. Cardinality(ObjectsOf(key[i])) \in Nat
      BY <1>2, <1>3, FS_CardinalityType
    <2>. QED BY <1>1, <1>2, <1>3, <2>1, <2>2, <2>3, <2>4
  <1>5. ASSUME NEW i \in 1..all, NEW j \in 1..all, i < j, key[i] = key[j]
        PROVE  Cardinality(Upto(i)) # Cardinality(Upto(j))
    <2>1. Upto(i) \subseteq Upto(j)
      BY <1>0, <1>2, <1>3, <1>5
    <2>2. j \in Upto(j) /\ j \notin Upto(i)
      <3>1. ~(j <= i) /\ j <= j
        BY <1>0, <1>5
      <3>. QED BY <1>2, <3>1
    <2>3. Upto(i) # Upto(j)
      BY <2>2
    <2>. QED BY <1>4, <2>1, <2>3, FS_Subset
  <1>. HIDE DEF Upto
  <1>6. f \in Injection(1..all, Keys \X (1..B))
    <2>1. f \in [1..all -> Keys \X (1..B)]
      BY <1>2, <1>4
    <2>2. ASSUME NEW i \in 1..all, NEW j \in 1..all, f[i] = f[j] PROVE i = j
      <3>1. key[i] = key[j] /\ Cardinality(Upto(i)) = Cardinality(Upto(j))
        BY <2>2
      <3>2. ~(i < j) /\ ~(j < i)
        BY <1>5, <3>1
      <3>. QED BY <1>0, <3>2
    <2>. HIDE DEF f
    <2>. QED BY <2>1, <2>2 DEF Injection, IsInjective
  <1>7. /\ IsFiniteSet(Keys) /\ IsFiniteSet(1..B) /\ Cardinality(1..B) = B
        /\ Cardinality(1..all) = all
    BY <1>0, <1>1, UseAssumption, FS_Interval
  <1>8. /\ IsFiniteSet(Keys \X (1..B)) /\ Cardinality(Keys \X (1..B)) = Cardinality(Keys) * B
    BY <1>7, FS_Product
  <1>. HIDE DEF f
  <1>9. Cardinality(1..all) <= Cardinality(Keys \X (1..B))
    BY <1>6, <1>8, FS_Injection
  <1>. QED BY <1>7, <1>8, <1>9 DEF B

(* size() never exceeds what the keys, the limit and the threads between   *)
(* unlock() and the queue account for, and in_use() is exact.              *)
THEOREM CountsSafe == Spec => []CountsTrue
  <1>1. Init => KeyBound
    <2>. SUFFICES ASSUME Init, NEW k \in Keys
                  PROVE  Cardinality(ObjectsOf(k)) <= Limit + Cardinality(Threads) - 1
      BY DEF KeyBound
    <2>1. ObjectsOf(k) = {}
      BY DEF Init, ObjectsOf
    <2>2. Cardinality(Threads) \in Nat /\ Cardinality(Threads) # 0
      BY PoolAssumption, UseAssumption, FS_CardinalityType, FS_EmptySet
    <2>. QED BY <2>1, <2>2, FS_EmptySet, PoolAssumption
  <1>2. PoolInv /\ PermitsAccounted /\ KeyBound /\ [Next]_vars => KeyBound'
    BY KeyBoundInductive
  <1>3. PoolInv /\ KeyBound => CountsTrue
    BY CountObjects, CountHeld DEF CountsTrue
  <1>. QED BY <1>1, <1>2, <1>3, PoolSafe, PermitsSafe, PTL DEF Spec

=============================================================================
