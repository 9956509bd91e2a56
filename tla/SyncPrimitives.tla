--------------------------- MODULE SyncPrimitives ---------------------------
(***************************************************************************)
(* Threads and the primitives they share: thread, mutex, event, semaphore  *)
(* and singleton, as src/dcl/posix and src/dcl/win32 implement them.  The  *)
(* system calls are external; their meaning is that of POSIX (on Linux)    *)
(* and of the Windows documentation.                                       *)
(*                                                                         *)
(* Threads use the event as event.h says: under the mutex, for a predicate *)
(* (gate) that one of them makes true.  A thread that asks with try_enter  *)
(* or trylock believes the answer.                                         *)
(***************************************************************************)
EXTENDS Integers, FiniteSets, TLC

CONSTANTS Users,        \* threads, each with its thread object
          Platforms,    \* {"posix", "win32"}, or one of them
          SemPermits    \* initial value of the semaphore

Nobody == "nobody"
ASSUME SyncAssumption == Nobody \notin Users /\ SemPermits \in Nat

VARIABLES
  platform,
  life,      \* the thread behind each object
  frozen,    \* the whole process was stopped by a signal
  mx,        \* the mutex: owner, how often taken, abandoned (Win32)
  where,     \* where each thread is: "out", "in", "tried" (told it is in), ...
  gate,      \* the predicate the event is for
  raiser,    \* the thread that has opened the gate and will raise the event
  missed,    \* threads that waited when the event was raised and still do
  count,     \* the semaphore
  has,       \* threads that believe they have a permit of it
  misled,    \* some try_enter() or trylock() gave a wrong answer
  cs, instance, made, sing, ref  \* singleton: its mutex, pointer, constructions,
                                 \* callers and what they were given

syncVars == <<platform, life, frozen, mx, where, gate, raiser, missed,
              count, has, misled, cs, instance, made, sing, ref>>
mutexVars == <<mx, where>>
eventVars == <<gate, raiser, missed>>
semVars   == <<count, has>>
singVars  == <<cs, instance, made, sing, ref>>

Free == [owner |-> Nobody, depth |-> 0, abandoned |-> FALSE]

SyncInit ==
  /\ platform \in Platforms
  /\ life = [t \in Users |-> "new"] /\ frozen = FALSE
  /\ mx = Free /\ where = [t \in Users |-> "out"]
  /\ gate = FALSE /\ raiser = Nobody /\ missed = {}
  /\ count = SemPermits /\ has = {} /\ misled = FALSE
  /\ cs = Nobody /\ instance = 0 /\ made = 0
  /\ sing = [t \in Users |-> "none"] /\ ref = [t \in Users |-> 0]

Runs(t) == life[t] \in {"run", "cancelled"} /\ ~frozen
Posix == platform = "posix"
Go(t, w) == where' = [where EXCEPT ![t] = w]

-----------------------------------------------------------------------------
(* mutex                                                                   *)

enter(t) ==
  /\ Runs(t) /\ where[t] = "out"
  /\ mx.owner = Nobody \/ (~Posix /\ mx.owner = t)
  /\ mx' = [owner |-> t, depth |-> mx.depth + 1, abandoned |-> FALSE]
  /\ Go(t, "in")
  /\ UNCHANGED <<platform, life, frozen, misled, eventVars, semVars, singVars>>

\* The same thread once more: a default pthread mutex waits for ever, without
\* the error the implementation asks for; a Win32 mutex counts.
reenter(t) ==
  /\ Runs(t) /\ where[t] = "in" /\ mx.owner = t /\ mx.depth = 1
  /\ IF Posix THEN Go(t, "stuck") /\ UNCHANGED mx
     ELSE mx' = [mx EXCEPT !.depth = 2] /\ UNCHANGED where
  /\ UNCHANGED <<platform, life, frozen, misled, eventVars, semVars, singVars>>

\* EBUSY answers true, success false.
posix_try_enter(t) ==
  /\ Runs(t) /\ Posix /\ where[t] = "out" /\ misled' = TRUE
  /\ IF mx.owner = Nobody
     THEN mx' = [mx EXCEPT !.owner = t, !.depth = 1] /\ UNCHANGED where
     ELSE Go(t, "tried") /\ UNCHANGED mx
  /\ UNCHANGED <<platform, life, frozen, eventVars, semVars, singVars>>

\* WAIT_ABANDONED gives the mutex too, but is not WAIT_OBJECT_0.
win32_try_enter(t) ==
  /\ Runs(t) /\ ~Posix /\ where[t] = "out"
  /\ IF mx.owner \notin {Nobody, t} THEN UNCHANGED <<mx, where, misled>>
     ELSE /\ mx.depth < 2
          /\ mx' = [owner |-> t, depth |-> mx.depth + 1, abandoned |-> FALSE]
          /\ IF mx.abandoned THEN misled' = TRUE /\ UNCHANGED where
             ELSE Go(t, "in") /\ UNCHANGED misled
  /\ UNCHANGED <<platform, life, frozen, eventVars, semVars, singVars>>

\* A default pthread mutex is unlocked by whoever calls.
leave(t) ==
  /\ Runs(t) /\ where[t] \in {"in", "tried"}
  /\ LET d == IF Posix THEN 0 ELSE mx.depth - 1
     IN  /\ mx' = IF d <= 0 THEN Free ELSE [mx EXCEPT !.depth = d]
         /\ Go(t, IF d <= 0 THEN "out" ELSE "in")
  /\ UNCHANGED <<platform, life, frozen, misled, eventVars, semVars, singVars>>

-----------------------------------------------------------------------------
(* event                                                                   *)

\* pthread_cond_wait gives the mutex up and waits in one step;
\* SignalObjectAndWait may be overtaken between the two.
Fault_wait(t) ==
  /\ Runs(t) /\ where[t] = "in" /\ mx.owner = t /\ mx.depth = 1 /\ ~gate
  /\ mx' = Free /\ Go(t, "falls")
  /\ UNCHANGED <<platform, life, frozen, misled, eventVars, semVars, singVars>>
wait(t) ==
  /\ Runs(t) /\ where[t] = "in" /\ mx.owner = t /\ mx.depth = 1 /\ ~gate
  /\ mx' = Free /\ Go(t, IF Posix THEN "waits" ELSE "falls")
  /\ UNCHANGED <<platform, life, frozen, misled, eventVars, semVars, singVars>>
falls_asleep(t) ==
  /\ Runs(t) /\ where[t] = "falls" /\ Go(t, "waits")
  /\ UNCHANGED <<platform, life, frozen, mx, misled, eventVars, semVars, singVars>>

\* A wakeup without a cause, and the end of wait(): the mutex again.
spurious_wakeup(t) ==
  /\ Runs(t) /\ Posix /\ where[t] = "waits" /\ Go(t, "woken")
  /\ UNCHANGED <<platform, life, frozen, mx, misled, eventVars, semVars, singVars>>
wait_returns(t) ==
  /\ Runs(t) /\ where[t] = "woken" /\ mx.owner = Nobody
  /\ mx' = [owner |-> t, depth |-> 1, abandoned |-> FALSE] /\ Go(t, "in")
  /\ UNCHANGED <<platform, life, frozen, misled, eventVars, semVars, singVars>>

\* The predicate is made true under the mutex, then the event is raised.
open_gate(t) ==
  /\ Runs(t) /\ where[t] = "in" /\ mx.owner = t /\ ~gate
  /\ gate' = TRUE /\ raiser' = t
  /\ UNCHANGED <<platform, life, frozen, mutexVars, missed, misled, semVars, singVars>>

\* pthread_cond_broadcast; PulseEvent on an auto-reset event releases one.
raise(t) ==
  /\ Runs(t) /\ raiser = t /\ where[t] \in {"in", "out", "tried"}
  /\ LET waiting == {u \in Users : where[u] = "waits"}
     IN  \E woken \in SUBSET waiting :
           /\ IF Posix THEN woken = waiting
              ELSE Cardinality(woken) = (IF waiting = {} THEN 0 ELSE 1)
           /\ where' = [u \in Users |-> IF u \in woken THEN "woken" ELSE where[u]]
           /\ missed' = waiting \ woken
  /\ raiser' = Nobody
  /\ UNCHANGED <<platform, life, frozen, mx, gate, misled, semVars, singVars>>

-----------------------------------------------------------------------------
(* semaphore                                                               *)

lock(t) ==
  /\ Runs(t) /\ t \notin has /\ count > 0
  /\ count' = count - 1 /\ has' = has \cup {t}
  /\ UNCHANGED <<platform, life, frozen, mutexVars, eventVars, misled, singVars>>

\* semaphore::trylock() has no return statement: the answer is anything.
trylock(t) ==
  /\ Runs(t) /\ t \notin has
  /\ \E answer \in BOOLEAN :
       /\ has' = IF answer THEN has \cup {t} ELSE has
       /\ misled' = (misled \/ answer # (count > 0))
  /\ count' = IF count > 0 THEN count - 1 ELSE count
  /\ UNCHANGED <<platform, life, frozen, mutexVars, eventVars, singVars>>

unlock(t) ==
  /\ Runs(t) /\ t \in has
  /\ has' = has \ {t} /\ count' = count + 1
  /\ UNCHANGED <<platform, life, frozen, mutexVars, eventVars, misled, singVars>>

-----------------------------------------------------------------------------
(* singleton<T>::instance()                                                *)

Sing(t, s) == sing' = [sing EXCEPT ![t] = s] /\ UNCHANGED ref
Give(t, r) == sing' = [sing EXCEPT ![t] = "has"] /\ ref' = [ref EXCEPT ![t] = r]
instance_check(t) ==
  /\ Runs(t) /\ sing[t] = "none" /\ where[t] # "waits"
  /\ IF instance = 0 THEN Sing(t, "null") ELSE Give(t, instance)
  /\ UNCHANGED <<platform, life, frozen, mutexVars, eventVars, semVars, misled, cs, instance, made>>
instance_lock(t) ==
  /\ Runs(t) /\ sing[t] = "null" /\ cs = Nobody
  /\ cs' = t /\ Sing(t, "locked")
  /\ UNCHANGED <<platform, life, frozen, mutexVars, eventVars, semVars, misled, instance, made>>

\* Under the lock: look again, construct, and only then set the pointer.  The
\* constructor may throw.
Fault_instance_make(t) ==
  /\ Runs(t) /\ sing[t] = "locked"
  /\ made' = made + 1 /\ Sing(t, "built")
  /\ UNCHANGED <<platform, life, frozen, mutexVars, eventVars, semVars, misled, cs, instance>>
instance_make(t) ==
  /\ Runs(t) /\ sing[t] = "locked"
  /\ IF instance # 0
     THEN Give(t, instance) /\ cs' = Nobody /\ UNCHANGED made
     ELSE \/ made' = made + 1 /\ Sing(t, "built") /\ UNCHANGED cs
          \/ Sing(t, "threw") /\ cs' = Nobody /\ UNCHANGED made
  /\ UNCHANGED <<platform, life, frozen, mutexVars, eventVars, semVars, misled, instance>>
instance_set(t) ==
  /\ Runs(t) /\ sing[t] = "built"
  /\ instance' = made /\ Give(t, made) /\ cs' = Nobody
  /\ UNCHANGED <<platform, life, frozen, mutexVars, eventVars, semVars, misled, made>>

-----------------------------------------------------------------------------
(* thread: the objects are controlled from outside Users.                  *)

Live(t, l) == life' = [life EXCEPT ![t] = l]
start(t) ==
  /\ ~frozen /\ life[t] = "new"
  /\ Live(t, "run") \/ Live(t, "failed")
  /\ UNCHANGED <<platform, frozen, mutexVars, eventVars, semVars, misled, singVars>>

\* The handler returns (outside critical sections), pthread_exit.
execute(t) ==
  /\ Runs(t) /\ where[t] = "out" /\ sing[t] \notin {"locked", "built"}
  /\ Live(t, "ended")
  /\ UNCHANGED <<platform, frozen, mutexVars, eventVars, semVars, misled, singVars>>

\* pthread_cancel asks; TerminateThread ends the thread where it is, and a
\* mutex it owns is abandoned.
stop(t) ==
  /\ ~frozen /\ life[t] \in {"run", "paused"}
  /\ IF Posix THEN Live(t, "cancelled") /\ UNCHANGED <<mutexVars, cs>>
     ELSE /\ Live(t, "ended") /\ Go(t, "out")
          /\ mx' = IF mx.owner = t THEN [Free EXCEPT !.abandoned = TRUE] ELSE mx
          /\ cs' = IF cs = t THEN Nobody ELSE cs
  /\ UNCHANGED <<platform, frozen, eventVars, semVars, misled, instance, made, sing, ref>>

\* A cancelled thread acts on it in pthread_cond_wait, which takes the mutex
\* first; the guards on its stack then release it.
cancelled(t) ==
  /\ life[t] = "cancelled" /\ ~frozen /\ where[t] \in {"waits", "woken"} /\ mx.owner = Nobody
  /\ Live(t, "ended") /\ Go(t, "out")
  /\ UNCHANGED <<platform, frozen, mx, eventVars, semVars, misled, singVars>>

\* SIGSTOP stops every thread of the process, whichever it is sent to, so that
\* nobody is left to send SIGCONT; SuspendThread stops one.
pause(t) ==
  /\ ~frozen /\ life[t] = "run"
  /\ IF Posix THEN frozen' = TRUE /\ UNCHANGED life ELSE Live(t, "paused") /\ UNCHANGED frozen
  /\ UNCHANGED <<platform, mutexVars, eventVars, semVars, misled, singVars>>
resume(t) ==
  /\ ~frozen /\ life[t] = "paused" /\ Live(t, "run")
  /\ UNCHANGED <<platform, frozen, mutexVars, eventVars, semVars, misled, singVars>>

\* pthread_join and WaitForSingleObject return when the thread has ended.
wait_for(t) ==
  /\ ~frozen /\ life[t] = "ended" /\ Live(t, "joined")
  /\ UNCHANGED <<platform, frozen, mutexVars, eventVars, semVars, misled, singVars>>

-----------------------------------------------------------------------------
UsesMutex(t) ==
  \/ enter(t) \/ reenter(t) \/ posix_try_enter(t) \/ win32_try_enter(t) \/ leave(t)
  \/ wait(t) \/ spurious_wakeup(t) \/ open_gate(t)
UsesSemaphore(t) == lock(t) \/ trylock(t) \/ unlock(t)
UsesSingleton(t) ==
  instance_check(t) \/ instance_lock(t) \/ instance_make(t) \/ instance_set(t)
Uses(t) == UsesMutex(t) \/ UsesSemaphore(t) \/ UsesSingleton(t)
Wakes(t) == falls_asleep(t) \/ wait_returns(t) \/ cancelled(t)
Controls(t) == start(t) \/ execute(t) \/ stop(t) \/ pause(t) \/ resume(t) \/ wait_for(t)
SyncNext == \E t \in Users : Uses(t) \/ Wakes(t) \/ raise(t) \/ Controls(t)
\* The objects are independent of each other: what threads do with one of them,
\* while threads come and go.
MutexNext == \E t \in Users : UsesMutex(t) \/ Wakes(t) \/ raise(t) \/ Controls(t)
SemaphoreNext == \E t \in Users : UsesSemaphore(t) \/ Controls(t)
SingletonNext == \E t \in Users : UsesSingleton(t) \/ Controls(t)

SyncSpec == SyncInit /\ [][SyncNext]_syncVars

\* A thread that has opened the gate raises the event, one that was woken goes
\* on when it can.
SyncFairness == \A t \in Users : WF_syncVars(raise(t)) /\ WF_syncVars(Wakes(t))

-----------------------------------------------------------------------------
(* Properties.                                                             *)

\* mutex.h: "no other thread can enter the protected area".  As long as no
\* try_enter() has lied, a thread that is in is alone and owns the mutex, also
\* after wait(), after re-entry, after threads were cancelled or terminated;
\* and no thread that has ended leaves the mutex locked.
EnterAlone ==
  ~misled => \A t \in Users :
    /\ where[t] = "in" => mx.owner = t /\ \A u \in Users \ {t} : where[u] # "in"
    /\ life[t] \in {"ended", "joined"} => mx.owner # t

\* The permits of the semaphore and those who have one add up, as long as
\* trylock() has not lied.
PermitsKept == ~misled => count + Cardinality(has) = SemPermits

\* singleton.h: one instance, the same for every caller, however many threads
\* find the pointer empty at once and whichever constructors throw.
OneInstance ==
  platform = "posix" =>
    /\ made <= 1
    /\ \A t \in Users : sing[t] = "has" => ref[t] = instance /\ instance = made

\* The three ways to keep threads apart keep them apart, whatever order the
\* threads come in and wherever they are stopped.
OneAtATime == EnterAlone /\ PermitsKept /\ OneInstance

\* What OneAtATime rests on.  The mutex and the threads agree who is in: the
\* owner is the thread that is in, or stuck in a second enter(), and a thread
\* that has ended is nowhere.
MutexHeld ==
  /\ mx.owner = Nobody => mx.depth = 0
  /\ \A t \in Users : life[t] \in {"ended", "joined"} => where[t] = "out"
  /\ ~misled => \A t \in Users : /\ mx.owner = t <=> where[t] \in {"in", "stuck"}
                                /\ where[t] # "tried"

\* Only the thread that has the singleton's lock is between the second look
\* and the assignment, and the pointer is set after the only construction.
InstanceOrder ==
  platform = "posix" =>
    /\ \A t \in Users : cs = t <=> sing[t] \in {"locked", "built"}
    /\ \A t \in Users : sing[t] = "built" => instance = 0 /\ made = 1
    /\ (\A t \in Users : sing[t] # "built") => made = instance
    /\ instance \in {0, 1} /\ made \in {0, 1}
    /\ \A t \in Users : sing[t] = "has" => instance = 1 /\ ref[t] = 1

\* The values of what OneAtATime is about.
SyncTypes ==
  /\ mx \in [owner : Users \cup {Nobody}, depth : Nat, abandoned : BOOLEAN]
  /\ where \in [Users -> {"out", "in", "stuck", "tried", "falls", "waits", "woken"}]
  /\ life \in [Users -> {"new", "run", "failed", "cancelled", "paused", "ended", "joined"}]
  /\ count \in Nat /\ has \in SUBSET Users /\ misled \in BOOLEAN
  /\ cs \in Users \cup {Nobody} /\ instance \in Nat /\ made \in Nat
  /\ sing \in [Users -> {"none", "null", "locked", "built", "threw", "has"}]
  /\ ref \in [Users -> Nat]

\* The inductive invariant.
SyncInv == SyncTypes /\ MutexHeld /\ IsFiniteSet(has) /\ PermitsKept /\ InstanceOrder

\* A thread that waits for the open gate does not wait for ever, unless the
\* process is frozen or the thread that was to raise the event can't.
GateOpensForAll ==
  platform = "posix" =>
    \A t \in Users : (where[t] = "waits" /\ gate) ~>
      (where[t] # "waits" \/ frozen
       \/ (raiser # Nobody /\ (where[raiser] \in {"stuck", "waits"} \/ ~Runs(raiser))))

\* event.h:73: "Restarts all the threads that are waiting on this condition
\* variable."
RestartsAll == missed = {}

\* mutex.h:75: try_enter() returns "true, if the protected area is successfully
\* entered or the current thread already owns the mutex".
TryEnterTruthful == \A t \in Users : where[t] = "tried" => mx.owner = t

\* mutex.h:67: "If the one thread tries to lock same mutex twice, the exception
\* will be thrown": it is not left waiting for itself.
SecondEnterThrows == \A t \in Users : where[t] # "stuck"

\* semaphore.h:70: "If the lock counter is zero, then the function returns
\* false": no more threads are told that they have a permit than there are.
TrylockTruthful == Cardinality(has) <= SemPermits
=============================================================================
