---------------------------- MODULE ReadWriteLock ----------------------------
(***************************************************************************)
(* What include/dcl/rwlock.h promises: the area is shared by readers or    *)
(* belongs to one writer ("blocks all reader and writer threads").         *)
(***************************************************************************)
CONSTANT Threads

VARIABLES readers, writers

lockVars == <<readers, writers>>

LockInit == readers = {} /\ writers = {}

BeginRead(t) ==
  /\ writers = {} /\ t \notin readers
  /\ readers' = readers \cup {t}
  /\ UNCHANGED writers

EndRead(t) ==
  /\ t \in readers
  /\ readers' = readers \ {t}
  /\ UNCHANGED writers

BeginWrite(t) ==
  /\ readers = {} /\ writers = {}
  /\ writers' = {t}
  /\ UNCHANGED readers

EndWrite(t) ==
  /\ t \in writers
  /\ writers' = writers \ {t}
  /\ UNCHANGED readers

LockNext ==
  \E t \in Threads : BeginRead(t) \/ EndRead(t) \/ BeginWrite(t) \/ EndWrite(t)

LockSpec == LockInit /\ [][LockNext]_lockVars

=============================================================================
