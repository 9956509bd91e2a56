--------------------------- MODULE RequestLifecycle ---------------------------
(***************************************************************************)
(* What tcp_server promises about a request, without threads, locks and    *)
(* buffers: who owns it, and in which order it changes hands.              *)
(*                                                                         *)
(*   none -> io -> queue -> worker -> io -> ... -> io -> gone              *)
(*                                                                         *)
(* A request is closed by its owner, never queued once it is closing, and  *)
(* deleted once, by the input/output thread.  A request whose handler      *)
(* throws outside that thread is lost for good.                            *)
(***************************************************************************)
CONSTANT Conns

VARIABLES
  owner,     \* owner[c]: who has the request of connection c
  closing    \* requests whose connection is to be closed

lifecycleVars == <<owner, closing>>

Owners == {"none", "io", "queue", "worker", "lost", "gone"}

LifecycleInit ==
  /\ owner = [c \in Conns |-> "none"]
  /\ closing = {}

Pass(c, from, to) ==
  /\ owner[c] = from
  /\ owner' = [owner EXCEPT ![c] = to]

(* A new request belongs to the input/output thread, unless on_connect     *)
(* throws.                                                                 *)
Accept(c) == (Pass(c, "none", "io") \/ Pass(c, "none", "lost")) /\ UNCHANGED closing

(* The input/output thread has handled an event of c.                      *)
Enqueue(c) == c \notin closing /\ Pass(c, "io", "queue") /\ UNCHANGED closing

Close(c) == owner[c] = "io" /\ closing' = closing \cup {c} /\ UNCHANGED owner

(* A worker takes c, and gives it back or loses it.                        *)
Take(c) == Pass(c, "queue", "worker") /\ UNCHANGED closing

GiveBack(c) == Pass(c, "worker", "io") /\ closing' \in {closing, closing \cup {c}}

Lose(c) == Pass(c, "worker", "lost") /\ UNCHANGED closing

(* The input/output thread deletes closing requests.                       *)
Disconnect(S) ==
  /\ \A c \in S : owner[c] = "io" /\ c \in closing
  /\ owner' = [c \in Conns |-> IF c \in S THEN "gone" ELSE owner[c]]
  /\ closing' = closing \ S

LifecycleNext ==
  \/ \E c \in Conns : Accept(c) \/ Enqueue(c) \/ Close(c) \/ Take(c)
                      \/ GiveBack(c) \/ Lose(c)
  \/ \E S \in SUBSET Conns : Disconnect(S)

LifecycleSpec == LifecycleInit /\ [][LifecycleNext]_lifecycleVars

=============================================================================
