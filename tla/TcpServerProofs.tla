--------------------------- MODULE TcpServerProofs ---------------------------
(***************************************************************************)
(* Proofs about TcpServer, for every set of connections and workers, every *)
(* queue size, and clients and handlers that do what they like.            *)
(***************************************************************************)
EXTENDS TcpServer, SequenceTheorems, TLAPS

(* push() at the back of the queue of requests.                            *)
LEMMA Enqueued ==
  ASSUME reqs \in Seq(Conns), NEW c \in Conns, reqs' = Append(reqs, c)
  PROVE  /\ reqs' \in Seq(Conns)
         /\ Queued' = Queued \cup {c}
         /\ QueueDistinct /\ c \notin Queued => QueueDistinct'
  <1>1. Len(reqs) \in Nat /\ DOMAIN reqs = 1..Len(reqs)
    BY LenProperties
  <1>2. reqs' \in Seq(Conns) /\ DOMAIN reqs' = 1..(Len(reqs) + 1)
        /\ (\A n \in 1..Len(reqs) : reqs'[n] = reqs[n])
        /\ reqs'[Len(reqs) + 1] = c
    BY AppendProperties, LenProperties
  <1>. QED BY <1>1, <1>2 DEF Queued, QueueDistinct

(* front() and pop() of the queue.                                         *)
LEMMA Dequeued ==
  ASSUME reqs \in Seq(Conns), reqs # <<>>, reqs' = Tail(reqs)
  PROVE  /\ reqs' \in Seq(Conns)
         /\ Head(reqs) \in Conns /\ Head(reqs) \in Queued
         /\ Queued' \subseteq Queued
         /\ QueueDistinct => QueueDistinct' /\ Queued' = Queued \ {Head(reqs)}
  <1>1. Len(reqs) \in Nat /\ DOMAIN reqs = 1..Len(reqs) /\ Len(reqs) # 0
    BY LenProperties, EmptySeq
  <1>2. /\ reqs' \in Seq(Conns) /\ DOMAIN reqs' = 1..(Len(reqs) - 1)
        /\ Head(reqs) \in Conns
        /\ \A n \in 1..(Len(reqs) - 1) : reqs'[n] = reqs[n + 1]
    BY HeadTailProperties, LenProperties
  <1>3. Head(reqs) = reqs[1] /\ 1 \in DOMAIN reqs
    BY <1>1
  <1>4. Queued' \subseteq Queued
    BY <1>1, <1>2 DEF Queued
  <1>5. ASSUME QueueDistinct PROVE QueueDistinct'
    <2>. SUFFICES ASSUME NEW m \in DOMAIN reqs', NEW n \in DOMAIN reqs',
                         reqs'[m] = reqs'[n]
                  PROVE  m = n
      BY DEF QueueDistinct
    <2>1. m + 1 \in DOMAIN reqs /\ n + 1 \in DOMAIN reqs
          /\ reqs[m + 1] = reqs[n + 1] /\ m \in Nat /\ n \in Nat
      BY <1>1, <1>2
    <2>2. m + 1 = n + 1
      BY <1>5, <2>1 DEF QueueDistinct
    <2>. QED BY <2>1, <2>2
  <1>6. ASSUME QueueDistinct PROVE Head(reqs) \notin Queued'
    <2>. SUFFICES ASSUME NEW n \in DOMAIN reqs', reqs'[n] = reqs[1] PROVE FALSE
      BY <1>3 DEF Queued
    <2>1. n + 1 \in DOMAIN reqs /\ reqs[n + 1] = reqs[1] /\ n \in Nat /\ n # 0
      BY <1>1, <1>2
    <2>2. n + 1 = 1
      BY <1>3, <1>6, <2>1 DEF QueueDistinct
    <2>. QED BY <2>1, <2>2
  <1>7. ASSUME NEW x \in Queued, x # Head(reqs) PROVE x \in Queued'
    <2>1. PICK n \in DOMAIN reqs : x = reqs[n]
      BY DEF Queued
    <2>2. n # 1 /\ n \in 1..Len(reqs)
      BY <1>1, <1>3, <1>7, <2>1
    <2>3. n - 1 \in 1..(Len(reqs) - 1) /\ reqs'[n - 1] = reqs[n]
      BY <1>1, <1>2, <2>2
    <2>. QED BY <1>2, <2>1, <2>3 DEF Queued
  <1>8. Head(reqs) \in Queued
    BY <1>3 DEF Queued
  <1>. QED BY <1>2, <1>4, <1>5, <1>6, <1>7, <1>8

-----------------------------------------------------------------------------
(* A write buffer: what waits in it, and the state of its stream.          *)
Buffers == [len : 0..MaxOut, buf : {"good", "eof", "bad"}]

(* A buffer of a connection whose client is at p, as EofMeansSent has it.  *)
Sent(b, p) ==
  /\ b.buf = "eof" => b.len = 0 \/ p = "reset"
  /\ b.buf = "bad" => p = "reset"

(* Output of a handler goes to a good stream only and does not change its  *)
(* state.                                                                  *)
LEMMA OutputsKeepState ==
  ASSUME NEW b \in Buffers, NEW o \in Outputs(b)
  PROVE  o \in Buffers /\ o.buf = b.buf /\ (b.buf # "good" => o.len = b.len)
  <1>1. b.len \in 0..MaxOut /\ b.buf \in {"good", "eof", "bad"}
    BY DEF Buffers
  <1>2. CASE o = b
    BY <1>2
  <1>3. CASE o # b
    <2>1. b.buf = "good" /\ b.len < MaxOut /\ o = [b EXCEPT !.len = b.len + 1]
      BY <1>3 DEF Outputs
    <2>2. b.len + 1 \in 0..MaxOut
      BY <1>1, <2>1, TcpServerAssumption
    <2>. QED BY <1>1, <2>1, <2>2 DEF Buffers
  <1>. QED BY <1>2, <1>3

(* What a visit of the walk over the active requests does to the request   *)
(* it visits, and where the request goes: connection_write(), then         *)
(* connection_read(), then Dispatch, or the end of the walk.               *)
LEMMA VisitEffect ==
  ASSUME TypeOK, EofMeansSent, NEW c \in Conns, IoVisit(c)
  PROVE  /\ io.pc = "walk" /\ c \in a_reqs
         /\ wlen' \in [Conns -> 0..MaxOut]
         /\ wbuf' \in [Conns -> {"good", "eof", "bad"}]
         /\ inbox' \in [Conns -> Nat]
         /\ EofMeansSent'
         /\ \E st \in {cur_state[c], "CLOSING"} :
              /\ cur_state' = [cur_state EXCEPT ![c] = st]
              /\ \/ /\ io' = [io EXCEPT !.pc = "check"]
                    /\ lock' = FALSE
                    /\ UNCHANGED <<a_reqs, reqs, wpc>>
                 \/ /\ io' = [io EXCEPT !.rfds = @ \ {c}, !.wfds = @ \ {c}]
                    /\ Dispatch(c, st)
                    /\ UNCHANGED lock
         /\ UNCHANGED <<is_stopped, peer, wrq, main, starts, lost>>
  <1>1. PICK b \in IF c \in io.wfds THEN connection_write(c)
                    ELSE {[len |-> wlen[c], buf |-> wbuf[c]]} :
             \E r \in IF c \in io.rfds THEN connection_read(c, b)
                 ELSE {[st |-> cur_state[c], b |-> b, in |-> inbox[c],
                        ok |-> TRUE]} :
               /\ cur_state' = [cur_state EXCEPT ![c] = r.st]
               /\ wlen' = [wlen EXCEPT ![c] = r.b.len]
               /\ wbuf' = [wbuf EXCEPT ![c] = r.b.buf]
               /\ inbox' = [inbox EXCEPT ![c] = r.in]
               /\ IF ~r.ok
                    THEN /\ io' = [io EXCEPT !.pc = "check"]
                         /\ lock' = FALSE
                         /\ UNCHANGED <<a_reqs, reqs, wpc>>
                    ELSE /\ io' = [io EXCEPT !.rfds = @ \ {c}, !.wfds = @ \ {c}]
                         /\ Dispatch(c, r.st)
                         /\ UNCHANGED lock
    BY DEF IoVisit
  <1>2. b \in Buffers /\ Sent(b, peer[c])
    <2>1. wlen[c] \in 0..MaxOut /\ wbuf[c] \in {"good", "eof", "bad"}
          /\ Sent([len |-> wlen[c], buf |-> wbuf[c]], peer[c])
      BY DEF TypeOK, EofMeansSent, Sent
    <2>2. CASE c \in io.wfds
      <3>1. b \in connection_write(c)
        BY <1>1, <2>2
      <3>2. 0..wlen[c] \subseteq 0..MaxOut
        BY <2>1, TcpServerAssumption
      <3>. QED BY <2>1, <3>1, <3>2 DEF connection_write, Buffers, Sent, EofMeansSent
    <2>3. CASE c \notin io.wfds
      BY <1>1, <2>1, <2>3 DEF Buffers
    <2>. QED BY <2>2, <2>3
  <1>3. PICK r \in IF c \in io.rfds THEN connection_read(c, b)
                    ELSE {[st |-> cur_state[c], b |-> b, in |-> inbox[c],
                           ok |-> TRUE]} :
               /\ cur_state' = [cur_state EXCEPT ![c] = r.st]
               /\ wlen' = [wlen EXCEPT ![c] = r.b.len]
               /\ wbuf' = [wbuf EXCEPT ![c] = r.b.buf]
               /\ inbox' = [inbox EXCEPT ![c] = r.in]
               /\ IF ~r.ok
                    THEN /\ io' = [io EXCEPT !.pc = "check"]
                         /\ lock' = FALSE
                         /\ UNCHANGED <<a_reqs, reqs, wpc>>
                    ELSE /\ io' = [io EXCEPT !.rfds = @ \ {c}, !.wfds = @ \ {c}]
                         /\ Dispatch(c, r.st)
                         /\ UNCHANGED lock
    BY <1>1
  <1>4. /\ r.st \in {cur_state[c], "CLOSING"} /\ r.in \in Nat
        /\ r.b \in Buffers /\ Sent(r.b, peer[c])
    <2>1. inbox[c] \in Nat
      BY DEF TypeOK
    <2>2. CASE c \notin io.rfds
      BY <1>2, <1>3, <2>1, <2>2
    <2>3. CASE c \in io.rfds /\ peer[c] = "reset"
      <3>1. r = [st |-> "CLOSING", b |-> b, in |-> 0, ok |-> TRUE]
        BY <1>3, <2>3 DEF connection_read
      <3>. QED BY <1>2, <3>1
    <2>5. CASE c \in io.rfds /\ peer[c] # "reset" /\ ~(inbox[c] > 0)
      <3>1. r = [st |-> cur_state[c], b |-> b, in |-> inbox[c], ok |-> TRUE]
        BY <1>3, <2>5 DEF connection_read
      <3>. QED BY <1>2, <2>1, <3>1
    <2>4. CASE c \in io.rfds /\ peer[c] # "reset" /\ inbox[c] > 0
      <3>1. /\ r.st \in {cur_state[c], "CLOSING"}
            /\ r.in \in 0..(inbox[c] - 1)
            /\ r.b \in Outputs([b EXCEPT !.buf = "good"])
        BY <1>3, <2>4 DEF connection_read, Answers
      <3>3. [b EXCEPT !.buf = "good"] \in Buffers
            /\ [b EXCEPT !.buf = "good"].buf = "good"
        BY <1>2 DEF Buffers
      <3>2. r.b \in Buffers /\ r.b.buf = "good"
        BY <3>1, <3>3, OutputsKeepState
      <3>. QED BY <2>1, <3>1, <3>2 DEF Sent
    <2>. QED BY <2>2, <2>3, <2>4, <2>5
  <1>5. r.b.len \in 0..MaxOut /\ r.b.buf \in {"good", "eof", "bad"}
    BY <1>4 DEF Buffers
  <1>6. /\ wlen' \in [Conns -> 0..MaxOut]
        /\ wbuf' \in [Conns -> {"good", "eof", "bad"}]
        /\ inbox' \in [Conns -> Nat]
    BY <1>3, <1>4, <1>5 DEF TypeOK
  <1>7. io.pc = "walk" /\ c \in a_reqs
        /\ UNCHANGED <<is_stopped, peer, wrq, main, starts, lost>>
    BY DEF IoVisit
  <1>8. EofMeansSent'
    <2>. SUFFICES ASSUME NEW d \in Conns
                  PROVE  /\ wbuf'[d] = "eof" => wlen'[d] = 0 \/ peer'[d] = "reset"
                         /\ wbuf'[d] = "bad" => peer'[d] = "reset"
      BY DEF EofMeansSent
    <2>1. CASE d = c
      BY <1>3, <1>4, <1>7, <2>1 DEF TypeOK, Sent
    <2>2. CASE d # c
      BY <1>3, <1>7, <2>2 DEF TypeOK, EofMeansSent
    <2>. QED BY <2>1, <2>2
  <1>. QED BY <1>3, <1>4, <1>6, <1>7, <1>8

-----------------------------------------------------------------------------
(* Every step keeps the types, and eofbit keeps its meaning.               *)
LEMMA NextTypes ==
  ASSUME TypeOK, ThreadPlaces, EofMeansSent, Next
  PROVE  TypeOK' /\ EofMeansSent'
  <1>. USE DEF None
  <1>r. Raised(wpc) \in [Workers -> {"off", "top", "wait", "run", "done"}]
    BY DEF TypeOK, Raised
  <1>1. CASE Main
    <2>1. CASE Start
      <3>1. is_stopped' \in BOOLEAN /\ starts' \in Nat
            /\ main' \in {"idle", "bind", "raise", "join", "crashed"}
        <4>1. starts' \in Nat
          BY <2>1 DEF Start, TypeOK
        <4>2. CASE is_stopped
          BY <2>1, <4>1, <4>2 DEF Start
        <4>3. CASE ~is_stopped
          BY <2>1, <4>1, <4>3 DEF Start, TypeOK
        <4>. QED BY <4>2, <4>3
      <3>. QED BY <2>1, <3>1 DEF Start, TypeOK, EofMeansSent, connVars
    <2>2. CASE StartThreads
      BY <2>2 DEF StartThreads, TypeOK, EofMeansSent, connVars
    <2>3. CASE StartFails
      BY <2>3 DEF StartFails, TypeOK, EofMeansSent, connVars
    <2>4. CASE Stop
      BY <2>4 DEF Stop, TypeOK, EofMeansSent, connVars
    <2>5. CASE StopRaise
      BY <1>r, <2>5 DEF StopRaise, TypeOK, EofMeansSent, connVars
    <2>6. CASE StopJoined
      BY <2>6 DEF StopJoined, TypeOK, EofMeansSent
    <2>7. CASE StopJoinsNothing
      BY <2>7 DEF StopJoinsNothing, TypeOK, EofMeansSent, connVars
    <2>. QED BY <1>1, <2>1, <2>2, <2>3, <2>4, <2>5, <2>6, <2>7 DEF Main
  <1>2. CASE Io
    <2>1. CASE IoCheck
      BY <2>1 DEF IoCheck, TypeOK, EofMeansSent, connVars
    <2>2. CASE IoSubscribe
      BY <2>2 DEF IoSubscribe, disconnect_client, States, TypeOK, EofMeansSent
    <2>3. ASSUME NEW W \in SUBSET io.wfds, IoSelect(W) PROVE TypeOK' /\ EofMeansSent'
      BY <2>3 DEF IoSelect, TypeOK, EofMeansSent, connVars
    <2>4. CASE AcceptRefused
      BY <2>4 DEF AcceptRefused, TypeOK, EofMeansSent, connVars
    <2>5. CASE AcceptFails
      BY <2>5 DEF AcceptFails, TypeOK, EofMeansSent, connVars
    <2>6. CASE AcceptPush
      <3>1. io.rq \in Conns
        BY <2>6 DEF AcceptPush, TypeOK, ThreadPlaces
      <3>. QED BY <2>6, <3>1 DEF AcceptPush, TypeOK, EofMeansSent, connVars
    <2>7. ASSUME NEW c \in Conns, AcceptNew(c) PROVE TypeOK' /\ EofMeansSent'
      <3>1. io' \in [pc : {"off", "listen", "check", "sweep", "select", "accept",
                           "push", "scan", "walk", "done"},
                     rfds : SUBSET Conns, wfds : SUBSET Conns, rq : Conns \cup {None}]
            /\ lost' \in SUBSET Conns
        BY <2>7, ZenonT(60) DEF AcceptNew, TypeOK
      <3>. QED BY <2>7, <3>1 DEF AcceptNew, TypeOK, EofMeansSent, States
    <2>8. ASSUME NEW c \in Conns, IoVisit(c) PROVE TypeOK' /\ EofMeansSent'
      <3>1. PICK st \in {cur_state[c], "CLOSING"} :
              /\ cur_state' = [cur_state EXCEPT ![c] = st]
              /\ \/ /\ io' = [io EXCEPT !.pc = "check"]
                    /\ lock' = FALSE
                    /\ UNCHANGED <<a_reqs, reqs, wpc>>
                 \/ /\ io' = [io EXCEPT !.rfds = @ \ {c}, !.wfds = @ \ {c}]
                    /\ Dispatch(c, st)
                    /\ UNCHANGED lock
        BY <2>8, VisitEffect
      <3>2. reqs' \in Seq(Conns) /\ a_reqs' \in SUBSET Conns
            /\ wpc' \in [Workers -> {"off", "top", "wait", "run", "done"}]
        BY <1>r, <3>1, Enqueued, ZenonT(60) DEF Dispatch, TypeOK
      <3>3. lock' \in BOOLEAN /\ cur_state' \in [Conns -> States]
        BY <3>1 DEF TypeOK, States
      <3>4. io' \in [pc : {"off", "listen", "check", "sweep", "select", "accept",
                           "push", "scan", "walk", "done"},
                     rfds : SUBSET Conns, wfds : SUBSET Conns, rq : Conns \cup {None}]
        <4>1. CASE io' = [io EXCEPT !.pc = "check"]
          BY <4>1 DEF TypeOK
        <4>2. CASE io' = [io EXCEPT !.rfds = @ \ {c}, !.wfds = @ \ {c}]
          BY <4>2 DEF TypeOK
        <4>. QED BY <3>1, <4>1, <4>2
      <3>. QED BY <2>8, <3>2, <3>3, <3>4, VisitEffect, ZenonT(60) DEF TypeOK
    <2>9. CASE IoScan
      BY <2>9 DEF IoScan, TypeOK, EofMeansSent, connVars
    <2>10. CASE IoWalked
      BY <2>10 DEF IoWalked, TypeOK, EofMeansSent, connVars
    <2>11. CASE IoListen
      BY <2>11 DEF IoListen, TypeOK, EofMeansSent, connVars
    <2>. QED
      BY <1>2, <2>1, <2>2, <2>3, <2>4, <2>5, <2>6, <2>7, <2>8, <2>9, <2>10,
         <2>11 DEF Io
  <1>3. ASSUME NEW w \in Workers, Worker(w) PROVE TypeOK' /\ EofMeansSent'
    <2>1. CASE WorkerTop(w)
      <3>1. reqs' \in Seq(Conns) /\ wrq' \in [Workers -> Conns \cup {None}]
            /\ wpc' \in [Workers -> {"off", "top", "wait", "run", "done"}]
        <4>1. CASE UNCHANGED <<reqs, wrq>>
          BY <2>1, <4>1 DEF WorkerTop, TypeOK
        <4>2. CASE reqs # <<>> /\ wpc' = [wpc EXCEPT ![w] = "run"]
                   /\ wrq' = [wrq EXCEPT ![w] = Head(reqs)] /\ reqs' = Tail(reqs)
          <5>1. reqs' \in Seq(Conns) /\ Head(reqs) \in Conns
            BY <4>2, Dequeued DEF TypeOK
          <5>. QED BY <4>2, <5>1 DEF TypeOK
        <4>. QED BY <2>1, <4>1, <4>2 DEF WorkerTop
      <3>. QED BY <2>1, <3>1 DEF WorkerTop, TypeOK, EofMeansSent, connVars
    <2>2. CASE WorkerWakes(w)
      BY <2>2 DEF WorkerWakes, TypeOK, EofMeansSent, connVars
    <2>3. CASE WorkerReturn(w)
      <3>. DEFINE c == wrq[w]
                  b == [len |-> wlen[c], buf |-> wbuf[c]]
      <3>1. c \in Conns
        BY <2>3 DEF WorkerReturn, ThreadPlaces, TypeOK
      <3>2. b \in Buffers
        BY <3>1 DEF Buffers, TypeOK
      <3>3. PICK o \in Outputs(b) : wlen' = [wlen EXCEPT ![c] = o.len]
        BY <2>3 DEF WorkerReturn
      <3>4. o.len \in 0..MaxOut /\ (wbuf[c] # "good" => o.len = wlen[c])
        BY <3>2, <3>3, OutputsKeepState DEF Buffers
      <3>5. EofMeansSent'
        BY <2>3, <3>1, <3>3, <3>4 DEF WorkerReturn, EofMeansSent, TypeOK
      <3>6. cur_state' \in [Conns -> States]
        BY <2>3, <3>1 DEF WorkerReturn, Answers, TypeOK, States
      <3>7. wlen' \in [Conns -> 0..MaxOut]
        BY <3>1, <3>3, <3>4 DEF TypeOK
      <3>. QED BY <2>3, <3>1, <3>5, <3>6, <3>7 DEF WorkerReturn, TypeOK
    <2>4. CASE WorkerThrows(w)
      <3>1. wrq[w] \in Conns
        BY <2>4 DEF WorkerThrows, ThreadPlaces, TypeOK
      <3>. QED BY <2>4, <3>1 DEF WorkerThrows, TypeOK, EofMeansSent, connVars
    <2>. QED BY <1>3, <2>1, <2>2, <2>3, <2>4 DEF Worker
  <1>4. ASSUME NEW c \in Conns, Client(c) PROVE TypeOK' /\ EofMeansSent'
    <2>1. CASE ClientConnect(c)
      BY <2>1 DEF ClientConnect, TypeOK, EofMeansSent
    <2>2. CASE ClientSend(c)
      BY <2>2 DEF ClientSend, TypeOK, EofMeansSent
    <2>3. CASE ClientClose(c)
      BY <2>3 DEF ClientClose, TypeOK, EofMeansSent
    <2>4. CASE ClientReset(c)
      BY <2>4 DEF ClientReset, TypeOK, EofMeansSent
    <2>. QED BY <1>4, <2>1, <2>2, <2>3, <2>4 DEF Client
  <1>5. CASE UncaughtException
    BY <1>5 DEF UncaughtException, TypeOK, EofMeansSent, connVars
  <1>. QED BY <1>1, <1>2, <1>3, <1>4, <1>5 DEF Next

(* Every thread is where ThreadPlaces says.                                *)
LEMMA NextPlaces ==
  ASSUME TypeOK, ThreadPlaces, EofMeansSent, Next
  PROVE  ThreadPlaces'
  <1>. USE DEF None
  <1>1. CASE Main
    <2>1. CASE Start
      BY <2>1 DEF Start, TypeOK, ThreadPlaces
    <2>2. CASE StartThreads
      BY <2>2 DEF StartThreads, TypeOK, ThreadPlaces
    <2>3. CASE StartFails
      BY <2>3 DEF StartFails, TypeOK, ThreadPlaces
    <2>4. CASE Stop
      BY <2>4 DEF Stop, TypeOK, ThreadPlaces
    <2>5. CASE StopRaise
      BY <2>5 DEF StopRaise, Raised, TypeOK, ThreadPlaces
    <2>6. CASE StopJoined
      BY <2>6 DEF StopJoined, TypeOK, ThreadPlaces
    <2>7. CASE StopJoinsNothing
      BY <2>7 DEF StopJoinsNothing, TypeOK, ThreadPlaces
    <2>. QED BY <1>1, <2>1, <2>2, <2>3, <2>4, <2>5, <2>6, <2>7 DEF Main
  <1>2. CASE Io
    <2>1. CASE IoCheck
      BY <2>1 DEF IoCheck, TypeOK, ThreadPlaces
    <2>2. CASE IoSubscribe
      BY <2>2 DEF IoSubscribe, TypeOK, ThreadPlaces
    <2>3. ASSUME NEW W \in SUBSET io.wfds, IoSelect(W) PROVE ThreadPlaces'
      BY <2>3 DEF IoSelect, TypeOK, ThreadPlaces
    <2>4. CASE AcceptRefused
      BY <2>4 DEF AcceptRefused, TypeOK, ThreadPlaces
    <2>5. CASE AcceptFails
      BY <2>5 DEF AcceptFails, TypeOK, ThreadPlaces
    <2>6. CASE AcceptPush
      BY <2>6 DEF AcceptPush, TypeOK, ThreadPlaces
    <2>7. ASSUME NEW c \in Conns, AcceptNew(c) PROVE ThreadPlaces'
      <3>1. /\ io.pc = "accept" /\ UNCHANGED <<is_stopped, lock, wpc, wrq, main>>
            /\ \/ io' = [io EXCEPT !.pc = "push", !.rq = c]
               \/ io' = [io EXCEPT !.pc = "check"]
        BY <2>7 DEF AcceptNew
      <3>2. CASE io' = [io EXCEPT !.pc = "push", !.rq = c]
        BY <3>1, <3>2, TcpServerAssumption DEF TypeOK, ThreadPlaces
      <3>3. CASE io' = [io EXCEPT !.pc = "check"]
        BY <3>1, <3>3 DEF TypeOK, ThreadPlaces
      <3>. QED BY <3>1, <3>2, <3>3
    <2>8. ASSUME NEW c \in Conns, IoVisit(c) PROVE ThreadPlaces'
      <3>1. /\ io.pc = "walk" /\ UNCHANGED <<is_stopped, wrq, main>>
            /\ wpc' \in {wpc, Raised(wpc)}
            /\ \/ io' = [io EXCEPT !.pc = "check"] /\ lock' = FALSE
               \/ io' = [io EXCEPT !.rfds = @ \ {c}, !.wfds = @ \ {c}] /\ lock' = lock
        BY <2>8, VisitEffect DEF Dispatch
      <3>2. \A w \in Workers : /\ wpc'[w] = "off" <=> wpc[w] = "off"
                               /\ wpc'[w] = "run" <=> wpc[w] = "run"
        BY <3>1 DEF TypeOK, Raised
      <3>3. /\ io'.rq = io.rq /\ io'.pc # "off" /\ io'.pc # "push"
            /\ lock' <=> io'.pc = "walk"
        <4>1. CASE io' = [io EXCEPT !.pc = "check"] /\ lock' = FALSE
          BY <4>1 DEF TypeOK
        <4>2. CASE io' = [io EXCEPT !.rfds = @ \ {c}, !.wfds = @ \ {c}] /\ lock' = lock
          BY <3>1, <4>2 DEF TypeOK, ThreadPlaces
        <4>. QED BY <3>1, <4>1, <4>2
      <3>. QED BY <3>1, <3>2, <3>3 DEF ThreadPlaces
    <2>9. CASE IoScan
      BY <2>9 DEF IoScan, TypeOK, ThreadPlaces
    <2>10. CASE IoWalked
      BY <2>10 DEF IoWalked, TypeOK, ThreadPlaces
    <2>11. CASE IoListen
      BY <2>11 DEF IoListen, TypeOK, ThreadPlaces
    <2>. QED
      BY <1>2, <2>1, <2>2, <2>3, <2>4, <2>5, <2>6, <2>7, <2>8, <2>9, <2>10,
         <2>11 DEF Io
  <1>3. ASSUME NEW w \in Workers, Worker(w) PROVE ThreadPlaces'
    <2>1. CASE WorkerTop(w)
      <3>1. UNCHANGED <<is_stopped, lock, io, main>>
        BY <2>1 DEF WorkerTop
      <3>2. wpc[w] = "top" /\ wpc'[w] \in {"wait", "done", "run"}
            /\ \A v \in Workers \ {w} : wpc'[v] = wpc[v] /\ wrq'[v] = wrq[v]
        BY <2>1 DEF WorkerTop, TypeOK
      <3>3. wrq'[w] # None <=> wpc'[w] = "run"
        <4>1. wrq[w] = None
          BY <3>2 DEF ThreadPlaces
        <4>2. reqs # <<>> => Head(reqs) # None
          BY HeadTailProperties, TcpServerAssumption DEF TypeOK
        <4>. QED BY <2>1, <4>1, <4>2 DEF WorkerTop, TypeOK
      <3>. QED BY <3>1, <3>2, <3>3 DEF ThreadPlaces
    <2>2. CASE WorkerWakes(w)
      BY <2>2 DEF WorkerWakes, TypeOK, ThreadPlaces
    <2>3. CASE WorkerReturn(w)
      BY <2>3 DEF WorkerReturn, TypeOK, ThreadPlaces
    <2>4. CASE WorkerThrows(w)
      BY <2>4 DEF WorkerThrows, TypeOK, ThreadPlaces
    <2>. QED BY <1>3, <2>1, <2>2, <2>3, <2>4 DEF Worker
  <1>4. ASSUME NEW c \in Conns, Client(c) PROVE ThreadPlaces'
    BY <1>4 DEF Client, ClientConnect, ClientSend, ClientClose, ClientReset,
                ThreadPlaces
  <1>5. CASE UncaughtException
    BY <1>5 DEF UncaughtException, ThreadPlaces
  <1>. QED BY <1>1, <1>2, <1>3, <1>4, <1>5 DEF Next

-----------------------------------------------------------------------------
(* Who owns a request.                                                     *)
Owned == SingleOwner /\ NoDangling /\ NoneForgotten /\ ClosingNotQueued

(* The places of io_process at which the descriptor sets are in use.       *)
InRound == {"select", "accept", "push", "scan", "walk"}

(* A step that leaves the requests where they are.                         *)
LEMMA KeepOwners ==
  ASSUME Owned, UNCHANGED <<a_reqs, reqs, cur_state, wrq, lost>>, io'.rq = io.rq,
         io'.pc \in InRound => io'.rfds \cup io'.wfds \subseteq a_reqs
  PROVE  Owned'
  <1>1. Queued' = Queued
    BY DEF Queued
  <1>2. Referenced' = Referenced
    BY <1>1 DEF Referenced
  <1>3. SingleOwner'
    BY <1>1 DEF Owned, SingleOwner, QueueDistinct, WorkersDistinct
  <1>4. NoDangling'
    BY <1>2 DEF Owned, NoDangling, InRound
  <1>5. NoneForgotten'
    BY <1>2 DEF Owned, NoneForgotten
  <1>6. ClosingNotQueued'
    BY <1>1 DEF Owned, ClosingNotQueued
  <1>. QED BY <1>3, <1>4, <1>5, <1>6 DEF Owned

(* disconnect_client() for the finished requests: they were active, so     *)
(* that nobody else had them, and they leave the active list.              *)
LEMMA SubscribeOwners ==
  ASSUME TypeOK, ThreadPlaces, Owned, IoSubscribe
  PROVE  Owned'
  <1>. USE DEF None
  <1>. DEFINE gone == {c \in a_reqs : Finished(c)}
  <1>1. /\ a_reqs' = a_reqs \ gone /\ UNCHANGED <<reqs, wrq, lost>>
        /\ cur_state' = [c \in Conns |-> IF c \in gone THEN "deleted" ELSE cur_state[c]]
        /\ io' = [io EXCEPT !.pc = "select", !.rfds = a_reqs \ gone,
                            !.wfds = {c \in a_reqs \ gone : wbuf[c] # "eof"}]
    BY DEF IoSubscribe, disconnect_client
  <1>2. Queued' = Queued /\ io'.rq = io.rq /\ gone \subseteq Conns
        /\ io'.rfds \cup io'.wfds \subseteq a_reqs'
    BY <1>1 DEF Queued, TypeOK
  <1>3. SingleOwner'
    BY <1>1, <1>2 DEF Owned, SingleOwner, QueueDistinct, WorkersDistinct
  <1>4. Referenced' = Referenced \ gone
    <2>1. \A c \in gone : c \notin Queued /\ c # io.rq /\ \A w \in Workers : c # wrq[w]
      BY DEF Owned, SingleOwner
    <2>. QED BY <1>1, <1>2, <2>1 DEF Referenced
  <1>5. Referenced \subseteq Conns
    <2>1. Queued \subseteq Conns
      BY DEF Queued, TypeOK
    <2>. QED BY <2>1 DEF Referenced, TypeOK
  <1>6. NoDangling'
    BY <1>1, <1>2, <1>4, <1>5 DEF Owned, NoDangling
  <1>7. NoneForgotten'
    <2>1. lost \subseteq Conns /\ lost \cap gone = {}
      BY TcpServerAssumption DEF Owned, NoneForgotten, Referenced, TypeOK
    <2>. QED BY <1>1, <1>4, <2>1 DEF Owned, NoneForgotten
  <1>8. ClosingNotQueued'
    <2>1. \A c \in Conns : cur_state'[c] = "CLOSING" => cur_state[c] = "CLOSING"
      BY <1>1
    <2>2. Queued \subseteq Conns
      BY DEF Queued, TypeOK
    <2>. QED BY <1>1, <1>2, <2>1, <2>2 DEF Owned, ClosingNotQueued, TypeOK
  <1>. QED BY <1>3, <1>6, <1>7, <1>8 DEF Owned

(* A new request: nobody has referred to its connection before.            *)
LEMMA AcceptOwners ==
  ASSUME TypeOK, ThreadPlaces, Owned, NEW c \in Conns, AcceptNew(c)
  PROVE  Owned'
  <1>. USE DEF None
  <1>1. /\ io.pc = "accept" /\ cur_state[c] = None
        /\ cur_state' = [cur_state EXCEPT ![c] = "WAIT_DATA"]
        /\ UNCHANGED <<a_reqs, reqs, wrq>>
        /\ \/ io' = [io EXCEPT !.pc = "push", !.rq = c] /\ lost' = lost
           \/ HandlersMayThrow /\ io' = [io EXCEPT !.pc = "check"] /\ lost' = lost \cup {c}
    BY DEF AcceptNew, Backlog
  <1>2. c \notin Referenced /\ c # None /\ io.rq = None
    BY <1>1, TcpServerAssumption DEF Owned, NoDangling, ThreadPlaces
  <1>3. c \notin a_reqs /\ c \notin Queued /\ \A w \in Workers : wrq[w] # c
    BY <1>2 DEF Referenced
  <1>4. Queued' = Queued /\ Queued \subseteq Conns
    BY <1>1 DEF Queued, TypeOK
  <1>5. CASE io' = [io EXCEPT !.pc = "push", !.rq = c] /\ lost' = lost
    <2>1. io'.rq = c /\ io'.pc = "push" /\ io'.rfds = io.rfds /\ io'.wfds = io.wfds
      BY <1>5 DEF TypeOK
    <2>2. Referenced' = Referenced \cup {c}
      BY <1>1, <1>2, <1>4, <2>1 DEF Referenced
    <2>3. SingleOwner'
      BY <1>1, <1>3, <1>4, <2>1 DEF Owned, SingleOwner, QueueDistinct, WorkersDistinct
    <2>4. NoDangling'
      BY <1>1, <1>2, <2>1, <2>2 DEF Owned, NoDangling, TypeOK
    <2>. QED
      <3>1. c \notin lost
        BY <1>1 DEF Owned, NoneForgotten
      <3>2. NoneForgotten'
        BY <1>1, <1>5, <2>2, <3>1 DEF Owned, NoneForgotten, TypeOK
      <3>3. ClosingNotQueued'
        BY <1>1, <1>3, <1>4 DEF Owned, ClosingNotQueued, TypeOK
      <3>. QED BY <2>3, <2>4, <3>2, <3>3 DEF Owned
  <1>6. CASE HandlersMayThrow /\ io' = [io EXCEPT !.pc = "check"]
             /\ lost' = lost \cup {c}
    <2>1. io'.rq = io.rq /\ io'.pc = "check"
      BY <1>6 DEF TypeOK
    <2>2. Referenced' = Referenced
      BY <1>1, <1>4, <2>1 DEF Referenced
    <2>3. SingleOwner'
      BY <1>1, <1>4, <2>1 DEF Owned, SingleOwner, QueueDistinct, WorkersDistinct
    <2>4. NoDangling'
      BY <1>1, <1>2, <2>1, <2>2 DEF Owned, NoDangling, TypeOK
    <2>5. NoneForgotten'
      BY <1>1, <1>2, <1>6, <2>2 DEF Owned, NoneForgotten, TypeOK
    <2>6. ClosingNotQueued'
      BY <1>1, <1>3, <1>4 DEF Owned, ClosingNotQueued, TypeOK
    <2>. QED BY <2>3, <2>4, <2>5, <2>6 DEF Owned
  <1>. QED BY <1>1, <1>5, <1>6

(* The end of connection_accept(): the new request joins the active ones.  *)
LEMMA PushOwners ==
  ASSUME TypeOK, ThreadPlaces, Owned, AcceptPush
  PROVE  Owned'
  <1>. USE DEF None
  <1>1. /\ io.pc = "push" /\ io.rq # None /\ a_reqs' = a_reqs \cup {io.rq}
        /\ io' = [io EXCEPT !.pc = "scan", !.rq = None]
        /\ UNCHANGED <<reqs, cur_state, wrq, lost>>
    BY DEF AcceptPush, connVars, ThreadPlaces
  <1>2. /\ io'.rq = None /\ io'.pc = "scan"
        /\ io'.rfds = io.rfds /\ io'.wfds = io.wfds
    BY <1>1 DEF TypeOK
  <1>3. Queued' = Queued /\ None \notin Queued' /\ None \notin a_reqs'
    BY <1>1, TcpServerAssumption DEF Queued, TypeOK
  <1>4. Referenced' = Referenced
    BY <1>1, <1>2, <1>3 DEF Referenced
  <1>5. SingleOwner'
    BY <1>1, <1>2, <1>3 DEF Owned, SingleOwner, QueueDistinct, WorkersDistinct
  <1>6. NoDangling'
    BY <1>1, <1>2, <1>4 DEF Owned, NoDangling
  <1>7. NoneForgotten' /\ ClosingNotQueued'
    BY <1>1, <1>3, <1>4 DEF Owned, NoneForgotten, ClosingNotQueued
  <1>. QED BY <1>5, <1>6, <1>7 DEF Owned

(* A visit: the request stays active, or goes to the queue.                *)
LEMMA VisitOwners ==
  ASSUME TypeOK, ThreadPlaces, EofMeansSent, Owned, NEW c \in Conns, IoVisit(c)
  PROVE  Owned'
  <1>. USE DEF None
  <1>1. PICK st \in {cur_state[c], "CLOSING"} :
          /\ cur_state' = [cur_state EXCEPT ![c] = st]
          /\ \/ /\ io' = [io EXCEPT !.pc = "check"]
                /\ UNCHANGED <<a_reqs, reqs>>
             \/ /\ io' = [io EXCEPT !.rfds = @ \ {c}, !.wfds = @ \ {c}]
                /\ Dispatch(c, st)
    BY VisitEffect
  <1>2. io.pc = "walk" /\ c \in a_reqs /\ UNCHANGED <<wrq, lost>>
    BY VisitEffect
  <1>3. io'.rq = io.rq /\ io.rq = None /\ io'.pc # "push"
    <2>1. io.rq = None
      BY <1>2 DEF ThreadPlaces
    <2>2. CASE io' = [io EXCEPT !.pc = "check"]
      BY <2>1, <2>2 DEF TypeOK
    <2>3. CASE io' = [io EXCEPT !.rfds = @ \ {c}, !.wfds = @ \ {c}]
      BY <1>2, <2>1, <2>3 DEF TypeOK
    <2>. QED BY <1>1, <2>1, <2>2, <2>3
  <1>4. /\ c \in Referenced /\ c \notin Queued /\ c \notin lost
        /\ \A w \in Workers : wrq[w] # c
    BY <1>2, TcpServerAssumption DEF Owned, SingleOwner, Referenced, NoneForgotten
  <1>5. cur_state[c] \in {"WAIT_DATA", "CLOSING"} /\ st \in {"WAIT_DATA", "CLOSING"}
    BY <1>1, <1>4 DEF Owned, NoDangling
  <1>6. CASE UNCHANGED <<a_reqs, reqs>>
    <2>1. Queued' = Queued
      BY <1>6 DEF Queued
    <2>2. Referenced' = Referenced
      BY <1>2, <1>3, <1>6, <2>1 DEF Referenced
    <2>3. SingleOwner'
      BY <1>2, <1>3, <1>6, <2>1 DEF Owned, SingleOwner, QueueDistinct, WorkersDistinct
    <2>4. io'.pc \in InRound => io'.rfds \cup io'.wfds \subseteq a_reqs'
      <3>1. io.rfds \cup io.wfds \subseteq a_reqs
        BY <1>2 DEF Owned, NoDangling
      <3>2. CASE io' = [io EXCEPT !.pc = "check"]
        BY <3>2 DEF TypeOK, InRound
      <3>3. CASE io' = [io EXCEPT !.rfds = @ \ {c}, !.wfds = @ \ {c}]
        BY <1>6, <3>1, <3>3 DEF TypeOK
      <3>. QED BY <1>1, <3>2, <3>3
    <2>5. NoDangling'
      BY <1>1, <1>5, <2>2, <2>4 DEF Owned, NoDangling, InRound, TypeOK
    <2>6. NoneForgotten'
      BY <1>1, <1>2, <1>4, <1>5, <2>2 DEF Owned, NoneForgotten, TypeOK
    <2>7. ClosingNotQueued'
      BY <1>1, <1>2, <1>4, <2>1 DEF Owned, ClosingNotQueued, TypeOK
    <2>. QED BY <2>3, <2>5, <2>6, <2>7 DEF Owned
  <1>7. CASE /\ st # "CLOSING" /\ reqs' = Append(reqs, c) /\ a_reqs' = a_reqs \ {c}
             /\ io' = [io EXCEPT !.rfds = @ \ {c}, !.wfds = @ \ {c}]
    <2>1. Queued' = Queued \cup {c} /\ QueueDistinct'
      BY <1>4, <1>7, Enqueued DEF Owned, SingleOwner, TypeOK
    <2>2. Referenced' = Referenced
      BY <1>2, <1>3, <1>7, <2>1 DEF Referenced
    <2>3. SingleOwner'
      BY <1>2, <1>3, <1>4, <1>7, <2>1, TcpServerAssumption
         DEF Owned, SingleOwner, WorkersDistinct
    <2>4. io'.rfds \cup io'.wfds \subseteq a_reqs'
      BY <1>2, <1>7 DEF Owned, NoDangling, TypeOK
    <2>5. NoDangling'
      BY <1>1, <1>5, <2>2, <2>4 DEF Owned, NoDangling, TypeOK
    <2>6. NoneForgotten'
      BY <1>1, <1>2, <1>4, <1>5, <2>2 DEF Owned, NoneForgotten, TypeOK
    <2>7. ClosingNotQueued'
      BY <1>1, <1>2, <1>4, <1>7, <2>1 DEF Owned, ClosingNotQueued, TypeOK
    <2>. QED BY <2>3, <2>5, <2>6, <2>7 DEF Owned
  <1>. QED BY <1>1, <1>6, <1>7 DEF Dispatch

(* A worker takes the oldest request of the queue, or leaves all as it is. *)
LEMMA TakeOwners ==
  ASSUME TypeOK, ThreadPlaces, Owned, NEW w \in Workers, WorkerTop(w)
  PROVE  Owned'
  <1>. USE DEF None
  <1>1. UNCHANGED <<a_reqs, cur_state, io, lost>> /\ wpc[w] = "top"
    BY DEF WorkerTop, connVars
  <1>2. CASE UNCHANGED <<reqs, wrq>>
    BY <1>1, <1>2, KeepOwners DEF Owned, NoDangling, InRound
  <1>3. CASE reqs # <<>> /\ wrq' = [wrq EXCEPT ![w] = Head(reqs)] /\ reqs' = Tail(reqs)
    <2>. DEFINE c == Head(reqs)
    <2>1. c \in Conns /\ c \in Queued /\ QueueDistinct' /\ Queued' = Queued \ {c}
      BY <1>3, Dequeued DEF Owned, SingleOwner, TypeOK
    <2>2. wrq[w] = None /\ c # None
      BY <1>1, <2>1, TcpServerAssumption DEF ThreadPlaces
    <2>3. wrq'[w] = c /\ \A v \in Workers \ {w} : wrq'[v] = wrq[v]
      BY <1>3 DEF TypeOK
    <2>. HIDE DEF c
    <2>4. Referenced' = Referenced
      <3>1. {wrq'[v] : v \in Workers} \ {None} = ({wrq[v] : v \in Workers} \ {None}) \cup {c}
        BY <2>2, <2>3
      <3>. QED BY <1>1, <2>1, <2>2, <3>1 DEF Referenced
    <2>5. SingleOwner'
      BY <1>1, <2>1, <2>2, <2>3 DEF Owned, SingleOwner, WorkersDistinct
    <2>6. NoDangling' /\ NoneForgotten'
      BY <1>1, <2>4 DEF Owned, NoDangling, NoneForgotten
    <2>7. ClosingNotQueued'
      BY <1>1, <2>1, <2>3 DEF Owned, ClosingNotQueued
    <2>. QED BY <2>5, <2>6, <2>7 DEF Owned
  <1>. QED BY <1>2, <1>3 DEF WorkerTop

(* A worker gives its request back to the active ones.                     *)
LEMMA ReturnOwners ==
  ASSUME TypeOK, ThreadPlaces, Owned, NEW w \in Workers, WorkerReturn(w)
  PROVE  Owned'
  <1>. USE DEF None
  <1>. DEFINE c == wrq[w]
  <1>1. PICK st \in Answers(c) : cur_state' = [cur_state EXCEPT ![c] = st]
    BY DEF WorkerReturn
  <1>2. /\ a_reqs' = a_reqs \cup {c} /\ wrq' = [wrq EXCEPT ![w] = None]
        /\ ~lock /\ UNCHANGED <<reqs, io, lost>> /\ c # None /\ c \in Conns
    BY DEF WorkerReturn, ThreadPlaces, TypeOK
  <1>3. Queued' = Queued
    BY <1>2 DEF Queued
  <1>4. /\ c \in Referenced /\ c \notin Queued /\ c # io.rq /\ c \notin lost
        /\ \A v \in Workers \ {w} : wrq[v] # c
    BY <1>2 DEF Owned, SingleOwner, WorkersDistinct, Referenced, NoneForgotten
  <1>5. st \in {"WAIT_DATA", "CLOSING"}
    BY <1>1, <1>4 DEF Owned, NoDangling, Answers
  <1>6. wrq'[w] = None /\ \A v \in Workers \ {w} : wrq'[v] = wrq[v]
    BY <1>2 DEF TypeOK
  <1>. HIDE DEF c
  <1>7. Referenced' = Referenced
    <2>1. ({wrq'[v] : v \in Workers} \cup {c}) \ {None} = {wrq[v] : v \in Workers} \ {None}
      BY <1>2, <1>6 DEF c
    <2>. QED BY <1>2, <1>3, <2>1 DEF Referenced
  <1>8. SingleOwner'
    BY <1>2, <1>3, <1>4, <1>6, TcpServerAssumption
       DEF Owned, SingleOwner, QueueDistinct, WorkersDistinct, Queued, TypeOK
  <1>9. NoDangling'
    BY <1>1, <1>2, <1>5, <1>7 DEF Owned, NoDangling, TypeOK
  <1>10. NoneForgotten'
    BY <1>1, <1>2, <1>4, <1>5, <1>7 DEF Owned, NoneForgotten, TypeOK
  <1>11. ClosingNotQueued'
    BY <1>1, <1>2, <1>3, <1>4, <1>6 DEF Owned, ClosingNotQueued, TypeOK
  <1>. QED BY <1>8, <1>9, <1>10, <1>11 DEF Owned

(* A worker whose handler throws loses its request for good.               *)
LEMMA ThrowOwners ==
  ASSUME TypeOK, ThreadPlaces, Owned, NEW w \in Workers, WorkerThrows(w)
  PROVE  Owned'
  <1>. USE DEF None
  <1>. DEFINE c == wrq[w]
  <1>1. /\ HandlersMayThrow /\ lost' = lost \cup {c} /\ wrq' = [wrq EXCEPT ![w] = None]
        /\ UNCHANGED <<a_reqs, reqs, cur_state, io>> /\ c # None /\ c \in Conns
    BY DEF WorkerThrows, connVars, ThreadPlaces, TypeOK
  <1>2. Queued' = Queued
    BY <1>1 DEF Queued
  <1>3. /\ c \in Referenced /\ c \notin Queued /\ c # io.rq /\ c \notin a_reqs
        /\ \A v \in Workers \ {w} : wrq[v] # c
    BY <1>1 DEF Owned, SingleOwner, WorkersDistinct, Referenced
  <1>4. wrq'[w] = None /\ \A v \in Workers \ {w} : wrq'[v] = wrq[v]
    BY <1>1 DEF TypeOK
  <1>. HIDE DEF c
  <1>5. Referenced' = Referenced \ {c}
    <2>1. {wrq'[v] : v \in Workers} \ {None} = ({wrq[v] : v \in Workers} \ {None}) \ {c}
      BY <1>3, <1>4 DEF c
    <2>. QED BY <1>1, <1>2, <1>3, <2>1 DEF Referenced
  <1>6. SingleOwner'
    BY <1>1, <1>2, <1>4, TcpServerAssumption
       DEF Owned, SingleOwner, QueueDistinct, WorkersDistinct, Queued, TypeOK
  <1>7. NoDangling'
    BY <1>1, <1>5 DEF Owned, NoDangling
  <1>8. NoneForgotten'
    BY <1>1, <1>3, <1>5 DEF Owned, NoneForgotten, NoDangling
  <1>9. ClosingNotQueued'
    BY <1>1, <1>2, <1>4 DEF Owned, ClosingNotQueued
  <1>. QED BY <1>6, <1>7, <1>8, <1>9 DEF Owned

(* Every step of the threads and of the clients keeps the owners.          *)
LEMMA NextOwners ==
  ASSUME TypeOK, ThreadPlaces, EofMeansSent, Owned, Next
  PROVE  Owned'
  <1>. USE DEF None
  <1>1. io.pc \in InRound => io.rfds \cup io.wfds \subseteq a_reqs
    BY DEF Owned, NoDangling, InRound
  <1>2. CASE Main
    <2>1. CASE Start \/ StartFails \/ Stop \/ StopRaise \/ StopJoinsNothing
      BY <1>1, <2>1, KeepOwners
         DEF Start, StartFails, Stop, StopRaise, StopJoinsNothing, connVars
    <2>2. CASE StartThreads \/ StopJoined
      <3>1. io'.rq = io.rq /\ io'.pc \notin InRound
            /\ UNCHANGED <<a_reqs, reqs, cur_state, wrq, lost>>
        BY <2>2 DEF StartThreads, StopJoined, connVars, InRound, TypeOK
      <3>. QED BY <3>1, KeepOwners
    <2>. QED BY <1>2, <2>1, <2>2 DEF Main
  <1>3. CASE Io
    <2>1. CASE IoListen \/ IoCheck \/ AcceptRefused \/ AcceptFails \/ IoScan
               \/ IoWalked
      <3>1. UNCHANGED <<a_reqs, reqs, cur_state, wrq, lost>>
        BY <2>1 DEF IoListen, IoCheck, AcceptRefused, AcceptFails, IoScan, IoWalked,
                    connVars
      <3>2. io'.rq = io.rq /\ io'.rfds = io.rfds /\ io'.wfds = io.wfds
            /\ (io'.pc \in InRound => io.pc \in InRound)
        BY <2>1 DEF IoListen, IoCheck, AcceptRefused, AcceptFails, IoScan, IoWalked,
                    InRound, TypeOK
      <3>. QED BY <1>1, <3>1, <3>2, KeepOwners
    <2>2. CASE IoSubscribe
      BY <2>2, SubscribeOwners
    <2>3. ASSUME NEW W \in SUBSET io.wfds, IoSelect(W) PROVE Owned'
      <3>1. UNCHANGED <<a_reqs, reqs, cur_state, wrq, lost>>
        BY <2>3 DEF IoSelect, connVars
      <3>2. io'.rq = io.rq /\ io'.rfds \subseteq io.rfds /\ io'.wfds = W
            /\ io.pc = "select"
        BY <2>3 DEF IoSelect, TypeOK
      <3>. QED BY <1>1, <3>1, <3>2, KeepOwners DEF InRound
    <2>4. CASE AcceptPush
      BY <2>4, PushOwners
    <2>5. ASSUME NEW c \in Conns, AcceptNew(c) \/ IoVisit(c) PROVE Owned'
      BY <2>5, AcceptOwners, VisitOwners
    <2>. QED BY <1>3, <2>1, <2>2, <2>3, <2>4, <2>5 DEF Io
  <1>4. ASSUME NEW w \in Workers, Worker(w) PROVE Owned'
    <2>1. CASE WorkerWakes(w)
      BY <1>1, <2>1, KeepOwners DEF WorkerWakes, connVars
    <2>. QED BY <1>4, <2>1, TakeOwners, ReturnOwners, ThrowOwners DEF Worker
  <1>5. ASSUME NEW c \in Conns, Client(c) PROVE Owned'
    <2>1. UNCHANGED <<a_reqs, reqs, cur_state, wrq, lost, io>>
      BY <1>5 DEF Client, ClientConnect, ClientSend, ClientClose, ClientReset
    <2>. QED BY <1>1, <2>1, KeepOwners
  <1>6. CASE UncaughtException
    BY <1>1, <1>6, KeepOwners DEF UncaughtException, connVars
  <1>. QED BY <1>2, <1>3, <1>4, <1>5, <1>6 DEF Next

-----------------------------------------------------------------------------
(* A server that was never started.                                        *)
LEMMA InitInv == Init => ServerInv
  <1>. SUFFICES ASSUME Init PROVE ServerInv
    OBVIOUS
  <1>. USE DEF None
  <1>1. reqs = <<>> /\ reqs \in Seq(Conns) /\ Queued = {} /\ QueueDistinct
    BY EmptySeq DEF Init, Queued, QueueDistinct
  <1>2. TypeOK
    <2>1. /\ wlen \in [Conns -> 0..MaxOut] /\ wbuf \in [Conns -> {"good", "eof", "bad"}]
          /\ inbox \in [Conns -> Nat] /\ starts \in Nat
      BY TcpServerAssumption DEF Init
    <2>2. /\ cur_state \in [Conns -> States]
          /\ peer \in [Conns -> {None, "open", "closed", "reset"}]
          /\ wpc \in [Workers -> {"off", "top", "wait", "run", "done"}]
          /\ wrq \in [Workers -> Conns \cup {None}]
      BY DEF Init, States
    <2>3. io \in [pc : {"off", "check", "sweep", "select", "accept", "push", "scan",
                        "walk", "done"},
                  rfds : SUBSET Conns, wfds : SUBSET Conns, rq : Conns \cup {None}]
      BY DEF Init
    <2>. QED BY <1>1, <2>1, <2>2, <2>3 DEF Init, TypeOK
  <1>3. ThreadPlaces /\ EofMeansSent
    BY DEF Init, ThreadPlaces, EofMeansSent
  <1>4. Referenced = {}
    BY <1>1 DEF Init, Referenced
  <1>5. SingleOwner
    BY <1>1 DEF Init, SingleOwner, WorkersDistinct
  <1>6. NoDangling /\ NoneForgotten /\ ClosingNotQueued
    BY <1>1, <1>4 DEF Init, NoDangling, NoneForgotten, ClosingNotQueued
  <1>. QED BY <1>2, <1>3, <1>5, <1>6 DEF ServerInv

(* Every step keeps the invariant, and so does a step in which nothing     *)
(* happens.                                                                *)
LEMMA StepInv == ServerInv /\ [Next]_vars => ServerInv'
  <1>1. ASSUME ServerInv, Next PROVE ServerInv'
    <2>1. TypeOK /\ ThreadPlaces /\ EofMeansSent /\ Owned
      BY <1>1 DEF ServerInv, Owned
    <2>2. TypeOK' /\ EofMeansSent' /\ ThreadPlaces' /\ Owned'
      BY <1>1, <2>1, NextTypes, NextPlaces, NextOwners
    <2>. QED BY <2>2 DEF ServerInv, Owned
  <1>2. ASSUME ServerInv, UNCHANGED vars PROVE ServerInv'
    <2>1. Queued' = Queued /\ QueueDistinct' = QueueDistinct
      BY <1>2 DEF vars, Queued, QueueDistinct
    <2>2. Referenced' = Referenced
      BY <1>2, <2>1 DEF vars, Referenced
    <2>. QED BY <1>2, <2>1, <2>2
         DEF ServerInv, vars, TypeOK, ThreadPlaces, SingleOwner, WorkersDistinct,
             NoDangling, NoneForgotten, ClosingNotQueued, EofMeansSent
  <1>. QED BY <1>1, <1>2

(* The server keeps its invariant: every request has one owner, nothing    *)
(* refers to a deleted one, none is forgotten unless a handler threw, and  *)
(* none is queued while it is closing, for any number of connections and   *)
(* workers and whatever the handlers and the clients do.                   *)
THEOREM ServerSafe == Spec => []ServerInv
  BY InitInv, StepInv, PTL DEF Spec

(* No list, queue, thread or descriptor set refers to a request that       *)
(* disconnect_client() has deleted.                                        *)
THEOREM NothingDangles == Spec => []NoDangling
  <1>1. ServerInv => NoDangling
    BY DEF ServerInv
  <1>. QED BY <1>1, ServerSafe, PTL

(* Every request is in the hands of a thread or in a queue, unless a       *)
(* handler threw while a worker or connection_accept() held it.            *)
THEOREM NothingForgotten == Spec => []NoneForgotten
  <1>1. ServerInv => NoneForgotten
    BY DEF ServerInv
  <1>. QED BY <1>1, ServerSafe, PTL

(* When stop() has returned, no thread of the server runs and _lock is     *)
(* free.                                                                   *)
THEOREM StopLeavesNoThread == Spec => []StoppedMeansQuiet
  <1>1. ServerInv => StoppedMeansQuiet
    BY DEF ServerInv, ThreadPlaces, StoppedMeansQuiet
  <1>. QED BY <1>1, ServerSafe, PTL

-----------------------------------------------------------------------------
(* A client is disconnected by io_process only, once its buffer has been   *)
(* sent or the connection is broken.                                       *)
THEOREM DisconnectsFlushed == Spec => FlushedBeforeDisconnect
  <1>. DEFINE A == \A c \in Conns :
                     cur_state[c] # "deleted" /\ cur_state'[c] = "deleted"
                       => cur_state[c] = "CLOSING" /\ (wlen[c] = 0 \/ peer[c] = "reset")
  <1>1. ServerInv /\ [Next]_vars => [A]_vars
    <2>. SUFFICES ASSUME ServerInv, Next PROVE A
      OBVIOUS
    <2>. USE DEF None
    <2>t. TypeOK /\ ThreadPlaces /\ EofMeansSent
      BY DEF ServerInv
    <2>1. CASE UNCHANGED cur_state
      BY <2>1
    <2>2. CASE IoSubscribe
      BY <2>2, <2>t DEF IoSubscribe, disconnect_client, Finished, EofMeansSent
    <2>3. ASSUME NEW c \in Conns, AcceptNew(c) PROVE A
      BY <2>3, <2>t DEF AcceptNew, TypeOK
    <2>4. ASSUME NEW c \in Conns, IoVisit(c) PROVE A
      <3>1. PICK st \in {cur_state[c], "CLOSING"} :
              cur_state' = [cur_state EXCEPT ![c] = st]
        BY <2>4, <2>t, VisitEffect
      <3>. QED BY <2>t, <3>1 DEF TypeOK
    <2>5. ASSUME NEW w \in Workers, WorkerReturn(w) PROVE A
      <3>1. PICK st \in Answers(wrq[w]) :
              cur_state' = [cur_state EXCEPT ![wrq[w]] = st]
        BY <2>5 DEF WorkerReturn
      <3>. QED BY <2>t, <3>1 DEF Answers, TypeOK
    <2>6. CASE Main
      BY <2>1, <2>6 DEF Main, Start, StartThreads, StartFails, Stop, StopRaise,
                        StopJoined, StopJoinsNothing, connVars
    <2>7. CASE Io
      <3>1. CASE IoListen \/ IoCheck \/ AcceptRefused \/ AcceptFails \/ AcceptPush
                 \/ IoScan \/ IoWalked \/ \E W \in SUBSET io.wfds : IoSelect(W)
        BY <2>1, <3>1 DEF IoListen, IoCheck, AcceptRefused, AcceptFails, AcceptPush, IoScan,
                          IoWalked, IoSelect, connVars
      <3>. QED BY <2>2, <2>3, <2>4, <2>7, <3>1 DEF Io
    <2>8. ASSUME NEW w \in Workers, Worker(w) PROVE A
      BY <2>1, <2>5, <2>8 DEF Worker, WorkerTop, WorkerWakes, WorkerThrows, connVars
    <2>9. ASSUME NEW c \in Conns, Client(c) PROVE A
      BY <2>1, <2>9 DEF Client, ClientConnect, ClientSend, ClientClose, ClientReset
    <2>10. CASE UncaughtException
      BY <2>1, <2>10 DEF UncaughtException, connVars
    <2>. QED BY <2>6, <2>7, <2>8, <2>9, <2>10 DEF Next
  <1>. QED BY <1>1, ServerSafe, PTL DEF Spec, FlushedBeforeDisconnect

-----------------------------------------------------------------------------
(* The refinement of RequestLifecycle.                                     *)

(* A step that leaves the state, the queue and the holders of requests as  *)
(* they are changes no owner.                                              *)
LEMMA SameOwners ==
  ASSUME UNCHANGED <<reqs, cur_state, wrq, lost>>
  PROVE  UNCHANGED Lifecycle!lifecycleVars
  <1>1. Queued' = Queued
    BY DEF Queued
  <1>. QED BY <1>1 DEF OwnerOf, Lifecycle!lifecycleVars

(* A step after which c has owner to, and which changes nothing about      *)
(* other requests.                                                         *)
LEMMA PassedOn ==
  ASSUME NEW c \in Conns, NEW from, NEW to, OwnerOf(c) = from, OwnerOf(c)' = to,
         \A d \in Conns \ {c} : OwnerOf(d)' = OwnerOf(d)
  PROVE  Lifecycle!Pass(c, from, to)
  BY DEF Lifecycle!Pass

(* The owner of a request, read off the places it can be in.               *)
LEMMA OwnerPlaces ==
  ASSUME Owned, NEW c \in Conns, cur_state[c] \in {"WAIT_DATA", "CLOSING"}
  PROVE  /\ c \in lost => OwnerOf(c) = "lost"
         /\ c \in Queued => OwnerOf(c) = "queue"
         /\ \A w \in Workers : wrq[w] = c => OwnerOf(c) = "worker"
         /\ c \in a_reqs \/ c = io.rq => OwnerOf(c) = "io"
  <1>1. c # None
    BY TcpServerAssumption
  <1>2. c \in Referenced => c \notin lost
    BY DEF Owned, NoneForgotten
  <1>. QED BY <1>1, <1>2 DEF Owned, SingleOwner, Referenced, OwnerOf, None

(* connection_accept() makes a request of its own, or loses it.            *)
LEMMA AcceptRefines ==
  ASSUME TypeOK, ThreadPlaces, Owned, NEW c \in Conns, AcceptNew(c)
  PROVE  Lifecycle!Accept(c)
  <1>. USE DEF None
  <1>1. /\ cur_state[c] = None /\ cur_state' = [cur_state EXCEPT ![c] = "WAIT_DATA"]
        /\ UNCHANGED <<reqs, wrq>> /\ (lost' = lost \/ lost' = lost \cup {c})
    BY DEF AcceptNew, Backlog
  <1>2. c \notin Referenced /\ c # None /\ c \notin lost
    BY <1>1, TcpServerAssumption DEF Owned, NoDangling, NoneForgotten
  <1>3. Queued' = Queued
    BY <1>1 DEF Queued
  <1>4. c \notin Queued /\ \A w \in Workers : wrq[w] # c
    BY <1>2 DEF Referenced
  <1>5. cur_state'[c] = "WAIT_DATA" /\ \A d \in Conns \ {c} : cur_state'[d] = cur_state[d]
    BY <1>1 DEF TypeOK
  <1>6. OwnerOf(c) = "none" /\ OwnerOf(c)' \in {"io", "lost"}
    BY <1>1, <1>3, <1>4, <1>5 DEF OwnerOf
  <1>7. \A d \in Conns \ {c} : OwnerOf(d)' = OwnerOf(d)
    BY <1>1, <1>3, <1>5 DEF OwnerOf
  <1>8. {d \in Conns : cur_state'[d] = "CLOSING"} = {d \in Conns : cur_state[d] = "CLOSING"}
    BY <1>1, <1>5
  <1>9. Lifecycle!Pass(c, "none", "io") \/ Lifecycle!Pass(c, "none", "lost")
    BY <1>6, <1>7, PassedOn
  <1>. QED BY <1>8, <1>9 DEF Lifecycle!Accept

(* A visit of the walk closes the request, queues it or, when the handler  *)
(* throws, leaves it where it is.                                          *)
LEMMA VisitRefines ==
  ASSUME TypeOK, ThreadPlaces, EofMeansSent, Owned, NEW c \in Conns, IoVisit(c)
  PROVE  Lifecycle!Close(c) \/ Lifecycle!Enqueue(c) \/ UNCHANGED Lifecycle!lifecycleVars
  <1>. USE DEF None
  <1>1. PICK st \in {cur_state[c], "CLOSING"} :
          /\ cur_state' = [cur_state EXCEPT ![c] = st]
          /\ UNCHANGED <<a_reqs, reqs>> \/ Dispatch(c, st)
    BY VisitEffect
  <1>2. c \in a_reqs /\ UNCHANGED <<wrq, lost>>
    BY VisitEffect
  <1>3. /\ c \in Referenced /\ c \notin Queued /\ c \notin lost
        /\ \A w \in Workers : wrq[w] # c
    BY <1>2, TcpServerAssumption DEF Owned, SingleOwner, Referenced, NoneForgotten
  <1>4. cur_state[c] \in {"WAIT_DATA", "CLOSING"}
    BY <1>3 DEF Owned, NoDangling
  <1>5. OwnerOf(c) = "io"
    BY <1>3, <1>4 DEF OwnerOf
  <1>6. cur_state'[c] = st /\ \A d \in Conns \ {c} : cur_state'[d] = cur_state[d]
    BY <1>1 DEF TypeOK
  <1>7. CASE UNCHANGED reqs
    <2>1. Queued' = Queued
      BY <1>7 DEF Queued
    <2>2. \A d \in Conns : OwnerOf(d)' = OwnerOf(d)
      <3>1. OwnerOf(c)' = "io"
        BY <1>1, <1>2, <1>3, <1>4, <1>6, <2>1 DEF OwnerOf
      <3>2. \A d \in Conns \ {c} : OwnerOf(d)' = OwnerOf(d)
        BY <1>2, <1>6, <2>1 DEF OwnerOf
      <3>. QED BY <1>5, <3>1, <3>2
    <2>3. CASE st = "CLOSING"
      <3>1. {d \in Conns : cur_state'[d] = "CLOSING"}
              = {d \in Conns : cur_state[d] = "CLOSING"} \cup {c}
        BY <1>6, <2>3
      <3>. QED BY <1>5, <2>2, <3>1 DEF Lifecycle!Close
    <2>4. CASE st # "CLOSING"
      <3>1. cur_state' = cur_state
        BY <1>1, <2>4 DEF TypeOK
      <3>. QED BY <2>2, <3>1 DEF Lifecycle!lifecycleVars
    <2>. QED BY <2>3, <2>4
  <1>8. CASE st # "CLOSING" /\ reqs' = Append(reqs, c)
    <2>1. Queued' = Queued \cup {c}
      BY <1>8, Enqueued DEF TypeOK
    <2>2. st = cur_state[c] /\ cur_state' = cur_state
      BY <1>1, <1>8 DEF TypeOK
    <2>3. OwnerOf(c)' = "queue" /\ \A d \in Conns \ {c} : OwnerOf(d)' = OwnerOf(d)
      BY <1>2, <1>3, <1>4, <2>1, <2>2 DEF OwnerOf
    <2>4. Lifecycle!Pass(c, "io", "queue")
      BY <1>5, <2>3, PassedOn
    <2>. QED BY <1>8, <2>2, <2>4 DEF Lifecycle!Enqueue
  <1>. QED BY <1>1, <1>7, <1>8 DEF Dispatch

(* A worker takes the oldest request of the queue, or none.                *)
LEMMA TakeRefines ==
  ASSUME TypeOK, ThreadPlaces, Owned, NEW w \in Workers, WorkerTop(w)
  PROVE  \/ \E c \in Conns : Lifecycle!Take(c)
         \/ UNCHANGED Lifecycle!lifecycleVars
  <1>. USE DEF None
  <1>1. UNCHANGED <<cur_state, lost>> /\ wpc[w] = "top"
    BY DEF WorkerTop, connVars
  <1>2. CASE UNCHANGED <<reqs, wrq>>
    BY <1>1, <1>2, SameOwners
  <1>3. CASE reqs # <<>> /\ wrq' = [wrq EXCEPT ![w] = Head(reqs)] /\ reqs' = Tail(reqs)
    <2>h. Head(reqs) \in Conns
      BY <1>3, Dequeued DEF TypeOK
    <2>c. PICK c \in Conns : c = Head(reqs)
      BY <2>h
    <2>1. c \in Queued /\ Queued' = Queued \ {c}
      BY <1>3, <2>c, Dequeued DEF Owned, SingleOwner, TypeOK
    <2>2. wrq[w] = None /\ c # None
      BY <1>1, <2>1, TcpServerAssumption DEF ThreadPlaces
    <2>3. wrq'[w] = c /\ \A v \in Workers \ {w} : wrq'[v] = wrq[v]
      BY <1>3, <2>c DEF TypeOK
    <2>4. c \notin lost /\ cur_state[c] \in {"WAIT_DATA", "CLOSING"}
      BY <2>1, <2>2 DEF Owned, NoneForgotten, NoDangling, Referenced
    <2>5. OwnerOf(c) = "queue" /\ OwnerOf(c)' = "worker"
      BY <1>1, <2>1, <2>3, <2>4 DEF OwnerOf
    <2>6. \A d \in Conns \ {c} : OwnerOf(d)' = OwnerOf(d)
      <3>. SUFFICES ASSUME NEW d \in Conns \ {c} PROVE OwnerOf(d)' = OwnerOf(d)
        OBVIOUS
      <3>1. d \in Queued' <=> d \in Queued
        BY <2>1
      <3>2. (\E v \in Workers : wrq'[v] = d) <=> (\E v \in Workers : wrq[v] = d)
        BY <2>2, <2>3, TcpServerAssumption
      <3>. QED BY <1>1, <3>1, <3>2 DEF OwnerOf
    <2>7. Lifecycle!Pass(c, "queue", "worker")
      BY <2>1, <2>5, <2>6, PassedOn
    <2>. QED BY <1>1, <2>1, <2>7 DEF Lifecycle!Take
  <1>. QED BY <1>2, <1>3 DEF WorkerTop

(* A worker gives its request back, and may ask for it to be closed, or    *)
(* loses it.                                                               *)
LEMMA WorkerRefines ==
  ASSUME TypeOK, ThreadPlaces, Owned, NEW w \in Workers,
         WorkerReturn(w) \/ WorkerThrows(w)
  PROVE  \E c \in Conns : Lifecycle!GiveBack(c) \/ Lifecycle!Lose(c)
  <1>. USE DEF None
  <1>h. wrq[w] \in Conns
    BY DEF WorkerReturn, WorkerThrows, ThreadPlaces, TypeOK
  <1>c. PICK c \in Conns : c = wrq[w]
    BY <1>h
  <1>1. c # None /\ wrq' = [wrq EXCEPT ![w] = None] /\ UNCHANGED reqs
    BY <1>c, TcpServerAssumption DEF WorkerReturn, WorkerThrows
  <1>2. Queued' = Queued
    BY <1>1 DEF Queued
  <1>3. /\ c \in Referenced /\ c \notin Queued /\ c \notin lost
        /\ \A v \in Workers \ {w} : wrq[v] # c
    BY <1>1, <1>c DEF Owned, SingleOwner, WorkersDistinct, Referenced, NoneForgotten
  <1>4. cur_state[c] \in {"WAIT_DATA", "CLOSING"}
    BY <1>3 DEF Owned, NoDangling
  <1>5. OwnerOf(c) = "worker"
    BY <1>3, <1>4, <1>c DEF OwnerOf
  <1>6. wrq'[w] = None /\ \A v \in Workers \ {w} : wrq'[v] = wrq[v]
    BY <1>1 DEF TypeOK
  <1>7. \A d \in Conns \ {c} :
          (\E v \in Workers : wrq'[v] = d) <=> (\E v \in Workers : wrq[v] = d)
    BY <1>6, <1>c, TcpServerAssumption
  <1>8. ~ \E v \in Workers : wrq'[v] = c
    BY <1>1, <1>3, <1>6
  <1>9. CASE WorkerReturn(w)
    <2>1. PICK st \in Answers(c) : cur_state' = [cur_state EXCEPT ![c] = st]
      BY <1>9, <1>c DEF WorkerReturn
    <2>2. lost' = lost
      BY <1>9 DEF WorkerReturn
    <2>3. st \in {cur_state[c], "CLOSING"} /\ cur_state'[c] = st
          /\ \A d \in Conns \ {c} : cur_state'[d] = cur_state[d]
      BY <1>1, <2>1 DEF TypeOK, Answers
        <2>4. OwnerOf(c)' = "io" /\ \A d \in Conns \ {c} : OwnerOf(d)' = OwnerOf(d)
      BY <1>2, <1>3, <1>4, <1>7, <1>8, <2>2, <2>3 DEF OwnerOf
    <2>5. Lifecycle!Pass(c, "worker", "io")
      BY <1>1, <1>5, <2>4, PassedOn
    <2>6. {d \in Conns : cur_state'[d] = "CLOSING"}
            \in {{d \in Conns : cur_state[d] = "CLOSING"},
                 {d \in Conns : cur_state[d] = "CLOSING"} \cup {c}}
      <3>1. CASE st = "CLOSING"
        BY <1>1, <2>3, <3>1
      <3>2. CASE st # "CLOSING"
        BY <1>1, <2>3, <3>2
      <3>. QED BY <3>1, <3>2
    <2>7. Lifecycle!GiveBack(c)
      BY <2>5, <2>6 DEF Lifecycle!GiveBack
    <2>. QED BY <2>7
  <1>10. CASE WorkerThrows(w)
    <2>1. lost' = lost \cup {c} /\ cur_state' = cur_state
      BY <1>10, <1>c DEF WorkerThrows, connVars
        <2>2. OwnerOf(c)' = "lost" /\ \A d \in Conns \ {c} : OwnerOf(d)' = OwnerOf(d)
      BY <1>2, <1>4, <1>7, <2>1 DEF OwnerOf
    <2>3. Lifecycle!Pass(c, "worker", "lost")
      BY <1>1, <1>5, <2>2, PassedOn
    <2>4. Lifecycle!Lose(c)
      BY <2>1, <2>3 DEF Lifecycle!Lose
    <2>. QED BY <2>4
  <1>. QED BY <1>9, <1>10

(* disconnect_client() deletes closing requests of the input/output thread *)
(* only.                                                                   *)
LEMMA SweepRefines ==
  ASSUME TypeOK, ThreadPlaces, Owned, IoSubscribe
  PROVE  \E S \in SUBSET Conns : Lifecycle!Disconnect(S)
  <1>. USE DEF None
  <1>h. {c \in a_reqs : Finished(c)} \in SUBSET Conns
    BY DEF TypeOK
  <1>g. PICK gone \in SUBSET Conns : gone = {c \in a_reqs : Finished(c)}
    BY <1>h
  <1>1. /\ UNCHANGED <<reqs, wrq, lost>>
        /\ cur_state' = [c \in Conns |-> IF c \in gone THEN "deleted" ELSE cur_state[c]]
    BY <1>g DEF IoSubscribe, disconnect_client
  <1>2. Queued' = Queued
    BY <1>1 DEF Queued
  <1>3. \A c \in gone : cur_state[c] = "CLOSING" /\ OwnerOf(c) = "io"
    <2>. SUFFICES ASSUME NEW c \in gone
                  PROVE  cur_state[c] = "CLOSING" /\ OwnerOf(c) = "io"
      OBVIOUS
    <2>1. c \in a_reqs /\ c \in Conns /\ cur_state[c] = "CLOSING"
      BY <1>g DEF Finished
    <2>. QED BY <2>1, OwnerPlaces
  <1>4. \A d \in Conns : OwnerOf(d)' = IF d \in gone THEN "gone" ELSE OwnerOf(d)
    BY <1>1, <1>2 DEF OwnerOf
  <1>5. {d \in Conns : cur_state'[d] = "CLOSING"}
          = {d \in Conns : cur_state[d] = "CLOSING"} \ gone
    BY <1>1
  <1>6. Lifecycle!Disconnect(gone)
    BY <1>1, <1>3, <1>4, <1>5 DEF Lifecycle!Disconnect
  <1>. QED BY <1>1, <1>6

(* The threads, the queues, the lock and the descriptor sets together      *)
(* implement RequestLifecycle: who owns a request changes hands only the   *)
(* way it allows.                                                          *)
THEOREM ServerRefines == Spec => ImplementsLifecycle
  <1>1. Init => Lifecycle!LifecycleInit
    BY DEF Init, Lifecycle!LifecycleInit, OwnerOf, None
  <1>2. ServerInv /\ [Next]_vars => [Lifecycle!LifecycleNext]_(Lifecycle!lifecycleVars)
    <2>. SUFFICES ASSUME ServerInv, [Next]_vars
                  PROVE  Lifecycle!LifecycleNext \/ UNCHANGED Lifecycle!lifecycleVars
      OBVIOUS
    <2>t. TypeOK /\ ThreadPlaces /\ EofMeansSent /\ Owned
      BY DEF ServerInv, Owned
    <2>1. CASE UNCHANGED <<reqs, cur_state, wrq, lost>>
      BY <2>1, SameOwners
    <2>2. CASE UNCHANGED vars
      BY <2>1, <2>2 DEF vars
    <2>3. CASE Main
      BY <2>1, <2>3 DEF Main, Start, StartThreads, StartFails, Stop, StopRaise,
                        StopJoined, StopJoinsNothing, connVars
    <2>4. CASE Io
      <3>1. CASE IoListen \/ IoCheck \/ AcceptRefused \/ AcceptFails \/ AcceptPush
                 \/ IoScan \/ IoWalked \/ \E W \in SUBSET io.wfds : IoSelect(W)
        BY <2>1, <3>1 DEF IoListen, IoCheck, AcceptRefused, AcceptFails, AcceptPush, IoScan,
                          IoWalked, IoSelect, connVars
      <3>2. CASE IoSubscribe
        BY <2>t, <3>2, SweepRefines DEF Lifecycle!LifecycleNext
      <3>3. ASSUME NEW c \in Conns, AcceptNew(c)
            PROVE  Lifecycle!LifecycleNext
        BY <2>t, <3>3, AcceptRefines DEF Lifecycle!LifecycleNext
      <3>4. ASSUME NEW c \in Conns, IoVisit(c)
            PROVE  Lifecycle!LifecycleNext \/ UNCHANGED Lifecycle!lifecycleVars
        BY <2>t, <3>4, VisitRefines DEF Lifecycle!LifecycleNext
      <3>. QED BY <2>4, <3>1, <3>2, <3>3, <3>4 DEF Io
    <2>5. ASSUME NEW w \in Workers, Worker(w)
          PROVE  Lifecycle!LifecycleNext \/ UNCHANGED Lifecycle!lifecycleVars
      <3>1. CASE WorkerTop(w)
        BY <2>t, <3>1, TakeRefines DEF Lifecycle!LifecycleNext
      <3>2. CASE WorkerWakes(w)
        BY <2>1, <3>2 DEF WorkerWakes, connVars
      <3>3. CASE WorkerReturn(w) \/ WorkerThrows(w)
        BY <2>t, <3>3, WorkerRefines DEF Lifecycle!LifecycleNext
      <3>. QED BY <2>5, <3>1, <3>2, <3>3 DEF Worker
    <2>6. ASSUME NEW c \in Conns, Client(c)
          PROVE  UNCHANGED Lifecycle!lifecycleVars
      BY <2>6, SameOwners DEF Client, ClientConnect, ClientSend, ClientClose, ClientReset
    <2>7. CASE UncaughtException
      BY <2>1, <2>7 DEF UncaughtException, connVars
    <2>. QED BY <2>2, <2>3, <2>4, <2>5, <2>6, <2>7 DEF Next
  <1>. QED
    BY <1>1, <1>2, ServerSafe, PTL DEF Spec, ImplementsLifecycle, Lifecycle!LifecycleSpec

=============================================================================
