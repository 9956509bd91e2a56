------------------------------ MODULE TcpServer ------------------------------
(***************************************************************************)
(* dbp::tcp_server (src/dcl/tcp_server.cpp): one input/output thread, a    *)
(* set of worker threads, the two queues they pass requests through, the   *)
(* mutex _lock with its event, and the thread that starts and stops the    *)
(* server.  The clients and the user's handlers are the environment.       *)
(*                                                                         *)
(* A request is named by the connection it was made for.  What is done     *)
(* under _lock without calling a handler is one step.  io_process calls    *)
(* on_process_data while it holds _lock, once per ready connection; there  *)
(* the lock is a variable and each connection is a step.                   *)
(*                                                                         *)
(* The list a_reqs is a set: its order is that of the walk over it, and    *)
(* the walk below takes the connections in any order.  The queue reqs is a *)
(* sequence.  Buffers are lengths in units a handler call or a segment of  *)
(* the client adds.                                                        *)
(***************************************************************************)
EXTENDS Naturals, Sequences, FiniteSets

CONSTANTS
  Conns,             \* connections the clients may open
  Workers,           \* the threads of wkt
  QueueSize,         \* _queue_size
  MaxInbox,          \* bound: segments a connection holds unread
  MaxOut,            \* bound: output units that wait in a write buffer
  MaxStarts,         \* bound: calls of start()
  HandlersMayThrow,  \* may on_connect and on_process_data throw?
  CallsMayFail       \* may bind(), listen() and select() fail?

None == "none"   \* no request

ASSUME TcpServerAssumption ==
  /\ None \notin Conns
  /\ QueueSize \in Nat /\ MaxInbox \in Nat /\ MaxOut \in Nat
  /\ MaxStarts \in Nat
  /\ HandlersMayThrow \in BOOLEAN /\ CallsMayFail \in BOOLEAN

VARIABLES
  is_stopped,    \* the stop flag, guarded by _lock
  lock,          \* TRUE while io_process holds _lock over its walk
  a_reqs,        \* the active requests
  reqs,          \* the queue of requests ready to be processed
  cur_state,     \* of the request of a connection; see States
  wlen,          \* unsent units in write_buffer
  wbuf,          \* stream state of write_buffer: good, eof or bad
  inbox,         \* units the client sent and the server has not read
  peer,          \* the client's end of the connection
  io,            \* [pc, rfds, wfds, rq]: the input/output thread
  wpc,           \* wpc[w]: where worker w is
  wrq,           \* wrq[w]: the request worker w holds, None if none
  main,          \* where the controlling thread is
  starts,        \* calls of start() so far
  lost           \* requests no thread and no queue refers to any more

connVars == <<cur_state, wlen, wbuf, inbox, peer>>
ctlVars  == <<is_stopped, main, starts>>
vars == <<is_stopped, lock, a_reqs, reqs, cur_state, wlen, wbuf, inbox,
          peer, io, wpc, wrq, main, starts, lost>>

States == {None,         \* no request: the client has not been accepted
           "WAIT_DATA",
           "CLOSING",
           "deleted"}    \* disconnect_client() has deleted the request

Queued == {reqs[n] : n \in DOMAIN reqs}

Init ==
  /\ is_stopped = TRUE
  /\ lock = FALSE
  /\ a_reqs = {}
  /\ reqs = <<>>
  /\ cur_state = [c \in Conns |-> None]
  /\ wlen = [c \in Conns |-> 0]
  /\ wbuf = [c \in Conns |-> "eof"]
  /\ inbox = [c \in Conns |-> 0]
  /\ peer = [c \in Conns |-> None]
  /\ io = [pc |-> "off", rfds |-> {}, wfds |-> {}, rq |-> None]
  /\ wpc = [w \in Workers |-> "off"]
  /\ wrq = [w \in Workers |-> None]
  /\ main = "idle"
  /\ starts = 0
  /\ lost = {}

(* Definitions named Fault_... are mutations of the definition that follows *)
(* them; no specification uses them.                                       *)

(* _event.raise(): pthread_cond_broadcast.  Every waiting worker goes back *)
(* to its test of the queue, which it repeats once it has _lock again.     *)
Raised(pcs) == [w \in Workers |-> IF pcs[w] = "wait" THEN "top" ELSE pcs[w]]

-----------------------------------------------------------------------------
(* The controlling thread.                                                 *)

(* start(): does nothing unless the server is stopped.                     *)
Start ==
  /\ main = "idle" /\ ~lock
  /\ starts < MaxStarts
  /\ starts' = starts + 1
  /\ IF is_stopped THEN is_stopped' = FALSE /\ main' = "bind"
                   ELSE UNCHANGED <<is_stopped, main>>
  /\ UNCHANGED <<lock, a_reqs, reqs, connVars, io, wpc, wrq, lost>>

(* The rest of start(): the listening sockets are bound, then the threads  *)
(* are started.                                                            *)
StartThreads ==
  /\ main = "bind"
  /\ main' = "idle"
  /\ wpc' = [w \in Workers |-> "top"]
  /\ io' = [io EXCEPT !.pc = "listen"]
  /\ UNCHANGED <<is_stopped, lock, a_reqs, reqs, connVars, wrq, starts, lost>>

(* bind() throws out of start(): nothing resets is_stopped.                *)
StartFails ==
  /\ CallsMayFail
  /\ main = "bind"
  /\ main' = "idle"
  /\ UNCHANGED <<is_stopped, lock, a_reqs, reqs, connVars, io, wpc, wrq,
                 starts, lost>>

(* stop(): does nothing when the server is stopped already.                *)
Stop ==
  /\ main = "idle" /\ ~lock
  /\ ~is_stopped
  /\ is_stopped' = TRUE
  /\ main' = "raise"
  /\ UNCHANGED <<lock, a_reqs, reqs, connVars, io, wpc, wrq, starts, lost>>

StopRaise ==
  /\ main = "raise"
  /\ main' = "join"
  /\ wpc' = Raised(wpc)
  /\ UNCHANGED <<is_stopped, lock, a_reqs, reqs, connVars, io, wrq, starts,
                 lost>>

(* Fault: only the listening thread is joined. *)
Fault_StopJoined ==
  /\ main = "join"
  /\ io.pc = "done"
  /\ main' = "idle"
  /\ io' = [io EXCEPT !.pc = "off"]
  /\ UNCHANGED <<is_stopped, lock, a_reqs, reqs, connVars, wpc, wrq, starts,
                 lost>>

(* The listening thread and the workers have been joined; the listening    *)
(* sockets are closed, which resets the clients nobody has accepted.       *)
StopJoined ==
  /\ main = "join"
  /\ io.pc = "done" /\ \A w \in Workers : wpc[w] = "done"
  /\ main' = "idle"
  /\ io' = [io EXCEPT !.pc = "off"]
  /\ wpc' = [w \in Workers |-> "off"]
  /\ peer' = [c \in Conns |-> IF peer[c] # None /\ cur_state[c] = None
                                THEN "reset" ELSE peer[c]]
  /\ UNCHANGED <<is_stopped, lock, a_reqs, reqs, cur_state, wlen, wbuf,
                 inbox, wrq, starts, lost>>

(* stop() after a start() that failed joins threads that were never made:  *)
(* pthread_join of an uninitialised pthread_t, undefined behaviour.  It    *)
(* returns an error, which wait_for() ignores, or the process dies.        *)
StopJoinsNothing ==
  /\ main = "join"
  /\ io.pc = "off"
  /\ main' \in {"idle", "crashed"}
  /\ UNCHANGED <<is_stopped, lock, a_reqs, reqs, connVars, io, wpc, wrq,
                 starts, lost>>

-----------------------------------------------------------------------------
(* The input/output thread.                                                *)

(* io_process: the bound sockets are turned to listening ones.             *)
IoListen ==
  /\ io.pc = "listen"
  /\ io' = [io EXCEPT !.pc = "check"]
  /\ UNCHANGED <<is_stopped, lock, a_reqs, reqs, connVars, wpc, wrq, main,
                 starts, lost>>

(* The top of the loop of io_process.                                      *)
IoCheck ==
  /\ io.pc = "check" /\ ~lock
  /\ io' = [io EXCEPT !.pc = IF is_stopped THEN "done" ELSE "sweep"]
  /\ UNCHANGED <<is_stopped, lock, a_reqs, reqs, connVars, wpc, wrq, main,
                 starts, lost>>

(* disconnect_client(): on_disconnect is called and the request deleted.   *)
disconnect_client(S) ==
  cur_state' = [c \in Conns |-> IF c \in S THEN "deleted" ELSE cur_state[c]]

(* Fault: a closing request is finished whatever it has left to send. *)
Fault_Finished(c) == cur_state[c] = "CLOSING"

(* A request that is closing and has nothing left to send.                 *)
Finished(c) == cur_state[c] = "CLOSING" /\ wbuf[c] = "eof"

(* The walk that fills the descriptor sets: finished requests are          *)
(* disconnected, the others are subscribed for reading and, unless the     *)
(* write buffer is at eof, for writing.                                    *)
IoSubscribe ==
  LET gone == {c \in a_reqs : Finished(c)}
      left == a_reqs \ gone
  IN /\ io.pc = "sweep" /\ ~lock
     /\ disconnect_client(gone)
     /\ a_reqs' = left
     /\ io' = [io EXCEPT !.pc = "select", !.rfds = left,
                         !.wfds = {c \in left : wbuf[c] # "eof"}]
     /\ UNCHANGED <<is_stopped, lock, reqs, wlen, wbuf, inbox, peer,
                    wpc, wrq, main, starts, lost>>

(* Clients in the queue of the listening socket.                           *)
Backlog == {c \in Conns : peer[c] \in {"open", "closed"} /\ cur_state[c] = None}

Readable(c) == inbox[c] > 0 \/ peer[c] \in {"closed", "reset"}

(* select(): W are the subscribed sockets that can take data; a reset one  *)
(* reports ready.  Without any event the loop starts again.                *)
IoSelect(W) ==
  LET R == {c \in io.rfds : Readable(c)}
  IN /\ io.pc = "select"
     /\ {c \in io.wfds : peer[c] = "reset"} \subseteq W
     /\ W \subseteq io.wfds
     /\ io' = [io EXCEPT !.rfds = R, !.wfds = W,
                         !.pc = IF Backlog # {} THEN "accept"
                                ELSE IF R \cup W # {} THEN "scan" ELSE "check"]
     /\ UNCHANGED <<is_stopped, lock, a_reqs, reqs, connVars, wpc, wrq, main,
                    starts, lost>>

(* connection_accept(): no connection is accepted on overload.             *)
Overload == Cardinality(a_reqs) > QueueSize

AcceptRefused ==
  /\ io.pc = "accept" /\ ~lock
  /\ Overload
  /\ io' = [io EXCEPT !.pc = "scan"]
  /\ UNCHANGED <<is_stopped, lock, a_reqs, reqs, connVars, wpc, wrq, main,
                 starts, lost>>

(* connection_accept(): a request is made for client c and on_connect is   *)
(* called.  Both buffers start with eofbit set.                            *)
AcceptNew(c) ==
  /\ io.pc = "accept" /\ ~lock
  /\ ~Overload
  /\ c \in Backlog
  /\ cur_state' = [cur_state EXCEPT ![c] = "WAIT_DATA"]
  /\ \/ /\ io' = [io EXCEPT !.pc = "push", !.rq = c]
        /\ UNCHANGED lost
     \/ \* on_connect throws: nothing refers to the request any more
        /\ HandlersMayThrow
        /\ io' = [io EXCEPT !.pc = "check"]
        /\ lost' = lost \cup {c}
  /\ UNCHANGED <<is_stopped, lock, a_reqs, reqs, wlen, wbuf, inbox, peer,
                 wpc, wrq, main, starts>>

(* accept() throws, the client having gone since select(): the rest of the *)
(* round is skipped.                                                       *)
AcceptFails ==
  /\ io.pc = "accept" /\ ~lock
  /\ ~Overload
  /\ Backlog = {}
  /\ io' = [io EXCEPT !.pc = "check"]
  /\ UNCHANGED <<is_stopped, lock, a_reqs, reqs, connVars, wpc, wrq, main,
                 starts, lost>>

(* The end of connection_accept().                                         *)
AcceptPush ==
  /\ io.pc = "push" /\ ~lock
  /\ a_reqs' = a_reqs \cup {io.rq}
  /\ io' = [io EXCEPT !.pc = "scan", !.rq = None]
  /\ UNCHANGED <<is_stopped, lock, reqs, connVars, wpc, wrq, main, starts,
                 lost>>

(* _lock is taken for the walk over the active requests.                   *)
IoScan ==
  /\ io.pc = "scan" /\ ~lock
  /\ lock' = TRUE
  /\ io' = [io EXCEPT !.pc = "walk"]
  /\ UNCHANGED <<is_stopped, a_reqs, reqs, connVars, wpc, wrq, main, starts,
                 lost>>

(* Fault: an empty write buffer does not get eofbit. *)
Fault_connection_write(c) ==
  IF wlen[c] = 0 \/ wbuf[c] = "bad"
    THEN {[len |-> wlen[c], buf |-> wbuf[c]]}
    ELSE {[len |-> n, buf |-> "good"] : n \in 0..wlen[c]}

(* connection_write(): the possible write buffers afterwards.  An empty    *)
(* buffer gets eofbit, and so does one on which a write has failed, since  *)
(* tellg() answers -1 for both ends of it.  The client takes all, some or  *)
(* (EAGAIN) none of the data.                                              *)
connection_write(c) ==
  IF wbuf[c] = "eof" \/ wlen[c] = 0 \/ wbuf[c] = "bad"
    THEN {[len |-> wlen[c], buf |-> "eof"]}
    ELSE IF peer[c] = "reset"
      THEN {[len |-> wlen[c], buf |-> "bad"]}
      ELSE {[len |-> n, buf |-> "good"] : n \in 0..wlen[c]}

(* on_process_data: the handler adds at most one unit of output, which the *)
(* stream drops unless it is good, and answers whether the connection goes *)
(* on.                                                                     *)
Outputs(b) ==
  IF b.buf = "good" /\ b.len < MaxOut
    THEN {b, [b EXCEPT !.len = @ + 1]} ELSE {b}

Answers(c) == {cur_state[c], "CLOSING"}

(* connection_read() with write buffer b: what may hold afterwards.  The   *)
(* read fails, or finds data and calls the handler, or finds neither (end  *)
(* of file or EAGAIN), which changes nothing.                              *)
connection_read(c, b) ==
  IF peer[c] = "reset"
    THEN {[st |-> "CLOSING", b |-> b, in |-> 0, ok |-> TRUE]}
    ELSE IF inbox[c] > 0
      THEN [st : Answers(c), b : Outputs([b EXCEPT !.buf = "good"]),
            in : 0..(inbox[c] - 1), ok : {TRUE}]
           \cup [st : {cur_state[c]}, b : Outputs([b EXCEPT !.buf = "good"]),
                 in : 0..(inbox[c] - 1), ok : {~HandlersMayThrow}]
      ELSE {[st |-> cur_state[c], b |-> b, in |-> inbox[c], ok |-> TRUE]}

(* Fault: the request is queued but stays in the active list. *)
Fault_DispatchKeeps(c, st) ==
  IF st # "CLOSING"
    THEN /\ reqs' = Append(reqs, c)
         /\ wpc' = Raised(wpc)
         /\ UNCHANGED a_reqs
    ELSE UNCHANGED <<a_reqs, reqs, wpc>>

(* Fault: closing requests are queued too. *)
Fault_DispatchClosing(c, st) ==
  /\ reqs' = Append(reqs, c)
  /\ a_reqs' = a_reqs \ {c}
  /\ wpc' = Raised(wpc)

(* After an event a request goes to the workers unless it is closing.      *)
Dispatch(c, st) ==
  IF st # "CLOSING"
    THEN /\ reqs' = Append(reqs, c)
         /\ a_reqs' = a_reqs \ {c}
         /\ wpc' = Raised(wpc)
    ELSE UNCHANGED <<a_reqs, reqs, wpc>>

(* One connection of the walk: write, then read, then on to the workers.   *)
(* A handler that throws ends the walk.                                    *)
IoVisit(c) ==
  /\ io.pc = "walk"
  /\ c \in a_reqs \cap (io.rfds \cup io.wfds)
  /\ \E b \in IF c \in io.wfds THEN connection_write(c)
                               ELSE {[len |-> wlen[c], buf |-> wbuf[c]]} :
     \E r \in IF c \in io.rfds THEN connection_read(c, b)
                 ELSE {[st |-> cur_state[c], b |-> b, in |-> inbox[c],
                        ok |-> TRUE]} :
       /\ cur_state' = [cur_state EXCEPT ![c] = r.st]
       /\ wlen' = [wlen EXCEPT ![c] = r.b.len]
       /\ wbuf' = [wbuf EXCEPT ![c] = r.b.buf]
       /\ inbox' = [inbox EXCEPT ![c] = r.in]
       /\ IF ~r.ok
            THEN /\ io' = [io EXCEPT !.pc = "check"]
                 /\ lock' = FALSE
                 /\ UNCHANGED <<a_reqs, reqs, wpc>>
            ELSE /\ io' = [io EXCEPT !.rfds = @ \ {c}, !.wfds = @ \ {c}]
                 /\ Dispatch(c, r.st)
                 /\ UNCHANGED lock
  /\ UNCHANGED <<is_stopped, peer, wrq, main, starts, lost>>

(* The end of the walk.                                                    *)
IoWalked ==
  /\ io.pc = "walk"
  /\ a_reqs \cap (io.rfds \cup io.wfds) = {}
  /\ lock' = FALSE
  /\ io' = [io EXCEPT !.pc = "check"]
  /\ UNCHANGED <<is_stopped, a_reqs, reqs, connVars, wpc, wrq, main, starts,
                 lost>>

-----------------------------------------------------------------------------
(* The worker threads.                                                     *)

(* Fault: the loop around the wait does not look at is_stopped. *)
Fault_WorkerTop(w) ==
  /\ wpc[w] = "top" /\ ~lock
  /\ \/ /\ reqs = <<>>
        /\ wpc' = [wpc EXCEPT ![w] = "wait"]
        /\ UNCHANGED <<reqs, wrq>>
     \/ /\ reqs # <<>> /\ is_stopped
        /\ wpc' = [wpc EXCEPT ![w] = "done"]
        /\ UNCHANGED <<reqs, wrq>>
     \/ /\ reqs # <<>> /\ ~is_stopped
        /\ wpc' = [wpc EXCEPT ![w] = "run"]
        /\ wrq' = [wrq EXCEPT ![w] = Head(reqs)]
        /\ reqs' = Tail(reqs)
  /\ UNCHANGED <<is_stopped, lock, a_reqs, connVars, io, main, starts, lost>>

(* The test at the top of working_process, under _lock: wait, leave, or    *)
(* take the oldest request.                                                *)
WorkerTop(w) ==
  /\ wpc[w] = "top" /\ ~lock
  /\ \/ /\ reqs = <<>> /\ ~is_stopped
        /\ wpc' = [wpc EXCEPT ![w] = "wait"]
        /\ UNCHANGED <<reqs, wrq>>
     \/ /\ is_stopped
        /\ wpc' = [wpc EXCEPT ![w] = "done"]
        /\ UNCHANGED <<reqs, wrq>>
     \/ /\ reqs # <<>> /\ ~is_stopped
        /\ wpc' = [wpc EXCEPT ![w] = "run"]
        /\ wrq' = [wrq EXCEPT ![w] = Head(reqs)]
        /\ reqs' = Tail(reqs)
  /\ UNCHANGED <<is_stopped, lock, a_reqs, connVars, io, main, starts, lost>>

(* pthread_cond_wait may return without a broadcast.                       *)
WorkerWakes(w) ==
  /\ wpc[w] = "wait"
  /\ wpc' = [wpc EXCEPT ![w] = "top"]
  /\ UNCHANGED <<is_stopped, lock, a_reqs, reqs, connVars, io, wrq, main,
                 starts, lost>>

(* The handler returns and the request goes back to the active ones.       *)
WorkerReturn(w) ==
  LET c == wrq[w]
  IN /\ wpc[w] = "run" /\ ~lock
     /\ \E st \in Answers(c) : cur_state' = [cur_state EXCEPT ![c] = st]
     /\ \E b \in Outputs([len |-> wlen[c], buf |-> wbuf[c]]) :
          wlen' = [wlen EXCEPT ![c] = b.len]
     /\ a_reqs' = a_reqs \cup {c}
     /\ wrq' = [wrq EXCEPT ![w] = None]
     /\ wpc' = [wpc EXCEPT ![w] = "top"]
     /\ UNCHANGED <<is_stopped, lock, reqs, wbuf, inbox, peer, io,
                    main, starts, lost>>

(* The handler throws: on_exception is told and the loop goes on; the      *)
(* request is put back nowhere.                                            *)
WorkerThrows(w) ==
  /\ HandlersMayThrow
  /\ wpc[w] = "run"
  /\ lost' = lost \cup {wrq[w]}
  /\ wrq' = [wrq EXCEPT ![w] = None]
  /\ wpc' = [wpc EXCEPT ![w] = "top"]
  /\ UNCHANGED <<is_stopped, lock, a_reqs, reqs, connVars, io, main, starts>>

-----------------------------------------------------------------------------
(* An exception leaves the function of a thread: nothing above it catches  *)
(* one, and the process ends.  io_process has no try around listen(),      *)
(* select() (which a signal interrupts) and disconnect_client(); the two   *)
(* others catch a dbp::exception only, and throw it again when no          *)
(* on_exception is registered.                                             *)
Alive == main # "crashed"

UncaughtException ==
  /\ \/ CallsMayFail /\ io.pc \in {"listen", "select"}
     \/ HandlersMayThrow /\ io.pc = "sweep" /\ ~lock
          /\ \E c \in a_reqs : Finished(c)
     \/ HandlersMayThrow /\ io.pc = "accept" /\ ~lock /\ ~Overload
     \/ HandlersMayThrow /\ io.pc = "walk"
          /\ \E c \in a_reqs \cap io.rfds : inbox[c] > 0
     \/ HandlersMayThrow /\ \E w \in Workers : wpc[w] = "run"
  /\ main' = "crashed"
  /\ UNCHANGED <<is_stopped, lock, a_reqs, reqs, connVars, io, wpc, wrq,
                 starts, lost>>

-----------------------------------------------------------------------------
(* The clients.                                                            *)
Live(c) == cur_state[c] # "deleted"

ClientConnect(c) ==
  /\ peer[c] = None /\ io.pc \notin {"off", "listen"}
  /\ peer' = [peer EXCEPT ![c] = "open"]
  /\ UNCHANGED <<is_stopped, lock, a_reqs, reqs, cur_state, wlen, wbuf,
                 inbox, io, wpc, wrq, main, starts, lost>>

ClientSend(c) ==
  /\ peer[c] = "open" /\ Live(c)
  /\ inbox[c] < MaxInbox
  /\ inbox' = [inbox EXCEPT ![c] = @ + 1]
  /\ UNCHANGED <<is_stopped, lock, a_reqs, reqs, cur_state, wlen, wbuf,
                 peer, io, wpc, wrq, main, starts, lost>>

ClientClose(c) ==
  /\ peer[c] = "open" /\ Live(c)
  /\ peer' = [peer EXCEPT ![c] = "closed"]
  /\ UNCHANGED <<is_stopped, lock, a_reqs, reqs, cur_state, wlen, wbuf,
                 inbox, io, wpc, wrq, main, starts, lost>>

ClientReset(c) ==
  /\ peer[c] \in {"open", "closed"} /\ Live(c)
  /\ peer' = [peer EXCEPT ![c] = "reset"]
  /\ inbox' = [inbox EXCEPT ![c] = 0]
  /\ UNCHANGED <<is_stopped, lock, a_reqs, reqs, cur_state, wlen, wbuf,
                 io, wpc, wrq, main, starts, lost>>

-----------------------------------------------------------------------------
Main == Start \/ StartThreads \/ StartFails \/ Stop \/ StopRaise
        \/ StopJoined \/ StopJoinsNothing

Io ==
  \/ IoListen \/ IoCheck \/ IoSubscribe
  \/ \E W \in SUBSET io.wfds : IoSelect(W)
  \/ AcceptRefused \/ AcceptFails \/ AcceptPush
  \/ \E c \in Conns : AcceptNew(c) \/ IoVisit(c)
  \/ IoScan \/ IoWalked

Worker(w) == WorkerTop(w) \/ WorkerWakes(w) \/ WorkerReturn(w) \/ WorkerThrows(w)

Client(c) == ClientConnect(c) \/ ClientSend(c) \/ ClientClose(c) \/ ClientReset(c)

Next ==
  /\ Alive
  /\ \/ Main \/ Io \/ UncaughtException
     \/ \E w \in Workers : Worker(w)
     \/ \E c \in Conns : Client(c)

Spec == Init /\ [][Next]_vars

(* While the process lives every thread runs and every handler returns; a  *)
(* worker that waits for _lock gets it in the end; start() and stop() go   *)
(* on once called; and a client that stays takes what it is sent in the    *)
(* end.  The calls of start() and stop(), the clients' other steps and     *)
(* what ends the process are under no fairness.                            *)
Fairness ==
  /\ WF_vars(Alive /\ Io)
  /\ WF_vars(StartThreads \/ StartFails)
  /\ WF_vars(StopRaise)
  /\ WF_vars(StopJoined \/ StopJoinsNothing)
  /\ \A w \in Workers :
       /\ SF_vars(Alive /\ WorkerTop(w))
       /\ SF_vars(Alive /\ (WorkerReturn(w) \/ WorkerThrows(w)))
  /\ \A c \in Conns :
       /\ SF_vars(Alive /\ \E W \in SUBSET io.wfds : c \in W /\ IoSelect(W))
       /\ SF_vars(Alive /\ IoVisit(c)
                   /\ (wlen[c] > 0 => wlen'[c] < wlen[c] \/ wbuf'[c] # "good"))

FairSpec == Spec /\ Fairness

-----------------------------------------------------------------------------
(* The values the variables take.                                          *)
TypeOK ==
  /\ is_stopped \in BOOLEAN /\ lock \in BOOLEAN
  /\ a_reqs \in SUBSET Conns /\ reqs \in Seq(Conns)
  /\ cur_state \in [Conns -> States]
  /\ wlen \in [Conns -> 0..MaxOut] /\ wbuf \in [Conns -> {"good", "eof", "bad"}]
  /\ inbox \in [Conns -> Nat]
  /\ peer \in [Conns -> {None, "open", "closed", "reset"}]
  /\ io \in [pc : {"off", "listen", "check", "sweep", "select", "accept",
                    "push", "scan", "walk", "done"},
              rfds : SUBSET Conns, wfds : SUBSET Conns, rq : Conns \cup {None}]
  /\ wpc \in [Workers -> {"off", "top", "wait", "run", "done"}]
  /\ wrq \in [Workers -> Conns \cup {None}]
  /\ main \in {"idle", "bind", "raise", "join", "crashed"}
  /\ starts \in Nat /\ lost \in SUBSET Conns

(* A request has one owner at a time: the active list, the queue, one      *)
(* worker or connection_accept().  No two threads ever use the same        *)
(* request's buffers, which no lock protects.                              *)
QueueDistinct ==
  \A m, n \in DOMAIN reqs : reqs[m] = reqs[n] => m = n

WorkersDistinct ==
  \A v, w \in Workers : wrq[v] # None /\ wrq[v] = wrq[w] => v = w

SingleOwner ==
  /\ QueueDistinct
  /\ WorkersDistinct
  /\ a_reqs \cap Queued = {}
  /\ \A w \in Workers : wrq[w] \notin a_reqs \cup Queued
  /\ io.rq \notin a_reqs \cup Queued
  /\ \A w \in Workers : wrq[w] # None => wrq[w] # io.rq

(* Requests something refers to.                                           *)
Referenced ==
  (a_reqs \cup Queued \cup {wrq[w] : w \in Workers} \cup {io.rq}) \ {None}

(* Nothing refers to a request that disconnect_client() has deleted, and   *)
(* between the two walks of io_process the descriptor sets only name       *)
(* requests that are still in the active list, although workers change     *)
(* the list while the lock is free.                                        *)
NoDangling ==
  /\ \A c \in Referenced : cur_state[c] \in {"WAIT_DATA", "CLOSING"}
  /\ io.pc \in {"select", "accept", "push", "scan", "walk"}
       => io.rfds \cup io.wfds \subseteq a_reqs

(* A request that exists is referred to, unless a handler threw while a    *)
(* worker or connection_accept() held it: then it is never served,         *)
(* disconnected or deleted again.                                          *)
NoneForgotten ==
  /\ \A c \in Conns :
       cur_state[c] \in {"WAIT_DATA", "CLOSING"} => c \in Referenced \cup lost
  /\ lost \cap Referenced = {}
  /\ \A c \in lost : cur_state[c] \in {"WAIT_DATA", "CLOSING"}
  /\ ~HandlersMayThrow => lost = {}

(* A request whose handler asked for the connection to be closed is never  *)
(* given to a worker again.                                                *)
ClosingNotQueued ==
  /\ \A c \in Queued : cur_state[c] # "CLOSING"
  /\ \A w \in Workers : wrq[w] # None => cur_state[wrq[w]] # "CLOSING"

(* When stop() has returned no thread of the server is left.               *)
StoppedMeansQuiet ==
  main = "idle" /\ is_stopped
    => io.pc = "off" /\ ~lock /\ \A w \in Workers : wpc[w] = "off"

(* A client is disconnected only when all output in its buffer has been    *)
(* sent, or can't be because the connection is broken.                     *)
FlushedBeforeDisconnect ==
  [][\A c \in Conns :
       cur_state[c] # "deleted" /\ cur_state'[c] = "deleted"
         => cur_state[c] = "CLOSING" /\ (wlen[c] = 0 \/ peer[c] = "reset")]_vars

(* The server does not serve: it is stopped, it is being stopped, its      *)
(* threads were not started, or an exception has ended the process.        *)
Down == is_stopped \/ io.pc = "off" \/ ~Alive

(* A request in the queue is taken by a worker while the server serves:    *)
(* no wakeup is lost between the test of the queue and the wait.           *)
QueuedIsTaken == \A c \in Conns : c \in Queued ~> c \notin Queued \/ Down

(* stop() returns, or the process ends.                                    *)
StopReturns == main \in {"raise", "join"} ~> main \notin {"raise", "join"}

(* A connection whose handler asked for it to be closed is closed while    *)
(* the server serves, unless its client goes on sending: every segment     *)
(* that is read clears the eofbit the deletion waits for.                  *)
ClosingIsClosed ==
  \A c \in Conns :
    \/ []<><<ClientSend(c)>>_vars
    \/ cur_state[c] = "CLOSING" ~> cur_state[c] = "deleted" \/ Down

(* Data of a client that was accepted does not wait for ever: it is read,  *)
(* however much the client goes on sending, while the server serves and    *)
(* has the request.                                                        *)
Waiting(c) ==
  inbox[c] > 0 /\ cur_state[c] \notin {None, "deleted"} /\ c \notin lost /\ ~Down

DataIsRead ==
  \A c \in Conns : <>[]Waiting(c) => []<><<inbox'[c] < inbox[c]>>_vars

(* A client that was accepted gets the attention it needs: its data is     *)
(* read, its request is taken by a worker, and it is closed when the       *)
(* handler asks for that and the client stops sending.                     *)
EventuallyServed == DataIsRead /\ QueuedIsTaken /\ ClosingIsClosed

(* Where each thread is, and what that says of the request it holds, the   *)
(* lock and the flag.                                                      *)
ThreadPlaces ==
  /\ lock <=> io.pc = "walk"
  /\ io.rq # None <=> io.pc = "push"
  /\ \A w \in Workers : wrq[w] # None <=> wpc[w] = "run"
  /\ \A w \in Workers : wpc[w] = "off" <=> io.pc = "off"
  /\ main = "bind" => io.pc = "off" /\ ~is_stopped
  /\ main \in {"raise", "join"} => is_stopped
  /\ main = "idle" /\ is_stopped => io.pc = "off"

(* eofbit, for which the deletion of a closing request waits, means that    *)
(* the write buffer is empty, or that a write has failed.                  *)
EofMeansSent ==
  \A c \in Conns :
    /\ wbuf[c] = "eof" => wlen[c] = 0 \/ peer[c] = "reset"
    /\ wbuf[c] = "bad" => peer[c] = "reset"

(* The inductive invariant of the server.                                  *)
ServerInv ==
  /\ TypeOK
  /\ ThreadPlaces
  /\ SingleOwner
  /\ NoDangling
  /\ NoneForgotten
  /\ ClosingNotQueued
  /\ EofMeansSent

(* The server implements RequestLifecycle.                                 *)
OwnerOf(c) ==
  IF cur_state[c] = None THEN "none"
  ELSE IF cur_state[c] = "deleted" THEN "gone"
  ELSE IF c \in lost THEN "lost"
  ELSE IF c \in Queued THEN "queue"
  ELSE IF \E w \in Workers : wrq[w] = c THEN "worker"
  ELSE "io"

Lifecycle == INSTANCE RequestLifecycle
               WITH owner <- [c \in Conns |-> OwnerOf(c)],
                    closing <- {c \in Conns : cur_state[c] = "CLOSING"}

(* Every step of the threads changes the owner of a request the way        *)
(* RequestLifecycle allows, or not at all.                                 *)
ImplementsLifecycle == Lifecycle!LifecycleSpec

-----------------------------------------------------------------------------
(* include/dcl/tcp_server.h:97, "returns true if the server is working,    *)
(* false if it's stopped": while no start() or stop() is under way and     *)
(* is_running() answers true, the server's threads run.                    *)
is_running == ~is_stopped

RunningMeansWorking ==
  main = "idle" /\ is_running => io.pc # "off"

=============================================================================
