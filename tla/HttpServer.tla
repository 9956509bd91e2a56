----------------------------- MODULE HttpServer -----------------------------
(***************************************************************************)
(* dbp::http_server (src/dcl/http_server.cpp): process_data, the handler   *)
(* that turns the bytes of a connection into requests, called by the       *)
(* threads of tcp_server.  The parser's request is found in a map by the   *)
(* descriptor of the connection, and survives from call to call there.     *)
(*                                                                         *)
(* What tcp_server does around the calls is kept as far as process_data    *)
(* can see it: a connection is with the input/output thread, in the queue  *)
(* or with a worker; a call on the input/output thread follows a read, a   *)
(* call on a worker follows every event, also one without new data.        *)
(*                                                                         *)
(* A client's bytes are symbols: the text of a command, of a keep-alive or *)
(* a content-length header, a line end, a unit of content.                 *)
(***************************************************************************)
EXTENDS Integers, Sequences, FiniteSets, SequencesExt

CONSTANTS
  Conns,             \* connections the clients may open
  Fds,               \* descriptors
  Objs,              \* addresses that "new request()" may return
  Scripts,           \* the sequences of segments a client may send
  BodySize,          \* the Content-Length of a content-length header
  SizeMod,           \* 2^w for the width w of size_t
  HandlerMayThrow,   \* may on_request throw?
  PeersMayReset      \* may a client break the connection?

None == "none"

(* The value of call[c] before process_data has looked up its request.     *)
Lookup == "lookup"

(* What a client sends.                                                    *)
Symbols == {"cmd", "keep", "len", "nl", "data"}

ASSUME HttpServerAssumption ==
  /\ None \notin Conns \cup Fds \cup Objs /\ Lookup \notin Objs
  /\ Scripts \subseteq Seq(Seq(Symbols))
  /\ SizeMod \in Nat /\ BodySize \in 1..(SizeMod - 1)
  /\ HandlerMayThrow \in BOOLEAN /\ PeersMayReset \in BOOLEAN

VARIABLES
  owner,      \* owner[c]: who has the connection; see RequestLifecycle
  closing,    \* connections tcp_server is to close
  fd,         \* fd[c]: the descriptor of the connection
  peer,       \* the client's end: open, closed or reset
  script,     \* segments the client has still to send
  rbuf,       \* read_buffer of the connection; see Stream
  wbuf,       \* write_buffer: "eof", "empty" or "full"
  reqs,       \* the map from descriptors to requests
  heap,       \* heap[o]: the request at address o, or Free
  call,       \* call[c]: the request a call for c works on; see Calling
  answered    \* answered[c]: the requests on_request was given for c

connVars == <<owner, closing, fd, peer, script, wbuf>>
vars == <<owner, closing, fd, peer, script, rbuf, wbuf, reqs, heap, call,
          answered>>

(* A request of the parser.  cmd, blank, body and from are history: whether *)
(* a command line and the empty line were really received, how many units   *)
(* of content, and on which connections.                                    *)
NewRequest ==
  [state |-> "WAIT_COMMAND", data_size |-> 0, data_readed |-> 0, keep |-> FALSE,
   cmd |-> FALSE, blank |-> FALSE, body |-> 0, from |-> {}]

(* An address at which there is no request.                                *)
Free == [NewRequest EXCEPT !.state = "free"]

EmptyStream == [txt |-> <<>>, g |-> 0, eof |-> FALSE, fail |-> FALSE]

Good(s)   == ~s.eof /\ ~s.fail
Unread(s) == SubSeq(s.txt, s.g + 1, Len(s.txt))

Init ==
  /\ owner = [c \in Conns |-> "none"]
  /\ closing = {}
  /\ fd = [c \in Conns |-> None]
  /\ peer = [c \in Conns |-> None]
  /\ script \in [Conns -> Scripts]
  /\ rbuf = [c \in Conns |-> [EmptyStream EXCEPT !.eof = TRUE]]
  /\ wbuf = [c \in Conns |-> "eof"]
  /\ reqs = [f \in Fds |-> None]
  /\ heap = [o \in Objs |-> Free]
  /\ call = [c \in Conns |-> None]
  /\ answered = [c \in Conns |-> <<>>]

Calling(c) == call[c] # None

(* io_process calls handlers under the lock of tcp_server, which moves of  *)
(* a connection from and to a worker need too.                             *)
IoFree == \A c \in Conns : Calling(c) => owner[c] = "worker"

-----------------------------------------------------------------------------
(* tcp_server around the calls.                                            *)

(* A client connects and is accepted; its socket gets an unused descriptor. *)
Accept(c) ==
  /\ owner[c] = "none" /\ IoFree
  /\ \E f \in Fds \ {fd[d] : d \in Conns} : fd' = [fd EXCEPT ![c] = f]
  /\ owner' = [owner EXCEPT ![c] = "io"]
  /\ peer' = [peer EXCEPT ![c] = "open"]
  /\ UNCHANGED <<closing, script, rbuf, wbuf, reqs, heap, call, answered>>

(* Definitions named Fault_... are mutations of the definition that follows *)
(* them; no specification uses them.                                       *)

(* Fault: an empty buffer does not get eofbit. *)
Fault_Written(w) == "empty"

(* connection_write(): the output is sent, or the empty buffer gets eofbit. *)
Written(w) == IF w = "full" THEN "empty" ELSE "eof"

(* An event without data to read: the connection goes on to a worker.      *)
IoEvent(c) ==
  /\ owner[c] = "io" /\ c \notin closing /\ IoFree
  /\ \/ /\ wbuf[c] # "eof"
        /\ wbuf' = [wbuf EXCEPT ![c] = Written(@)]
     \/ /\ peer[c] = "closed"
        /\ UNCHANGED wbuf
  /\ owner' = [owner EXCEPT ![c] = "queue"]
  /\ UNCHANGED <<closing, fd, peer, script, rbuf, reqs, heap, call, answered>>

(* The output of a closing connection is sent.                             *)
IoFlush(c) ==
  /\ owner[c] = "io" /\ c \in closing /\ IoFree
  /\ wbuf[c] # "eof"
  /\ wbuf' = [wbuf EXCEPT ![c] = IF peer[c] = "reset" THEN "eof" ELSE Written(@)]
  /\ UNCHANGED <<owner, closing, fd, peer, script, rbuf, reqs, heap, call,
                 answered>>

(* A segment is appended, and the error bits cleared.                      *)
Received(s, segment) ==
  [s EXCEPT !.txt = @ \o segment, !.eof = FALSE, !.fail = FALSE]

(* connection_read() of a segment, after connection_write() when the       *)
(* socket can take data: both buffers are cleared of their error bits, the *)
(* segment is appended and process_data called.  A connection that is to   *)
(* be closed is read as well.                                              *)
IoRead(c) ==
  /\ owner[c] = "io" /\ IoFree
  /\ peer[c] = "open" /\ script[c] # <<>>
  /\ script' = [script EXCEPT ![c] = Tail(@)]
  /\ rbuf' = [rbuf EXCEPT ![c] = Received(@, Head(script[c]))]
  /\ \E w \in IF wbuf[c] = "full" THEN {"full", "empty"} ELSE {"empty"} :
       wbuf' = [wbuf EXCEPT ![c] = w]
  /\ call' = [call EXCEPT ![c] = Lookup]
  /\ UNCHANGED <<owner, closing, fd, peer, reqs, heap, answered>>

(* connection_read() of a broken connection.                               *)
IoReadFails(c) ==
  /\ owner[c] = "io" /\ c \notin closing /\ IoFree
  /\ peer[c] = "reset"
  /\ closing' = closing \cup {c}
  /\ UNCHANGED <<owner, fd, peer, script, rbuf, wbuf, reqs, heap, call,
                 answered>>

(* disconnect_client(): the request of tcp_server is deleted and the       *)
(* descriptor closed.                                                      *)
Disconnect(c) ==
  /\ owner[c] = "io" /\ c \in closing /\ IoFree
  /\ wbuf[c] = "eof"
  /\ owner' = [owner EXCEPT ![c] = "gone"]
  /\ closing' = closing \ {c}
  /\ fd' = [fd EXCEPT ![c] = None]
  /\ UNCHANGED <<peer, script, rbuf, wbuf, reqs, heap, call, answered>>

(* A worker takes a connection and calls process_data again.               *)
WorkerTakes(c) ==
  /\ owner[c] = "queue" /\ IoFree
  /\ owner' = [owner EXCEPT ![c] = "worker"]
  /\ call' = [call EXCEPT ![c] = Lookup]
  /\ UNCHANGED <<closing, fd, peer, script, rbuf, wbuf, reqs, heap, answered>>

(* The read buffer once connection_read() is done with it: discarded when  *)
(* nothing is unread, which a stream with an error also looks like, since  *)
(* tellg() and tellp() both answer -1.                                     *)
Discarded(s) ==
  IF ~Good(s) \/ s.g = Len(s.txt) THEN [s EXCEPT !.txt = <<>>, !.g = 0] ELSE s

(* Fault: a closing connection is given to a worker. *)
Fault_Return(c, s, rslt) ==
  /\ call' = [call EXCEPT ![c] = None]
  /\ closing' = IF rslt THEN closing ELSE closing \cup {c}
  /\ owner' = [owner EXCEPT ![c] = IF @ = "io" THEN "queue" ELSE "io"]
  /\ rbuf' = [rbuf EXCEPT ![c] = IF owner[c] = "io" THEN Discarded(s) ELSE s]
  /\ UNCHANGED <<fd, peer, script, wbuf>>

(* process_data returns rslt and leaves stream s: the connection goes to a *)
(* worker, back to the input/output thread, or is to be closed.            *)
Return(c, s, rslt) ==
  /\ call' = [call EXCEPT ![c] = None]
  /\ closing' = IF rslt THEN closing ELSE closing \cup {c}
  /\ owner' = [owner EXCEPT ![c] = IF @ = "io" /\ c \notin closing'
                                     THEN "queue" ELSE "io"]
  /\ rbuf' = [rbuf EXCEPT ![c] = IF owner[c] = "io" THEN Discarded(s) ELSE s]
  /\ UNCHANGED <<fd, peer, script, wbuf>>

-----------------------------------------------------------------------------
(* process_data.                                                           *)

(* The request of the descriptor, or a new one.                            *)
FindRequest(c) ==
  /\ call[c] = Lookup
  /\ IF reqs[fd[c]] # None
       THEN /\ call' = [call EXCEPT ![c] = reqs[fd[c]]]
            /\ UNCHANGED heap
       ELSE \E o \in Objs :
              /\ heap[o] = Free
              /\ heap' = [heap EXCEPT ![o] = NewRequest]
              /\ call' = [call EXCEPT ![c] = o]
  /\ UNCHANGED <<connVars, rbuf, reqs, answered>>

(* A call for c is in the given state of the parser.                       *)
At(c, st) == call[c] \in Objs /\ heap[call[c]].state = st

(* getline() meets the end of the data.                                    *)
HitsEnd(s) == s.eof \/ (Good(s) /\ ~Contains(Unread(s), "nl"))

(* Fault: no seekg(). *)
Fault_Rewound(s) == [s EXCEPT !.g = Len(s.txt), !.eof = FALSE, !.fail = FALSE]

(* The stream after that and the seekg() back to where it was: seekg()     *)
(* clears eofbit, but not the failbit of a getline() that read nothing.    *)
Rewound(s) ==
  [s EXCEPT !.eof = FALSE, !.fail = ~Good(s) \/ Unread(s) = <<>>]

(* The line getline() reads otherwise: none from a stream with failbit.    *)
LineLen(s) == IF Good(s) THEN SelectInSeq(Unread(s), LAMBDA x : x = "nl") - 1 ELSE 0
Line(s)    == SubSeq(Unread(s), 1, LineLen(s))

Skipped(s) == IF Good(s) THEN [s EXCEPT !.g = @ + LineLen(s) + 1] ELSE s

(* The request is kept under the descriptor until there is more data.      *)
WaitForMore(c, s) ==
  /\ reqs' = [reqs EXCEPT ![fd[c]] = call[c]]
  /\ Return(c, s, TRUE)
  /\ UNCHANGED <<heap, answered>>

(* The request of the call becomes r, and the next state is looked at.     *)
Continue(c, r, s) ==
  /\ heap' = [heap EXCEPT ![call[c]] = r]
  /\ rbuf' = [rbuf EXCEPT ![c] = s]
  /\ UNCHANGED <<connVars, reqs, call, answered>>

ReadCommand(c) ==
  LET r == heap[call[c]]
      s == rbuf[c]
  IN /\ At(c, "WAIT_COMMAND")
     /\ IF HitsEnd(s)
          THEN WaitForMore(c, Rewound(s))
          ELSE Continue(c, [r EXCEPT !.state = "WAIT_HEADER",
                                     !.cmd = Contains(Line(s), "cmd"),
                                     !.from = IF Good(s) THEN @ \cup {c} ELSE @],
                        Skipped(s))

(* A header line; an empty one ends the header.                            *)
ReadHeader(c) ==
  LET r == heap[call[c]]
      s == rbuf[c]
      l == Line(s)
      h == [r EXCEPT !.keep = @ \/ Contains(l, "keep"),
                     !.data_size = IF Contains(l, "len") THEN BodySize ELSE @,
                     !.from = IF Good(s) THEN @ \cup {c} ELSE @]
  IN /\ At(c, "WAIT_HEADER")
     /\ IF HitsEnd(s) THEN WaitForMore(c, Rewound(s))
        ELSE Continue(c, IF l = <<>> THEN [h EXCEPT !.state = "RECEIVING_DATA",
                                                    !.blank = Good(s)]
                                     ELSE h,
                      Skipped(s))

(* tellg().                                                                *)
Tellg(s) == IF Good(s) THEN s.g ELSE -1

(* add_content(): all there is to read becomes content; when there is      *)
(* nothing, eofbit is set, and the tellg() that follows sets failbit.      *)
Consumed(s) ==
  IF Good(s) /\ Unread(s) # <<>> THEN [s EXCEPT !.g = Len(s.txt)]
                                 ELSE [s EXCEPT !.eof = TRUE, !.fail = TRUE]

ReceiveData(c) ==
  LET r == heap[call[c]]
      s == rbuf[c]
      n == (r.data_readed + Tellg(Consumed(s)) - Tellg(s)) % SizeMod
      d == [r EXCEPT !.data_readed = n,
                     !.body = @ + (IF Good(s) THEN Len(Unread(s)) ELSE 0),
                     !.from = IF Good(s) /\ Unread(s) # <<>> THEN @ \cup {c} ELSE @]
  IN /\ At(c, "RECEIVING_DATA")
     /\ IF r.data_size = 0
          THEN Continue(c, [r EXCEPT !.state = "PROCESS_REQUEST"], s)
        ELSE IF s.eof THEN WaitForMore(c, s)
        ELSE Continue(c, IF n >= r.data_size
                           THEN [d EXCEPT !.state = "PROCESS_REQUEST"] ELSE d,
                      Consumed(s))

(* on_request is called and its answer written, which an output stream at  *)
(* eof drops.                                                              *)
ProcessRequest(c) ==
  /\ At(c, "PROCESS_REQUEST")
  /\ answered' = [answered EXCEPT ![c] = Append(@, heap[call[c]])]
  /\ wbuf' = [wbuf EXCEPT ![c] = IF @ = "eof" THEN @ ELSE "full"]
  /\ heap' = [heap EXCEPT ![call[c]].state = "CLOSING"]
  /\ UNCHANGED <<owner, closing, fd, peer, script, rbuf, reqs, call>>

(* on_request throws out of process_data: tcp_server goes on with its next *)
(* round, or its worker drops the connection.                              *)
RequestThrows(c) ==
  /\ HandlerMayThrow
  /\ At(c, "PROCESS_REQUEST")
  /\ call' = [call EXCEPT ![c] = None]
  /\ owner' = [owner EXCEPT ![c] = IF @ = "io" THEN "io" ELSE "lost"]
  /\ UNCHANGED <<closing, fd, peer, script, rbuf, wbuf, reqs, heap, answered>>

(* Fault: the request is deleted and stays in the map. *)
Fault_CloseRequest(c) ==
  /\ At(c, "CLOSING")
  /\ heap' = [heap EXCEPT ![call[c]] = Free]
  /\ Return(c, rbuf[c], heap[call[c]].keep)
  /\ UNCHANGED <<reqs, answered>>

(* The request is deleted and erased from the map.                         *)
CloseRequest(c) ==
  /\ At(c, "CLOSING")
  /\ heap' = [heap EXCEPT ![call[c]] = Free]
  /\ reqs' = [reqs EXCEPT ![fd[c]] = None]
  /\ Return(c, rbuf[c], heap[call[c]].keep)
  /\ UNCHANGED answered

-----------------------------------------------------------------------------
ClientCloses(c) ==
  /\ peer[c] = "open" /\ script[c] = <<>> /\ owner[c] # "gone"
  /\ peer' = [peer EXCEPT ![c] = "closed"]
  /\ UNCHANGED <<owner, closing, fd, script, rbuf, wbuf, reqs, heap, call,
                 answered>>

ClientResets(c) ==
  /\ PeersMayReset
  /\ peer[c] \in {"open", "closed"} /\ owner[c] # "gone"
  /\ peer' = [peer EXCEPT ![c] = "reset"]
  /\ UNCHANGED <<owner, closing, fd, script, rbuf, wbuf, reqs, heap, call,
                 answered>>

process_data(c) ==
  \/ FindRequest(c) \/ ReadCommand(c) \/ ReadHeader(c) \/ ReceiveData(c)
  \/ ProcessRequest(c) \/ RequestThrows(c) \/ CloseRequest(c)

Server(c) ==
  \/ IoEvent(c) \/ IoFlush(c) \/ IoRead(c) \/ IoReadFails(c)
  \/ Disconnect(c) \/ WorkerTakes(c)

Next ==
  \E c \in Conns :
    Accept(c) \/ Server(c) \/ process_data(c) \/ ClientCloses(c) \/ ClientResets(c)

Spec == Init /\ [][Next]_vars

(* Threads run, handlers return, and clients that stay send what they have *)
(* to send; a connection is not passed over for ever, although each step   *)
(* has to wait for the lock of tcp_server.                                 *)
Fairness ==
  \A c \in Conns :
    WF_vars(process_data(c)) /\ SF_vars(Server(c))

FairSpec == Spec /\ Fairness

-----------------------------------------------------------------------------
Request ==
  [state : {"WAIT_COMMAND", "WAIT_HEADER", "RECEIVING_DATA", "PROCESS_REQUEST",
            "CLOSING", "free"},
   data_size : {0, BodySize}, data_readed : 0..(SizeMod - 1), keep : BOOLEAN,
   cmd : BOOLEAN, blank : BOOLEAN, body : Nat, from : SUBSET Conns]

(* The values the variables take.                                          *)
TypeOK ==
  /\ owner \in [Conns -> {"none", "io", "queue", "worker", "lost", "gone"}]
  /\ closing \in SUBSET Conns
  /\ fd \in [Conns -> Fds \cup {None}]
  /\ peer \in [Conns -> {None, "open", "closed", "reset"}]
  /\ wbuf \in [Conns -> {"eof", "empty", "full"}]
  /\ \A c \in Conns : rbuf[c].g \in 0..Len(rbuf[c].txt)
  /\ reqs \in [Fds -> Objs \cup {None}]
  /\ heap \in [Objs -> Request]
  /\ call \in [Conns -> Objs \cup {None, Lookup}]
  /\ \A c \in Conns : answered[c] \in Seq(Request)

(* A deleted request is used by no call and is not in the map, although    *)
(* the map is keyed by descriptors, which outlive neither the connection   *)
(* nor its requests.                                                       *)
NoDanglingRequest ==
  /\ \A f \in Fds : reqs[f] # None => heap[reqs[f]] # Free
  /\ \A c \in Conns : call[c] \in Objs => heap[call[c]] # Free

(* Two threads never work on the same request: the lock of the map does    *)
(* not cover the parsing, only the serialisation by tcp_server does.       *)
NoSharedRequest ==
  /\ \A c, d \in Conns : call[c] \in Objs /\ call[c] = call[d] => c = d
  /\ \A f, g \in Fds : reqs[f] # None /\ reqs[f] = reqs[g] => f = g
  /\ \A c \in Conns, f \in Fds : call[c] \in Objs /\ reqs[f] = call[c] => f = fd[c]

(* No request object is leaked, except one on_request threw for, which     *)
(* stays in PROCESS_REQUEST.                                               *)
NoLeak ==
  \A o \in Objs : heap[o] # Free =>
    \/ \E f \in Fds : reqs[f] = o
    \/ \E c \in Conns : call[c] = o
    \/ HandlerMayThrow /\ heap[o].state = "PROCESS_REQUEST"

(* The map of parsers, the calls under way and the heap agree about every  *)
(* request, whatever connections break off and handlers throw.             *)
RequestOwned == TypeOK /\ NoDanglingRequest /\ NoSharedRequest /\ NoLeak

(* on_request is only given requests of which the connection itself sent   *)
(* the command line, the end of the header and all of the content.         *)
WholeRequest(c, r) ==
  r.cmd /\ r.blank /\ r.body = r.data_size /\ r.from = {c}

AnswersWhole ==
  \A c \in Conns : \A n \in DOMAIN answered[c] : WholeRequest(c, answered[c][n])

(* However the segments of a client split its request inside lines, it is  *)
(* answered once and the connection closed.                                *)
EveryRequestAnswered ==
  \A c \in Conns :
    owner[c] # "none" ~> owner[c] = "gone" /\ Len(answered[c]) = 1

(* The calls of process_data are made in the life cycle of RequestLifecycle. *)
Lifecycle == INSTANCE RequestLifecycle

KeepsLifecycle == Lifecycle!LifecycleSpec

-----------------------------------------------------------------------------
(* The inductive invariant.  The streams are those of the clients; a       *)
(* connection has a descriptor of its own from accept() to close(), and a  *)
(* call is made for it only then; the map has the request of the call, or  *)
(* none, under that descriptor.                                            *)
StreamTypes ==
  /\ script \in [Conns -> Seq(Seq(Symbols))]
  /\ rbuf \in [Conns -> [txt : Seq(Symbols), g : Nat, eof : BOOLEAN, fail : BOOLEAN]]

DescriptorsOwn ==
  /\ \A c \in Conns : fd[c] = None <=> owner[c] \in {"none", "gone"}
  /\ \A c, d \in Conns : fd[c] # None /\ fd[c] = fd[d] => c = d

CallPlaces ==
  \A c \in Conns :
    /\ Calling(c) => owner[c] \in {"io", "worker"}
    /\ call[c] \in Objs => reqs[fd[c]] \in {None, call[c]}

HttpInv == RequestOwned /\ StreamTypes /\ DescriptorsOwn /\ CallPlaces

-----------------------------------------------------------------------------
(* What AnswersWhole rests on.  A client that sends one request, cut only    *)
(* inside lines of its header: T is the text of the request, e the empty     *)
(* line that ends its header.                                                *)
SizeAt(T, n) ==
  IF \E i \in 1..n : T[i] = "len" /\ (\E j \in 1..(i - 1) : T[j] = "nl") THEN BodySize ELSE 0

HeaderEnds(T, e) ==
  /\ e \in 2..Len(T) /\ T[e] = "nl" /\ T[e - 1] = "nl"
  /\ \A i \in 2..(e - 1) : ~(T[i] = "nl" /\ T[i - 1] = "nl")

RequestText(T, e) ==
  /\ T \in Seq(Symbols) /\ HeaderEnds(T, e) /\ Len(T) = e + SizeAt(T, e)
  /\ \E i \in 1..e : T[i] = "cmd" /\ \A j \in 1..i : T[j] # "nl"
  /\ \A i \in 1..e : T[i] # "keep"

(* Where a segment may end, and the segments z of what follows place p.      *)
CutAt(T, e, q) == q = Len(T) \/ (q \in 1..(e - 1) /\ T[q] # "nl")
Splits(T, e, p, z) ==
  \E cut \in [0..Len(z) -> 0..Len(T)] :
    /\ cut[0] = p /\ cut[Len(z)] = Len(T)
    /\ \A i \in 1..Len(z) :
         /\ cut[i - 1] < cut[i] /\ CutAt(T, e, cut[i])
         /\ z[i] = SubSeq(T, cut[i - 1] + 1, cut[i])

Texts == {FlattenSeq(z) : z \in Scripts}
OneRequest(z) == \E T \in Texts : \E e \in 2..Len(T) : RequestText(T, e) /\ Splits(T, e, 0, z)
OneRequestEach == ~HandlerMayThrow /\ ~PeersMayReset /\ \A z \in Scripts : OneRequest(z)

(* How far the request r is when the text was read up to place g.            *)
Progress(T, e, c, g, r) ==
  \/ r = NewRequest /\ g = 0
  \/ /\ r.cmd /\ ~r.keep /\ r.from = {c} /\ r.body = 0 /\ r.data_readed = 0 /\ r.data_size = SizeAt(T, g)
     /\ \/ r.state = "WAIT_HEADER" /\ g \in 1..(e - 1) /\ T[g] = "nl"
        \/ r.state = "RECEIVING_DATA" /\ g = e /\ r.blank
  \/ r.state = "PROCESS_REQUEST" /\ WholeRequest(c, r) /\ ~r.keep
  \/ r.state = "CLOSING" /\ ~r.keep

(* The text has arrived up to place p, in stream s; the segments z follow.   *)
Arrived(T, e, p, c, s, z, r) ==
  /\ RequestText(T, e) /\ Splits(T, e, p, z) /\ CutAt(T, e, p)
  /\ Good(s) /\ s.txt = SubSeq(T, 1, p) /\ Progress(T, e, c, s.g, r)
  /\ r.state \in {"WAIT_COMMAND", "WAIT_HEADER"} \/ p = Len(T)
Arriving(c, s, z, r) == \E T \in Texts : \E e, p \in 1..Len(T) : Arrived(T, e, p, c, s, z, r)

(* The request of a connection: that of the call, or the one in the map.     *)
Mine(c) ==
  IF call[c] \in Objs THEN call[c] ELSE IF fd[c] = None THEN None ELSE reqs[fd[c]]
Parsed(c) == IF Mine(c) = None THEN NewRequest ELSE heap[Mine(c)]

(* A connection is before its first segment, in its request, or done.        *)
Silent(c) ==
  /\ owner[c] \in {"none", "io"} /\ c \notin closing /\ call[c] = None /\ Mine(c) = None
  /\ peer[c] # "closed" /\ wbuf[c] = "eof" /\ rbuf[c].txt = <<>> /\ rbuf[c].g = 0
  /\ OneRequest(script[c])
Underway(c) ==
  /\ owner[c] \in {"io", "queue", "worker"} /\ c \notin closing
  /\ call[c] = None => Mine(c) # None
  /\ Arriving(c, rbuf[c], script[c], Parsed(c))
Served(c) ==
  /\ \/ owner[c] = "io" /\ c \in closing
     \/ owner[c] = "gone" /\ c \notin closing
  /\ script[c] = <<>> /\ call[c] = None /\ Mine(c) = None

MapClean == \A f \in Fds : (\A c \in Conns : fd[c] # f) => reqs[f] = None
WholeInv ==
  /\ \A c \in Conns : peer[c] # "reset" /\ (Silent(c) \/ Underway(c) \/ Served(c))
  /\ MapClean /\ AnswersWhole

-----------------------------------------------------------------------------
(* http_server.cpp:105, "when blank line - headers end": a request is only *)
(* answered after the empty line that ends its header was received.        *)
BlankLineEndsHeader ==
  \A c \in Conns : \A n \in DOMAIN answered[c] : answered[c][n].blank

=============================================================================
