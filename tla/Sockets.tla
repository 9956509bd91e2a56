------------------------------- MODULE Sockets -------------------------------
(***************************************************************************)
(* Sockets and TLS sockets as owners of a descriptor.  A copy of a socket   *)
(* takes the descriptor away from its source.  An ssl_socket is a socket    *)
(* and has a pointer to another one, its implementation, to which it hands  *)
(* the descriptor on and which also owns a session.  One kernel, which      *)
(* gives out the lowest free descriptor.  Undefined behaviour is recorded,  *)
(* and nothing is said of what follows it.                                  *)
(***************************************************************************)
EXTENDS Integers, FiniteSets

CONSTANTS SocketObjects,     \* places for socket objects
          MaxDescriptors,
          TlsLibrary         \* of the build: "openssl" or "gnutls"

ASSUME SocketAssumption == IsFiniteSet(SocketObjects) /\ MaxDescriptors \in Nat

VARIABLES sock,       \* place -> what is there, its descriptor, session and implementation
          kernel,     \* descriptor -> closed, or its state
          sessions,   \* live sessions, by number
          sockLog     \* undefined behaviour; an implementation or session was shared

sockVars == <<sock, kernel, sessions, sockLog>>

None == -1
Descriptors == 0..MaxDescriptors - 1
Dead == [kind |-> "none", fd |-> None, session |-> None, impl |-> None, handshake |-> FALSE]
ClosedFd == [state |-> "closed", data |-> FALSE]

Open(fd) == fd # None /\ kernel[fd].state # "closed"
FreeFds == { fd \in Descriptors : kernel[fd].state = "closed" }
LowestFd == CHOOSE fd \in FreeFds : \A other \in FreeFds : fd <= other
Closing(fds) == [fd \in Descriptors |-> IF fd \in fds THEN ClosedFd ELSE kernel[fd]]
Objects(kinds) == { o \in SocketObjects : sock[o].kind \in kinds }
FreeSession == CHOOSE s \in 0..Cardinality(SocketObjects) : s \notin sessions

(* What an application has: the implementation of an ssl_socket is its own. *)
Public(o) == sock[o].kind \in {"socket", "ssl"}
(* No object points at a place, but o, which is about to point elsewhere: an
   implementation can get that memory, if no object is there.              *)
Memory(h, o) == \A p \in SocketObjects \ {o} : sock[p].impl # h
(* The pointers an ssl_socket follows lead to live objects.                *)
Valid(o) == sock[sock[o].impl].kind = "impl" /\ sock[sock[o].impl].session \in sessions

SockInit ==
  /\ sock = [o \in SocketObjects |-> Dead]
  /\ kernel = [fd \in Descriptors |-> ClosedFd]
  /\ sessions = {}
  /\ sockLog = [undefined |-> FALSE, shared |-> FALSE]

NewSocket(fd) == [Dead EXCEPT !.kind = "socket", !.fd = fd]
NewSsl(fd, h) == [Dead EXCEPT !.kind = "ssl", !.fd = fd, !.impl = h]
NewImpl(fd, s) == [Dead EXCEPT !.kind = "impl", !.fd = fd, !.session = s, !.handshake = TRUE]

(* socket(): a socket without a descriptor, the target of later assignments. *)
CreateEmpty(o) ==
  /\ sock[o].kind = "none"
  /\ sock' = [sock EXCEPT ![o] = NewSocket(None)]
  /\ UNCHANGED <<kernel, sessions, sockLog>>

(* tcp_socket(), udp_socket(), unix_socket(); they throw without a descriptor. *)
Create(o) ==
  /\ sock[o].kind = "none" /\ FreeFds # {}
  /\ sock' = [sock EXCEPT ![o] = NewSocket(LowestFd)]
  /\ kernel' = [kernel EXCEPT ![LowestFd].state = "new"]
  /\ UNCHANGED <<sessions, sockLog>>

(* Were the source of a copy left with its descriptor.                     *)
Fault_Copy(o, src) ==
  /\ sock[o].kind = "none" /\ Public(src)
  /\ sock' = [sock EXCEPT ![o] = NewSocket(sock[src].fd)]
  /\ UNCHANGED <<kernel, sessions, sockLog>>

(* socket(const socket&): of an ssl_socket it takes what the base holds.    *)
Copy(o, src) ==
  /\ sock[o].kind = "none" /\ Public(src)
  /\ sock' = [sock EXCEPT ![o] = NewSocket(sock[src].fd), ![src].fd = None]
  /\ UNCHANGED <<kernel, sessions, sockLog>>

(* The copy constructor the compiler makes for ssl_socket: the base is copied
   as above, the pointer as it is.                                         *)
CopySecure(o, src) ==
  /\ sock[o].kind = "none" /\ sock[src].kind = "ssl"
  /\ sock' = [sock EXCEPT ![o] = NewSsl(sock[src].fd, sock[src].impl), ![src].fd = None]
  /\ sockLog' = [sockLog EXCEPT !.shared = TRUE]
  /\ UNCHANGED <<kernel, sessions>>

(* socket::operator=: what the target held is not closed; a socket assigned to
   itself loses its own descriptor.                                        *)
Assign(o, src) ==
  /\ Public(o) /\ Public(src)
  /\ sock' = [sock EXCEPT ![o].fd = IF o = src THEN None ELSE sock[src].fd,
                          ![src].fd = None]
  /\ UNCHANGED <<kernel, sessions, sockLog>>

(* connect(): a failure forgets the descriptor without closing it.         *)
Connect(o) ==
  /\ Public(o) /\ Open(sock[o].fd) /\ kernel[sock[o].fd].state = "new"
  /\ \/ /\ kernel' = [kernel EXCEPT ![sock[o].fd].state = "connected"] /\ UNCHANGED sock
     \/ /\ sock' = [sock EXCEPT ![o].fd = None] /\ UNCHANGED kernel
  /\ UNCHANGED <<sessions, sockLog>>

(* bind(): the same failure.                                               *)
Bind(o) ==
  /\ Public(o) /\ Open(sock[o].fd) /\ kernel[sock[o].fd].state = "new"
  /\ \/ /\ kernel' = [kernel EXCEPT ![sock[o].fd].state = "bound"] /\ UNCHANGED sock
     \/ /\ sock' = [sock EXCEPT ![o].fd = None] /\ UNCHANGED kernel
  /\ UNCHANGED <<sessions, sockLog>>

(* listen(): a failure throws and changes nothing.                         *)
Listen(o) ==
  /\ Public(o) /\ Open(sock[o].fd) /\ kernel[sock[o].fd].state = "bound"
  /\ kernel' = [kernel EXCEPT ![sock[o].fd].state = "listening"]
  /\ UNCHANGED <<sock, sessions, sockLog>>

(* accept(): the result is a socket of its own.                            *)
SockAccept(o, listener) ==
  /\ sock[o].kind = "none" /\ FreeFds # {}
  /\ Public(listener) /\ Open(sock[listener].fd)
  /\ kernel[sock[listener].fd].state = "listening"
  /\ sock' = [sock EXCEPT ![o] = NewSocket(LowestFd)]
  /\ kernel' = [kernel EXCEPT ![LowestFd] = [state |-> "connected", data |-> FALSE]]
  /\ UNCHANGED <<sessions, sockLog>>

(* ssl_socket(): neither its base nor its implementation has a descriptor.  *)
CreateSecure(o, h) ==
  /\ o # h /\ sock[o].kind = "none" /\ sock[h].kind = "none" /\ Memory(h, o)
  /\ sock' = [sock EXCEPT ![o] = NewSsl(None, h), ![h] = NewImpl(None, FreeSession)]
  /\ sessions' = sessions \cup {FreeSession}
  /\ UNCHANGED <<kernel, sockLog>>

(* ssl_socket(const socket&): the base takes the descriptor and gives it to
   the implementation, with a session of its own.                          *)
Secure(o, h, src) ==
  /\ o # h /\ sock[o].kind = "none" /\ sock[h].kind = "none" /\ Memory(h, o)
  /\ Public(src)
  /\ sock' = [sock EXCEPT ![o] = NewSsl(None, h), ![h] = NewImpl(sock[src].fd, FreeSession),
                          ![src].fd = None]
  /\ sessions' = sessions \cup {FreeSession}
  /\ UNCHANGED <<kernel, sockLog>>

(* With openssl it may throw, when the implementation has the descriptor
   already: what is destroyed on the way out closes it.                    *)
SecureFails(src) ==
  /\ TlsLibrary = "openssl" /\ Public(src)
  /\ sock' = [sock EXCEPT ![src].fd = None]
  /\ kernel' = Closing({sock[src].fd})
  /\ UNCHANGED <<sessions, sockLog>>

(* ssl_socket::operator=: the implementation is deleted, and a copy of the
   source's takes its descriptor, but shares the session, which both will free. *)
AssignSecure(o, src, h) ==
  LET old == sock[o].impl
      from == sock[src].impl IN
  /\ sock[o].kind = "ssl" /\ sock[src].kind = "ssl" /\ old # from
  /\ Valid(o) /\ sock[from].kind = "impl"
  /\ (h = old \/ sock[h].kind = "none") /\ Memory(h, o)
  /\ sock' = [sock EXCEPT ![old] = Dead, ![h] = sock[from], ![from].fd = None, ![o].impl = h]
  /\ sessions' = sessions \ {sock[old].session}
  /\ kernel' = Closing({sock[old].fd})
  /\ sockLog' = [sockLog EXCEPT !.shared = TRUE]

(* The same onto itself, or between two that share their implementation: it is
   copied after it was deleted.                                            *)
AssignDeleted(o, src) ==
  /\ sock[o].kind = "ssl" /\ sock[src].kind = "ssl" /\ sock[o].impl = sock[src].impl
  /\ sockLog' = [undefined |-> TRUE, shared |-> TRUE]
  /\ UNCHANGED <<sock, kernel, sessions>>

(* A method, the destructor or operator= of an ssl_socket whose implementation
   or session is gone.                                                     *)
UseDeleted(o) ==
  /\ sock[o].kind = "ssl" /\ ~Valid(o)
  /\ sockLog' = [sockLog EXCEPT !.undefined = TRUE]
  /\ UNCHANGED <<sock, kernel, sessions>>

(* ~socket()                                                               *)
Destroy(o) ==
  /\ sock[o].kind = "socket"
  /\ sock' = [sock EXCEPT ![o] = Dead]
  /\ kernel' = Closing({sock[o].fd})
  /\ UNCHANGED <<sessions, sockLog>>

(* ~ssl_socket(): the implementation frees the session and closes its
   descriptor, then the base closes its own.                               *)
DestroySecure(o) ==
  LET h == sock[o].impl IN
  /\ sock[o].kind = "ssl" /\ Valid(o)
  /\ sock' = [sock EXCEPT ![o] = Dead, ![h] = Dead]
  /\ kernel' = Closing({sock[o].fd, sock[h].fd})
  /\ sessions' = sessions \ {sock[h].session}
  /\ UNCHANGED sockLog

DataComes(fd) ==
  /\ kernel[fd].state = "connected" /\ ~kernel[fd].data
  /\ kernel' = [kernel EXCEPT ![fd].data = TRUE]
  /\ UNCHANGED <<sock, sessions, sockLog>>

(* The socket whose descriptor read(), write() and shutdown() use.         *)
Via(o) == IF sock[o].kind = "ssl" THEN sock[o].impl ELSE o
Working(o) ==
  /\ Public(o) /\ (sock[o].kind = "ssl" => Valid(o))
  /\ Open(sock[Via(o)].fd)

(* read() when there is data, and no handshake to do first.                *)
SockRead(o) ==
  /\ Working(o) /\ kernel[sock[Via(o)].fd].data /\ ~sock[Via(o)].handshake
  /\ kernel' = [kernel EXCEPT ![sock[Via(o)].fd].data = FALSE]
  /\ UNCHANGED <<sock, sessions, sockLog>>

(* read() or write() on a session that has yet to shake hands: gnutls keeps a
   flag of ours, openssl its own; more than one message may be needed.     *)
Handshake(o) ==
  /\ Working(o) /\ kernel[sock[Via(o)].fd].data /\ sock[Via(o)].handshake
  /\ kernel' = [kernel EXCEPT ![sock[Via(o)].fd].data = FALSE]
  /\ \E pending \in BOOLEAN : sock' = [sock EXCEPT ![Via(o)].handshake = pending]
  /\ UNCHANGED <<sessions, sockLog>>

(* shutdown(): of a TLS socket a message to the peer; the connection stays. *)
SockShutdown(o) ==
  /\ Working(o) /\ sock[o].kind = "socket" /\ kernel[sock[o].fd].state = "connected"
  /\ kernel' = [kernel EXCEPT ![sock[o].fd].state = "shut"]
  /\ UNCHANGED <<sock, sessions, sockLog>>

SockNext ==
  /\ ~sockLog.undefined
  /\ \/ \E o \in SocketObjects : CreateEmpty(o) \/ Create(o) \/ Connect(o) \/ Bind(o) \/ Listen(o)
     \/ \E o \in SocketObjects : SecureFails(o) \/ UseDeleted(o) \/ Destroy(o) \/ DestroySecure(o)
     \/ \E o \in SocketObjects : SockRead(o) \/ Handshake(o) \/ SockShutdown(o)
     \/ \E o, src \in SocketObjects :
          Copy(o, src) \/ CopySecure(o, src) \/ Assign(o, src) \/ SockAccept(o, src) \/ AssignDeleted(o, src)
     \/ \E o, h \in SocketObjects : CreateSecure(o, h)
     \/ \E o, h, src \in SocketObjects : Secure(o, h, src) \/ AssignSecure(o, src, h)
     \/ \E fd \in Descriptors : DataComes(fd)

SockSpec == SockInit /\ [][SockNext]_sockVars

-----------------------------------------------------------------------------
(* A descriptor has at most one socket that will close it, and it is open as
   long as it has one: no socket ever closes, reads or listens on what the
   kernel has given to another, whatever was copied, assigned or failed.  And
   every TLS socket has an implementation and a session of its own, nothing is
   used or freed after it was freed, as long as no ssl_socket was copied or
   assigned, be it to itself.                                              *)
DescriptorHeldOnce ==
  /\ \A o \in SocketObjects : sock[o].fd # None => Open(sock[o].fd)
  /\ \A o, p \in SocketObjects : sock[o].fd = sock[p].fd /\ o # p => sock[o].fd = None
  /\ ~sockLog.shared => /\ ~sockLog.undefined
                        /\ \A o \in Objects({"ssl"}) : Valid(o)
                        /\ \A o, p \in Objects({"ssl"}) : sock[o].impl = sock[p].impl => o = p

(* What this rests on: the types; a place without an object holds nothing, only
   an implementation has a session and only an ssl_socket an implementation;
   every live session is some implementation's, and every implementation has
   one of its own as long as nothing was shared.                           *)
SocketRecords ==
  [kind: {"none", "socket", "ssl", "impl"}, fd: Descriptors \cup {None}, session: Nat \cup {None},
   impl: SocketObjects \cup {None}, handshake: BOOLEAN]
KernelRecords ==
  [state: {"closed", "new", "bound", "listening", "connected", "shut"}, data: BOOLEAN]
SockTypes ==
  /\ sock \in [SocketObjects -> SocketRecords] /\ kernel \in [Descriptors -> KernelRecords]
  /\ sockLog \in [undefined: BOOLEAN, shared: BOOLEAN]
DeadHoldNothing == \A o \in Objects({"none"}) : sock[o] = Dead
SessionsOwned ==
  /\ \A o \in SocketObjects : /\ sock[o].session \in Nat <=> sock[o].kind = "impl"
                              /\ sock[o].kind = "ssl" => sock[o].impl \in SocketObjects
                              /\ sock[o].kind # "ssl" => sock[o].impl = None
  /\ \A s \in sessions : \E h \in Objects({"impl"}) : sock[h].session = s
  /\ ~sockLog.shared => \A h, k \in Objects({"impl"}) : /\ sock[h].session \in sessions
                                                        /\ sock[h].session = sock[k].session => h = k
SockInv == SockTypes /\ DeadHoldNothing /\ SessionsOwned /\ DescriptorHeldOnce
=============================================================================
