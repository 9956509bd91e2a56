---------------------------- MODULE LibraryProofs ----------------------------
(***************************************************************************)
(* What sockets and plugins own, for every number of objects, descriptors, *)
(* libraries and loads; what the configuration parser makes of any file    *)
(* system; what encoder_md5 makes of any stream.                           *)
(***************************************************************************)
EXTENDS Sockets, Extensions, AppConfig, Md5, FiniteSetTheorems, SequenceTheorems, WellFoundedInduction, TLAPS

-----------------------------------------------------------------------------
(* Plugins.                                                                *)

(* The name of a library is none of the marks of the model. *)
LEMMA LibraryName ==
  ASSUME NEW l \in Libraries
  PROVE  l.name \in LibNames /\ l.name \notin {NoLib, "wild", "null"}
BY ExtAssumption DEF LibNames

(* Closing a handle takes one from its library's count, and from no other.  *)
LEMMA ClosedCounts ==
  ASSUME NEW m \in [LibNames -> Int], NEW h \in LibNames \cup {NoLib}
  PROVE  /\ Closed(m, h) \in [LibNames -> Int]
         /\ \A l \in LibNames : Closed(m, h)[l] = IF l = h THEN m[l] - 1 ELSE m[l]
BY ExtAssumption DEF Closed

(* What load() finds when it opens the library: nothing is open.            *)
LEMMA UnloadedCounts ==
  ASSUME ExtInv, Usable, loader = "posix" \/ loads < 1
  PROVE  Unloaded \in [LibNames -> Int] /\ \A l \in LibNames : Unloaded[l] = 0
<1>1. ~(handle \in LibNames /\ handle = NoLib)
  BY ExtAssumption
<1>2. \A l \in LibNames : mapped[l] = IF handle = l THEN 1 ELSE 0
  <2>1. loads < 1 => loads < 2 BY DEF ExtInv, ExtTypes
  <2>. QED BY <2>1 DEF ExtInv, LibrariesBalanced, Usable
<1>3. CASE loader = "posix"
  <2>1. Unloaded = Closed(mapped, handle) BY <1>3 DEF Unloaded
  <2>. QED BY <1>2, <2>1, ClosedCounts DEF ExtInv, ExtTypes
<1>4. CASE loader # "posix"
  <2>1. Unloaded = mapped BY <1>4 DEF Unloaded
  <2>2. loads = 0 BY <1>4 DEF ExtInv, ExtTypes
  <2>3. handle = NoLib BY <2>2 DEF ExtInv, NotLoaded
  <2>. QED BY <1>2, <2>1, <2>3, ExtAssumption DEF ExtInv, ExtTypes
<1>. QED BY <1>3, <1>4

(* The counts after the old library was closed. *)
LEMMA UnloadedType == ASSUME ExtInv PROVE Unloaded \in [LibNames -> Int]
BY ClosedCounts DEF ExtInv, ExtTypes, Unloaded

(* load(), whichever way it ends, keeps the invariant.                     *)
LEMMA LoadKeeps ==
  ASSUME ExtInv, Usable, NEW l \in Libraries, load(l)
  PROVE  ExtInv'
<1>1. l.name \in LibNames /\ l.name # NoLib BY LibraryName
<1>2. ExtTypes' BY <1>1, UnloadedType DEF load, ExtInv, ExtTypes
<1>3. NotLoaded' BY DEF load, ExtInv, ExtTypes, NotLoaded
<1>4. LoadedOnce'
  <2>1. loads' = 1 => objects = {} BY DEF load, ExtInv, ExtTypes, NotLoaded
  <2>. QED BY <1>1, <2>1 DEF load, LoadedOnce
<1>5. LibrariesBalanced'
  <2>1. SUFFICES ASSUME plug' = "made", loader' = "posix" \/ loads' < 2
                 PROVE  \A n \in LibNames : mapped'[n] = IF handle' = n THEN 1 ELSE 0
    BY <2>1 DEF LibrariesBalanced
  <2>2. loader = "posix" \/ loads < 1 BY <2>1 DEF load, ExtInv, ExtTypes
  <2>. QED BY <1>1, <2>2, UnloadedCounts DEF load
<1>6. CallsLand' BY DEF load, Usable, CallsLand
<1>. QED BY <1>2, <1>3, <1>4, <1>5, <1>6 DEF ExtInv

(* load() that fails. *)
LEMMA FailedLoadKeeps ==
  ASSUME ExtInv, Usable,
         load_fails_to_open \/ \E l \in Libraries : load_lacks_symbol(l)
  PROVE  ExtInv'
<1>1. loads' = loads + 1 /\ lastLoad' = "failed" /\ loader' = loader /\ plug' = plug
      /\ objects' = objects
  BY DEF load_fails_to_open, load_lacks_symbol
<1>2. ExtTypes'
  <2>1. CASE load_fails_to_open
    BY <2>1, UnloadedType DEF load_fails_to_open, ExtInv, ExtTypes
  <2>2. ASSUME NEW l \in Libraries, load_lacks_symbol(l) PROVE ExtTypes'
    BY <2>2, UnloadedType, LibraryName DEF load_lacks_symbol, ExtInv, ExtTypes
  <2>. QED BY <2>1, <2>2
<1>3. NotLoaded' /\ LoadedOnce' /\ CallsLand'
  BY <1>1 DEF ExtInv, ExtTypes, NotLoaded, LoadedOnce, CallsLand
<1>4. LibrariesBalanced'
  <2>1. SUFFICES ASSUME loader' = "posix" \/ loads' < 2
                 PROVE  \A n \in LibNames : mapped'[n] = IF handle' = n THEN 1 ELSE 0
    BY <2>1 DEF LibrariesBalanced
  <2>2. loader = "posix" \/ loads < 1 BY <1>1, <2>1 DEF ExtInv, ExtTypes
  <2>3. CASE load_fails_to_open
    BY <2>2, <2>3, UnloadedCounts, ExtAssumption DEF load_fails_to_open
  <2>4. ASSUME NEW l \in Libraries, load_lacks_symbol(l)
        PROVE  \A n \in LibNames : mapped'[n] = IF handle' = n THEN 1 ELSE 0
    BY <2>2, <2>4, UnloadedCounts, LibraryName, ExtAssumption DEF load_lacks_symbol
  <2>. QED BY <2>3, <2>4
<1>. QED BY <1>2, <1>3, <1>4 DEF ExtInv

(* A call through a pointer of the one library that was loaded lands in it. *)
LEMMA OnceLands ==
  ASSUME ExtInv, Usable, lastLoad = "ok", loads = 1
  PROVE  (\A s \in 1 .. 4 : Lands(s)) /\ \A o \in objects : mapped[o] > 0
<1>1. handle \in LibNames /\ objects \subseteq {handle} /\ \A s \in 1 .. 4 : fn[s] = handle
  BY DEF ExtInv, LoadedOnce, Usable
<1>2. mapped[handle] = 1
  BY <1>1 DEF ExtInv, LibrariesBalanced, Usable
<1>. QED BY <1>1, <1>2 DEF Lands

(* A call through one of the pointers. *)
LEMMA CallKeeps ==
  ASSUME ExtInv, init \/ create_object \/ \E o \in objects : destroy_object(o)
  PROVE  ExtInv'
<1>1. UNCHANGED <<loader, plug, handle, fn, mapped, lastLoad, loads>> /\ Usable
  BY DEF init, create_object, destroy_object
<1>2. objects' \subseteq LibNames /\ (loads = 0 => objects' = {})
      /\ (plug = "made" /\ lastLoad = "ok" /\ loads = 1 => objects' \subseteq {handle})
  <2>1. CASE objects' \subseteq objects
    BY <2>1 DEF ExtInv, ExtTypes, NotLoaded, LoadedOnce
  <2>2. CASE Lands(2) /\ objects' = objects \cup {fn[2]}
    <3>1. fn[2] \in LibNames /\ fn[2] # "wild" BY <2>2, ExtAssumption DEF Lands
    <3>. QED BY <2>2, <3>1 DEF ExtInv, ExtTypes, NotLoaded, LoadedOnce
  <2>. QED BY <2>1, <2>2 DEF init, create_object, destroy_object
<1>3. ExtTypes' /\ NotLoaded' /\ LoadedOnce' /\ LibrariesBalanced'
  BY <1>1, <1>2 DEF ExtInv, ExtTypes, NotLoaded, LoadedOnce, LibrariesBalanced
<1>4. CallsLand'
  <2>1. SUFFICES ASSUME lastLoad = "ok", loads = 1 PROVE ~lost'
    BY <1>1 DEF CallsLand
  <2>2. Lands(1) /\ Lands(2) /\ Lands(3) /\ \A o \in objects : mapped[o] > 0
    BY <1>1, <2>1, OnceLands
  <2>3. CASE init BY <2>2, <2>3 DEF init, Lands
  <2>4. CASE create_object BY <2>2, <2>4 DEF create_object, Lands
  <2>5. ASSUME NEW o \in objects, destroy_object(o) PROVE ~lost'
    BY <2>2, <2>5 DEF destroy_object, Lands
  <2>. QED BY <2>3, <2>4, <2>5
<1>. QED BY <1>3, <1>4 DEF ExtInv

(* The destructor. *)
LEMMA DestroyKeeps == ASSUME ExtInv, destroy_plugin PROVE ExtInv'
<1>1. ExtTypes'
  BY ClosedCounts DEF destroy_plugin, ExtInv, ExtTypes
<1>2. NotLoaded' /\ LoadedOnce' /\ LibrariesBalanced'
  BY DEF destroy_plugin, ExtInv, NotLoaded, LoadedOnce, LibrariesBalanced
<1>3. CallsLand'
  <2>1. SUFFICES ASSUME lastLoad = "ok", loads = 1 PROVE ~lost'
    BY DEF destroy_plugin, CallsLand
  <2>2. Lands(4) BY <2>1, OnceLands DEF destroy_plugin
  <2>. QED BY <2>2 DEF destroy_plugin, Lands
<1>. QED BY <1>1, <1>2, <1>3 DEF ExtInv

(* Every step keeps the invariant. *)
LEMMA ExtStep == ExtInv /\ [ExtNext]_extVars => ExtInv'
<1>. SUFFICES ASSUME ExtInv, [ExtNext]_extVars PROVE ExtInv'
  OBVIOUS
<1>1. CASE load_fails_to_open \/ \E l \in Libraries : load_lacks_symbol(l)
  BY <1>1, FailedLoadKeeps DEF load_fails_to_open, load_lacks_symbol
<1>2. ASSUME NEW l \in Libraries, load(l) PROVE ExtInv'
  BY <1>2, LoadKeeps DEF load
<1>3. CASE init \/ create_object \/ \E o \in objects : destroy_object(o)
  BY <1>3, CallKeeps
<1>4. CASE destroy_plugin
  BY <1>4, DestroyKeeps
<1>5. CASE UNCHANGED plugVars
  BY <1>5 DEF plugVars, ExtInv, ExtTypes, NotLoaded, LoadedOnce, LibrariesBalanced, CallsLand
<1>. QED
  BY <1>1, <1>2, <1>3, <1>4, <1>5
  DEF ExtNext, register_class, unregister_class, extVars, plugVars

(* plugin: on POSIX libraries are closed as often as they are opened, on    *)
(* Win32 for one load(); and after one successful load() every call of      *)
(* init(), create_object(), the objects' destructors and finalize() lands   *)
(* in a library that is still mapped, for any libraries and symbols.        *)
THEOREM PluginsSafe == ExtSpec => []PluginSafe
<1>1. ExtInit => ExtInv
  BY ExtAssumption DEF ExtInit, ExtInv, ExtTypes, NotLoaded, LoadedOnce, LibrariesBalanced, CallsLand
<1>2. ExtInv => PluginSafe
  BY DEF ExtInv, PluginSafe
<1>. QED BY <1>1, <1>2, ExtStep, PTL DEF ExtSpec


-----------------------------------------------------------------------------
(* Sockets.                                                                *)

(* A set of naturals has a least element. *)
LEMMA LeastOf ==
  ASSUME NEW S \in SUBSET Nat, S # {}
  PROVE  \E m \in S : \A k \in S : m <= k
<1>1. PICK R : IsWellFoundedOn(R, Nat) /\ \A k, m \in Nat : k < m => <<k, m>> \in R
  <2>1. \A k, m \in Nat : k < m => <<k, m>> \in OpToRel(<, Nat)
    BY DEF OpToRel
  <2>. QED BY <2>1, NatLessThanWellFounded
<1>2. IsWellFoundedOn(R, Nat)
  BY <1>1
<1>3. PICK m \in S : \A k \in S : ~ (<<k, m>> \in R)
  BY <1>2, WFMin
<1>4. m \in Nat /\ \A k \in S : k \in Nat /\ ~ (k < m)
  BY <1>1, <1>3
<1>5. \A k \in S : m <= k
  BY <1>4
<1>. QED BY <1>3, <1>5

(* The kernel has a lowest free descriptor.                                *)
LEMMA LowestFree ==
  ASSUME FreeFds # {}
  PROVE  LowestFd \in FreeFds
<1>1. FreeFds \subseteq Nat
  BY SocketAssumption DEF FreeFds, Descriptors
<1>2. \E fd \in FreeFds : \A other \in FreeFds : fd <= other
  BY <1>1, LeastOf
<1>. QED BY <1>2 DEF LowestFd

(* There are fewer live sessions than numbers for one more.                *)
LEMMA SessionIsNew ==
  ASSUME SockTypes, SessionsOwned
  PROVE  FreeSession \in Nat /\ FreeSession \notin sessions
<1>. DEFINE N == Cardinality(SocketObjects)
            Owned == { sock[o].session : o \in SocketObjects }
<1>1. N \in Nat BY SocketAssumption, FS_CardinalityType
<1>2. IsFiniteSet(Owned) /\ Cardinality(Owned) <= N
  <2>1. [o \in SocketObjects |-> sock[o].session] \in Surjection(SocketObjects, Owned)
    BY DEF Surjection
  <2>. QED BY <2>1, SocketAssumption, FS_Surjection
<1>3. IsFiniteSet(0..N) /\ Cardinality(0..N) = N + 1
  BY <1>1, FS_Interval
<1>4. ~(0..N \subseteq Owned)
  <2>1. SUFFICES ASSUME 0..N \subseteq Owned PROVE FALSE
    OBVIOUS
  <2>2. Cardinality(0..N) <= Cardinality(Owned)
    BY <1>2, <2>1, FS_Subset
  <2>3. Cardinality(Owned) \in Nat BY <1>2, FS_CardinalityType
  <2>. QED BY <1>1, <1>2, <1>3, <2>2, <2>3
<1>5. sessions \subseteq Owned
  BY DEF SessionsOwned, Objects
<1>6. \E s \in 0..N : s \notin sessions
  BY <1>4, <1>5
<1>7. FreeSession \in 0..N /\ FreeSession \notin sessions
  BY <1>6 DEF FreeSession
<1>. QED BY <1>1, <1>7

(* The parts of the invariant over all places: the descriptors, and the     *)
(* pointers with the sessions.                                              *)
FdsHeld ==
  \A o \in SocketObjects :
    /\ sock[o].kind = "none" => sock[o] = Dead
    /\ sock[o].fd # None => kernel[sock[o].fd].state # "closed"
    /\ \A p \in SocketObjects : p # o /\ sock[p].fd = sock[o].fd => sock[o].fd = None
PointersHeld ==
  /\ ~sockLog.undefined
  /\ \A o \in SocketObjects : sock[o].kind = "ssl" =>
       /\ sock[sock[o].impl].kind = "impl" /\ sock[sock[o].impl].session \in sessions
       /\ \A p \in SocketObjects : sock[p].kind = "ssl" /\ sock[p].impl = sock[o].impl => p = o
  /\ \A h \in SocketObjects : sock[h].kind = "impl" =>
       /\ sock[h].session \in sessions
       /\ \A k \in SocketObjects : sock[k].kind = "impl" /\ sock[h].session = sock[k].session => h = k
SessionsHeld ==
  /\ \A o \in SocketObjects : /\ sock[o].session \in Nat <=> sock[o].kind = "impl"
                              /\ sock[o].kind = "ssl" => sock[o].impl \in SocketObjects
                              /\ sock[o].kind # "ssl" => sock[o].impl = None
  /\ \A s \in sessions : \E h \in SocketObjects : sock[h].kind = "impl" /\ sock[h].session = s
SocketsHeld == SockTypes /\ FdsHeld /\ SessionsHeld /\ (~sockLog.shared => PointersHeld)

(* The invariant by its parts. *)
LEMMA SockParts == SockInv <=> SocketsHeld
<1>. SUFFICES ASSUME SockTypes PROVE SockInv <=> SocketsHeld
  BY DEF SockInv, SocketsHeld
<1>1. DeadHoldNothing /\ (\A o \in SocketObjects : sock[o].fd # None => Open(sock[o].fd))
        /\ (\A o, p \in SocketObjects : sock[o].fd = sock[p].fd /\ o # p => sock[o].fd = None)
      <=> FdsHeld
  BY DEF FdsHeld, DeadHoldNothing, Objects, Open
<1>2. SessionsOwned
        /\ (~sockLog.shared => /\ ~sockLog.undefined
                               /\ \A o \in Objects({"ssl"}) : Valid(o)
                               /\ \A o, p \in Objects({"ssl"}) : sock[o].impl = sock[p].impl => o = p)
      <=> SessionsHeld /\ (~sockLog.shared => PointersHeld)
  BY DEF SessionsHeld, SessionsOwned, PointersHeld, Objects, Valid
<1>. QED BY <1>1, <1>2 DEF SockInv, SocketsHeld, DescriptorHeldOnce

(* The sessions don't notice a step that makes no TLS socket and ends none. *)
LEMMA SessionsRest ==
  ASSUME SessionsHeld, ~sockLog.shared => PointersHeld, UNCHANGED <<sessions, sockLog>>,
         \A o \in SocketObjects : /\ sock'[o].kind = "ssl" <=> sock[o].kind = "ssl"
                                  /\ sock'[o].kind = "impl" <=> sock[o].kind = "impl"
                                  /\ sock'[o].session = sock[o].session
                                  /\ sock'[o].impl = sock[o].impl
  PROVE  SessionsHeld' /\ (~sockLog.shared => PointersHeld)'
<1>1. SessionsHeld' BY DEF SessionsHeld
<1>2. ASSUME PointersHeld PROVE PointersHeld'
  BY <1>2 DEF PointersHeld, SessionsHeld
<1>. QED BY <1>1, <1>2

(* The records of the places. *)
LEMMA Records ==
  ASSUME NEW fd \in Descriptors \cup {None}, NEW s \in Nat, NEW h \in SocketObjects
  PROVE  /\ Dead \in SocketRecords /\ Dead.kind = "none"
         /\ Dead.fd = None /\ Dead.session = None /\ Dead.impl = None
         /\ NewSocket(fd) \in SocketRecords /\ NewSocket(fd).kind = "socket"
         /\ NewSocket(fd).fd = fd /\ NewSocket(fd).session = None /\ NewSocket(fd).impl = None
         /\ NewSsl(fd, h) \in SocketRecords /\ NewSsl(fd, h).kind = "ssl"
         /\ NewSsl(fd, h).fd = fd /\ NewSsl(fd, h).session = None /\ NewSsl(fd, h).impl = h
         /\ NewImpl(fd, s) \in SocketRecords /\ NewImpl(fd, s).kind = "impl"
         /\ NewImpl(fd, s).fd = fd /\ NewImpl(fd, s).session = s /\ NewImpl(fd, s).impl = None
BY DEF NewSocket, NewSsl, NewImpl, Dead, SocketRecords

(* A place with another descriptor. *)
LEMMA RecordFields ==
  ASSUME NEW r \in SocketRecords, NEW fd \in Descriptors \cup {None}
  PROVE  /\ [r EXCEPT !.fd = fd] \in SocketRecords /\ [r EXCEPT !.fd = fd].fd = fd
         /\ [r EXCEPT !.fd = fd].kind = r.kind /\ [r EXCEPT !.fd = fd].session = r.session
         /\ [r EXCEPT !.fd = fd].impl = r.impl
BY DEF SocketRecords

(* Of what the places held, every one has now the descriptor that one other  *)
(* had, or none, and no two that of the same.                               *)
LEMMA FdsMoved ==
  ASSUME FdsHeld, NEW from \in [SocketObjects -> SocketObjects],
         \A p \in SocketObjects :
           /\ sock'[p].kind = "none" => sock'[p] = Dead
           /\ sock'[p].fd # None => sock'[p].fd = sock[from[p]].fd /\ kernel'[sock'[p].fd].state # "closed"
           /\ \A q \in SocketObjects :
                p # q /\ sock'[p].fd # None /\ sock'[q].fd # None => from[p] # from[q]
  PROVE  FdsHeld'
<1>. SUFFICES ASSUME NEW p \in SocketObjects, NEW q \in SocketObjects,
                     q # p, sock'[q].fd = sock'[p].fd, sock'[p].fd # None
              PROVE  FALSE
  BY DEF FdsHeld
<1>1. from[p] # from[q] /\ from[p] \in SocketObjects /\ from[q] \in SocketObjects OBVIOUS
<1>2. sock[from[p]].fd = sock[from[q]].fd /\ sock[from[p]].fd # None OBVIOUS
<1>. QED BY <1>1, <1>2 DEF FdsHeld

(* An open descriptor is the kernel's. *)
LEMMA OpenFds ==
  ASSUME SockTypes, FdsHeld, NEW p \in SocketObjects
  PROVE  /\ sock[p] \in SocketRecords /\ sock[p].fd \in Descriptors \cup {None}
         /\ sock[p].fd # None => sock[p].fd \in Descriptors /\ kernel[sock[p].fd].state # "closed"
BY DEF SockTypes, SocketRecords, FdsHeld

(* A socket takes over the descriptor of another. *)
LEMMA MoveKeeps ==
  ASSUME SocketsHeld, NEW o \in SocketObjects, NEW src \in SocketObjects,
         Copy(o, src) \/ CopySecure(o, src) \/ Assign(o, src)
  PROVE  SocketsHeld'
<1>. DEFINE from == [p \in SocketObjects |-> IF p = o THEN src ELSE p]
            fd == sock[src].fd
<1>0. SockTypes /\ FdsHeld /\ SessionsHeld /\ (~sockLog.shared => PointersHeld) BY DEF SocketsHeld
<1>1. sock[o] \in SocketRecords /\ sock[src] \in SocketRecords /\ fd \in Descriptors \cup {None}
  BY <1>0, OpenFds
<1>2. Public(src) /\ kernel' = kernel /\ sessions' = sessions
  BY DEF Copy, CopySecure, Assign, Public
<1>3. /\ sock' \in [SocketObjects -> SocketRecords]
      /\ sock'[o].kind # "none" /\ sock'[o].fd \in {None, fd} /\ sock'[o].session = sock[o].session
      /\ sock'[src].fd = None /\ sock'[src].kind = sock[src].kind
      /\ sock'[src].session = sock[src].session /\ sock'[src].impl = sock[src].impl
      /\ \A p \in SocketObjects \ {o, src} : sock'[p] = sock[p]
      /\ sockLog' \in [undefined: BOOLEAN, shared: BOOLEAN]
      /\ \/ /\ sockLog' = sockLog
            /\ sock'[o].impl = sock[o].impl
            /\ sock'[o].kind = "ssl" <=> sock[o].kind = "ssl"
            /\ sock'[o].kind = "impl" <=> sock[o].kind = "impl"
         \/ /\ sockLog'.shared /\ sock[o].kind = "none" /\ sock'[o].kind = "ssl"
            /\ sock[src].kind = "ssl" /\ sock'[o].impl = sock[src].impl
  <2>1. CASE Copy(o, src) \/ CopySecure(o, src)
    <3>1. sock[o].kind = "none" /\ o # src BY <2>1 DEF Copy, CopySecure, Public
    <3>2. sock[o] = Dead /\ Dead.session = None /\ Dead.impl = None
      BY <1>0, <3>1, Records DEF FdsHeld, Dead
    <3>3. CASE Copy(o, src)
      <4>1. sock' = [sock EXCEPT ![o] = NewSocket(fd), ![src].fd = None] BY <3>3 DEF Copy
      <4>2. sock' \in [SocketObjects -> SocketRecords] /\ sock'[o] = NewSocket(fd)
            /\ sock'[src] = [sock[src] EXCEPT !.fd = None]
            /\ \A p \in SocketObjects \ {o, src} : sock'[p] = sock[p]
        <5>1. NewSocket(fd) \in SocketRecords /\ [sock[src] EXCEPT !.fd = None] \in SocketRecords
          BY <1>1, RecordFields DEF NewSocket, Dead, SocketRecords
        <5>. QED BY <1>0, <3>1, <4>1, <5>1 DEF SockTypes
      <4>3. NewSocket(fd).kind = "socket" /\ NewSocket(fd).fd = fd /\ NewSocket(fd).session = None
            /\ NewSocket(fd).impl = None
        BY DEF NewSocket, Dead
      <4>. QED BY <1>0, <1>1, <3>1, <3>2, <3>3, <4>2, <4>3, RecordFields DEF Copy, SockTypes
    <3>4. CASE CopySecure(o, src)
      <4>0. sock[src].kind = "ssl" /\ sock[src].impl \in SocketObjects
        BY <1>0, <3>4 DEF CopySecure, SessionsHeld
      <4>1. sock' = [sock EXCEPT ![o] = NewSsl(fd, sock[src].impl), ![src].fd = None]
        BY <3>4 DEF CopySecure
      <4>2. sock' \in [SocketObjects -> SocketRecords] /\ sock'[o] = NewSsl(fd, sock[src].impl)
            /\ sock'[src] = [sock[src] EXCEPT !.fd = None]
            /\ \A p \in SocketObjects \ {o, src} : sock'[p] = sock[p]
        <5>1. NewSsl(fd, sock[src].impl) \in SocketRecords /\ [sock[src] EXCEPT !.fd = None] \in SocketRecords
          BY <1>1, <4>0, RecordFields DEF NewSsl, Dead, SocketRecords
        <5>. QED BY <1>0, <3>1, <4>1, <5>1 DEF SockTypes
      <4>3. /\ NewSsl(fd, sock[src].impl).kind = "ssl" /\ NewSsl(fd, sock[src].impl).fd = fd
            /\ NewSsl(fd, sock[src].impl).session = None
            /\ NewSsl(fd, sock[src].impl).impl = sock[src].impl
        BY DEF NewSsl, Dead
      <4>4. sockLog' \in [undefined: BOOLEAN, shared: BOOLEAN] /\ sockLog'.shared
        BY <1>0, <3>4 DEF CopySecure, SockTypes
      <4>. QED BY <1>0, <1>1, <3>1, <3>2, <4>0, <4>2, <4>3, <4>4, RecordFields
    <3>. QED BY <2>1, <3>3, <3>4
  <2>2. CASE Assign(o, src)
    <3>. DEFINE new == IF o = src THEN None ELSE fd
    <3>1. /\ Public(o) /\ sockLog' = sockLog
          /\ sock' = [sock EXCEPT ![o].fd = new, ![src].fd = None]
      BY <2>2 DEF Assign
    <3>2. new \in Descriptors \cup {None} BY <1>1
    <3>3. /\ sock'[src] = [sock[src] EXCEPT !.fd = None]
          /\ o # src => sock'[o] = [sock[o] EXCEPT !.fd = new]
          /\ \A p \in SocketObjects \ {o, src} : sock'[p] = sock[p]
          /\ DOMAIN sock' = SocketObjects /\ sock' = [p \in SocketObjects |-> sock'[p]]
      BY <1>0, <1>1, <3>1 DEF SockTypes, SocketRecords
    <3>4. /\ sock'[src] \in SocketRecords /\ sock'[src].fd = None /\ sock'[src].kind = sock[src].kind
          /\ sock'[src].session = sock[src].session /\ sock'[src].impl = sock[src].impl
      BY <1>1, <3>3, RecordFields
    <3>5. /\ sock'[o] \in SocketRecords /\ sock'[o].fd \in {None, fd} /\ sock'[o].kind = sock[o].kind
          /\ sock'[o].session = sock[o].session /\ sock'[o].impl = sock[o].impl
      <4>1. CASE o = src
        <5>1. sock'[o] = sock'[src] /\ sock[o] = sock[src] BY <4>1
        <5>. QED BY <3>4, <5>1
      <4>2. CASE o # src
        <5>1. sock'[o] = [sock[o] EXCEPT !.fd = fd] BY <3>3, <4>2
        <5>2. /\ [sock[o] EXCEPT !.fd = fd] \in SocketRecords /\ [sock[o] EXCEPT !.fd = fd].fd = fd
              /\ [sock[o] EXCEPT !.fd = fd].kind = sock[o].kind
              /\ [sock[o] EXCEPT !.fd = fd].session = sock[o].session
              /\ [sock[o] EXCEPT !.fd = fd].impl = sock[o].impl
          BY <1>1, RecordFields
        <5>. QED BY <5>1, <5>2
      <4>. QED BY <4>1, <4>2
    <3>6. \A p \in SocketObjects : sock'[p] \in SocketRecords
      BY <1>0, <3>3, <3>4, <3>5 DEF SockTypes
    <3>7. sock' \in [SocketObjects -> SocketRecords] BY <3>3, <3>6
    <3>. QED BY <1>0, <3>1, <3>3, <3>4, <3>5, <3>7 DEF Public, SockTypes
  <2>. QED BY <2>1, <2>2
<1>4. SockTypes' BY <1>0, <1>2, <1>3 DEF SockTypes
<1>5. FdsHeld'
  <2>1. \A p \in SocketObjects : sock'[p].kind = "none" => sock'[p] = Dead
    BY <1>0, <1>2, <1>3 DEF FdsHeld, Public
  <2>2. \A p \in SocketObjects : sock'[p].fd # None => p # src /\ sock'[p].fd = sock[from[p]].fd
    BY <1>3
  <2>3. \A p, q \in SocketObjects :
          p # q /\ sock'[p].fd # None /\ sock'[q].fd # None => from[p] # from[q]
    BY <2>2
  <2>4. \A p \in SocketObjects : sock'[p].fd # None => kernel'[sock'[p].fd].state # "closed"
    BY <1>0, <1>2, <2>2 DEF FdsHeld
  <2>5. from \in [SocketObjects -> SocketObjects] OBVIOUS
  <2>. HIDE DEF from
  <2>. QED BY <1>0, <2>1, <2>2, <2>3, <2>4, <2>5, FdsMoved
<1>6. SessionsHeld' /\ (~sockLog.shared => PointersHeld)'
  <2>1. CASE sockLog' = sockLog
             /\ sock'[o].impl = sock[o].impl
             /\ (sock'[o].kind = "ssl" <=> sock[o].kind = "ssl")
             /\ (sock'[o].kind = "impl" <=> sock[o].kind = "impl")
    <3>1. \A p \in SocketObjects : /\ sock'[p].kind = "ssl" <=> sock[p].kind = "ssl"
                                   /\ sock'[p].kind = "impl" <=> sock[p].kind = "impl"
                                   /\ sock'[p].session = sock[p].session
                                   /\ sock'[p].impl = sock[p].impl
      BY <1>3, <2>1
    <3>. QED BY <1>0, <1>2, <2>1, <3>1, SessionsRest
  <2>2. CASE /\ sockLog'.shared /\ sock[o].kind = "none" /\ sock'[o].kind = "ssl"
             /\ sock[src].kind = "ssl" /\ sock'[o].impl = sock[src].impl
    <3>1. SessionsHeld' BY <1>0, <1>2, <1>3, <2>2 DEF SessionsHeld
    <3>. QED BY <2>2, <3>1
  <2>. QED BY <1>3, <2>1, <2>2
<1>. QED BY <1>4, <1>5, <1>6 DEF SocketsHeld

(* socket(), tcp_socket() and accept(): the descriptor of a new socket was  *)
(* free, so that no other socket has it.                                   *)
LEMMA NewKeeps ==
  ASSUME SocketsHeld, NEW o \in SocketObjects, NEW src \in SocketObjects,
         CreateEmpty(o) \/ Create(o) \/ SockAccept(o, src)
  PROVE  SocketsHeld'
<1>0. SockTypes /\ FdsHeld /\ SessionsHeld /\ (~sockLog.shared => PointersHeld) BY DEF SocketsHeld
<1>1. PICK new \in Descriptors \cup {None} :
        /\ sock[o].kind = "none" /\ sock' = [sock EXCEPT ![o] = NewSocket(new)]
        /\ UNCHANGED <<sessions, sockLog>>
        /\ new = None => kernel' = kernel
        /\ new # None => /\ new \in FreeFds /\ kernel' \in [Descriptors -> KernelRecords]
                         /\ kernel'[new].state # "closed"
                         /\ \A f \in Descriptors \ {new} : kernel'[f] = kernel[f]
  <2>1. CASE CreateEmpty(o) BY <2>1 DEF CreateEmpty
  <2>2. CASE Create(o)
    <3>1. LowestFd \in FreeFds /\ LowestFd \in Descriptors
      BY <2>2, LowestFree DEF Create, FreeFds
    <3>2. LowestFd # None BY <3>1, SocketAssumption DEF Descriptors, None
    <3>. QED BY <1>0, <2>2, <3>1, <3>2 DEF Create, SockTypes, KernelRecords
  <2>3. CASE SockAccept(o, src)
    <3>1. LowestFd \in FreeFds /\ LowestFd \in Descriptors
      BY <2>3, LowestFree DEF SockAccept, FreeFds
    <3>2. LowestFd # None BY <3>1, SocketAssumption DEF Descriptors, None
    <3>. QED BY <1>0, <2>3, <3>1, <3>2 DEF SockAccept, SockTypes, KernelRecords
  <2>. QED BY <2>1, <2>2, <2>3
<1>2. /\ NewSocket(new) \in SocketRecords /\ NewSocket(new).kind = "socket"
      /\ NewSocket(new).fd = new /\ NewSocket(new).session = None /\ NewSocket(new).impl = None
  BY DEF NewSocket, Dead, SocketRecords
<1>3. sock'[o] = NewSocket(new) /\ \A p \in SocketObjects \ {o} : sock'[p] = sock[p]
  BY <1>0, <1>1 DEF SockTypes
<1>4. SockTypes' BY <1>0, <1>1, <1>2 DEF SockTypes
<1>5. \A p \in SocketObjects : new # None => sock[p].fd # new
  BY <1>0, <1>1 DEF FdsHeld, FreeFds
<1>6. \A p \in SocketObjects : sock[p].fd # None => kernel'[sock[p].fd].state # "closed"
  BY <1>0, <1>1, <1>5, OpenFds
<1>7. FdsHeld' BY <1>0, <1>1, <1>2, <1>3, <1>5, <1>6 DEF FdsHeld
<1>8. sock[o].session = None /\ sock[o].impl = None BY <1>0, <1>1 DEF FdsHeld, Dead
<1>9. SessionsHeld' /\ (~sockLog.shared => PointersHeld)'
  <2>1. \A p \in SocketObjects : /\ sock'[p].kind = "ssl" <=> sock[p].kind = "ssl"
                                 /\ sock'[p].kind = "impl" <=> sock[p].kind = "impl"
                                 /\ sock'[p].session = sock[p].session
                                 /\ sock'[p].impl = sock[p].impl
    BY <1>1, <1>2, <1>3, <1>8
  <2>. QED BY <1>0, <1>1, <2>1, SessionsRest
<1>. QED BY <1>4, <1>7, <1>9 DEF SocketsHeld

(* The kernel's record of a descriptor, changed in one field. *)
LEMMA KernelFields ==
  ASSUME NEW r \in KernelRecords, NEW b \in BOOLEAN
  PROVE  /\ [r EXCEPT !.data = b] \in KernelRecords /\ [r EXCEPT !.data = b].state = r.state
         /\ \A st \in {"new", "bound", "listening", "connected", "shut"} :
              [r EXCEPT !.state = st] \in KernelRecords /\ [r EXCEPT !.state = st].state = st
BY DEF KernelRecords

(* The uses of a socket, and the kernel's: an open descriptor stays open.   *)
LEMMA KernelUsed ==
  ASSUME SockTypes, NEW o \in SocketObjects, Via(o) \in SocketObjects,
         \/ Connect(o) \/ Bind(o) \/ Listen(o) \/ SockRead(o) \/ Handshake(o) \/ SockShutdown(o)
         \/ \E fd \in Descriptors : DataComes(fd)
  PROVE  /\ kernel' \in [Descriptors -> KernelRecords]
         /\ \A fd \in Descriptors : kernel[fd].state # "closed" => kernel'[fd].state # "closed"
<1>1. ASSUME NEW f \in Descriptors, NEW b \in BOOLEAN, kernel' = [kernel EXCEPT ![f].data = b]
      PROVE  /\ kernel' \in [Descriptors -> KernelRecords]
             /\ \A fd \in Descriptors : kernel[fd].state # "closed" => kernel'[fd].state # "closed"
  <2>1. kernel[f] \in KernelRecords BY DEF SockTypes
  <2>2. [kernel[f] EXCEPT !.data = b] \in KernelRecords /\ [kernel[f] EXCEPT !.data = b].state = kernel[f].state
    BY <2>1, KernelFields
  <2>. QED BY <1>1, <2>2 DEF SockTypes
<1>2. ASSUME NEW f \in Descriptors, NEW st \in {"new", "bound", "listening", "connected", "shut"},
             kernel' = [kernel EXCEPT ![f].state = st]
      PROVE  /\ kernel' \in [Descriptors -> KernelRecords]
             /\ \A fd \in Descriptors : kernel[fd].state # "closed" => kernel'[fd].state # "closed"
  <2>1. kernel[f] \in KernelRecords BY DEF SockTypes
  <2>2. [kernel[f] EXCEPT !.state = st] \in KernelRecords /\ [kernel[f] EXCEPT !.state = st].state = st
    BY <2>1, KernelFields
  <2>. QED BY <1>2, <2>2 DEF SockTypes
<1>3. \A p \in SocketObjects : Open(sock[p].fd) => sock[p].fd \in Descriptors
  BY DEF SockTypes, SocketRecords, Open
<1>4. CASE kernel' = kernel BY <1>4 DEF SockTypes
<1>5. CASE Connect(o) \/ Bind(o) \/ Listen(o) BY <1>2, <1>3, <1>4, <1>5 DEF Connect, Bind, Listen
<1>6. CASE SockRead(o) \/ Handshake(o) BY <1>1, <1>3, <1>6 DEF SockRead, Handshake, Working
<1>7. CASE SockShutdown(o) BY <1>2, <1>3, <1>7 DEF SockShutdown, Working, Via
<1>8. ASSUME NEW fd \in Descriptors, DataComes(fd)
      PROVE  /\ kernel' \in [Descriptors -> KernelRecords]
             /\ \A f \in Descriptors : kernel[f].state # "closed" => kernel'[f].state # "closed"
  BY <1>1, <1>8 DEF DataComes
<1>. QED BY <1>5, <1>6, <1>7, <1>8

(* connect(), bind(), listen(), read(), write(), shutdown() and the kernel: a *)
(* socket keeps or forgets its descriptor.                                  *)
LEMMA UseKeeps ==
  ASSUME SocketsHeld, NEW o \in SocketObjects,
         \/ Connect(o) \/ Bind(o) \/ Listen(o) \/ SockRead(o) \/ Handshake(o) \/ SockShutdown(o)
         \/ \E fd \in Descriptors : DataComes(fd)
  PROVE  SocketsHeld'
<1>0. SockTypes /\ FdsHeld /\ SessionsHeld /\ (~sockLog.shared => PointersHeld) BY DEF SocketsHeld
<1>1. UNCHANGED <<sessions, sockLog>>
  BY DEF Connect, Bind, Listen, SockRead, Handshake, SockShutdown, DataComes
<1>2. Via(o) \in SocketObjects BY <1>0 DEF Via, SessionsHeld
<1>3. /\ kernel' \in [Descriptors -> KernelRecords]
      /\ \A fd \in Descriptors : kernel[fd].state # "closed" => kernel'[fd].state # "closed"
  BY <1>0, <1>2, KernelUsed
<1>4. /\ sock' \in [SocketObjects -> SocketRecords]
      /\ \A p \in SocketObjects :
           /\ sock'[p].kind = sock[p].kind /\ sock'[p].session = sock[p].session
           /\ sock'[p].impl = sock[p].impl /\ sock'[p].fd \in {None, sock[p].fd}
           /\ sock[p].kind = "none" => sock'[p] = sock[p]
  <2>1. CASE sock' = sock BY <1>0, <2>1 DEF SockTypes
  <2>2. CASE sock[o].kind # "none" /\ sock' = [sock EXCEPT ![o].fd = None]
    <3>1. sock[o] \in SocketRecords BY <1>0 DEF SockTypes
    <3>2. /\ [sock[o] EXCEPT !.fd = None] \in SocketRecords /\ [sock[o] EXCEPT !.fd = None].fd = None
          /\ [sock[o] EXCEPT !.fd = None].kind = sock[o].kind
          /\ [sock[o] EXCEPT !.fd = None].session = sock[o].session
          /\ [sock[o] EXCEPT !.fd = None].impl = sock[o].impl
      BY <3>1, RecordFields
    <3>. QED BY <1>0, <2>2, <3>2 DEF SockTypes
  <2>3. ASSUME NEW pending \in BOOLEAN, sock[Via(o)].handshake,
               sock' = [sock EXCEPT ![Via(o)].handshake = pending]
        PROVE  /\ sock' \in [SocketObjects -> SocketRecords]
               /\ \A p \in SocketObjects :
                    /\ sock'[p].kind = sock[p].kind /\ sock'[p].session = sock[p].session
                    /\ sock'[p].impl = sock[p].impl /\ sock'[p].fd \in {None, sock[p].fd}
                    /\ sock[p].kind = "none" => sock'[p] = sock[p]
    <3>. DEFINE h == Via(o)
    <3>1. h \in SocketObjects /\ sock[h] \in SocketRecords BY <1>0, <1>2 DEF SockTypes
    <3>2. sock[h].kind # "none" BY <1>0, <2>3, <3>1 DEF FdsHeld, Dead
    <3>3. /\ [sock[h] EXCEPT !.handshake = pending] \in SocketRecords
          /\ [sock[h] EXCEPT !.handshake = pending].kind = sock[h].kind
          /\ [sock[h] EXCEPT !.handshake = pending].session = sock[h].session
          /\ [sock[h] EXCEPT !.handshake = pending].impl = sock[h].impl
          /\ [sock[h] EXCEPT !.handshake = pending].fd = sock[h].fd
      BY <3>1 DEF SocketRecords
    <3>4. sock' = [sock EXCEPT ![h].handshake = pending] BY <2>3
    <3>. HIDE DEF h
    <3>. QED BY <1>0, <3>1, <3>2, <3>3, <3>4 DEF SockTypes
  <2>4. sock[o].kind # "none" \/ sock' = sock \/ Handshake(o)
    BY DEF Connect, Bind, Listen, SockRead, SockShutdown, DataComes, Public
  <2>5. CASE Handshake(o) BY <2>3, <2>5 DEF Handshake
  <2>6. CASE sock' = sock \/ (sock[o].kind # "none" /\ sock' = [sock EXCEPT ![o].fd = None])
    BY <2>1, <2>2, <2>6
  <2>. QED BY <2>4, <2>5, <2>6 DEF Connect, Bind, Listen, SockRead, SockShutdown, DataComes
<1>5. SockTypes' BY <1>0, <1>1, <1>3, <1>4 DEF SockTypes
<1>6. FdsHeld'
  <2>. DEFINE from == [p \in SocketObjects |-> p]
  <2>1. \A p \in SocketObjects : sock'[p].fd # None =>
          sock'[p].fd = sock[from[p]].fd /\ kernel'[sock'[p].fd].state # "closed"
    BY <1>0, <1>3, <1>4, OpenFds
  <2>2. \A p \in SocketObjects : sock'[p].kind = "none" => sock'[p] = Dead
    BY <1>0, <1>4 DEF FdsHeld
  <2>3. from \in [SocketObjects -> SocketObjects] /\ \A p, q \in SocketObjects : p # q => from[p] # from[q]
    OBVIOUS
  <2>. HIDE DEF from
  <2>. QED BY <1>0, <2>1, <2>2, <2>3, FdsMoved
<1>7. SessionsHeld' /\ (~sockLog.shared => PointersHeld)'
  BY <1>0, <1>1, <1>4, SessionsRest
<1>. QED BY <1>5, <1>6, <1>7 DEF SocketsHeld

(* The kernel with some descriptors closed.                                *)
LEMMA ClosedKernel ==
  ASSUME SockTypes, NEW fds, kernel' = Closing(fds)
  PROVE  /\ kernel' \in [Descriptors -> KernelRecords]
         /\ \A fd \in Descriptors \ fds : kernel'[fd] = kernel[fd]
<1>1. ClosedFd \in KernelRecords BY DEF ClosedFd, KernelRecords
<1>. QED BY <1>1 DEF SockTypes, Closing

(* ssl_socket(): a session is new, and the descriptor changes hands.        *)
LEMMA SecureKeeps ==
  ASSUME SocketsHeld, NEW o \in SocketObjects, NEW h \in SocketObjects, NEW src \in SocketObjects,
         CreateSecure(o, h) \/ Secure(o, h, src)
  PROVE  SocketsHeld'
<1>0. SockTypes /\ FdsHeld /\ SessionsHeld /\ (~sockLog.shared => PointersHeld) BY DEF SocketsHeld
<1>1. PICK s \in Nat : s = FreeSession /\ s \notin sessions
  <2>1. SessionsOwned BY <1>0 DEF SessionsHeld, SessionsOwned, PointersHeld, Objects
  <2>. QED BY <1>0, <2>1, SessionIsNew
<1>2. /\ o # h /\ sock[o].kind = "none" /\ sock[h].kind = "none" /\ Memory(h, o)
      /\ sessions' = sessions \cup {s} /\ kernel' = kernel /\ sockLog' = sockLog
  BY <1>1 DEF CreateSecure, Secure
<1>3. PICK fd \in Descriptors \cup {None} :
        /\ fd = None \/ fd = sock[src].fd
        /\ sock'[o] = NewSsl(None, h) /\ sock'[h] = NewImpl(fd, s)
        /\ fd # None => src # o /\ src # h /\ sock'[src].fd = None
        /\ \A p \in SocketObjects : p # o /\ p # h =>
             /\ sock'[p].kind = sock[p].kind /\ sock'[p].session = sock[p].session
             /\ sock'[p].impl = sock[p].impl /\ (sock'[p].fd = None \/ sock'[p].fd = sock[p].fd)
             /\ sock[p].kind = "none" => sock'[p] = sock[p]
        /\ sock' \in [SocketObjects -> SocketRecords]
  <2>1. CASE CreateSecure(o, h)
    <3>1. sock' = [sock EXCEPT ![o] = NewSsl(None, h), ![h] = NewImpl(None, s)]
      BY <1>1, <2>1 DEF CreateSecure
    <3>2. NewSsl(None, h) \in SocketRecords /\ NewImpl(None, s) \in SocketRecords
      BY Records
    <3>. QED BY <1>0, <1>2, <3>1, <3>2 DEF SockTypes
  <2>2. CASE Secure(o, h, src)
    <3>. DEFINE new == sock[src].fd
    <3>1. sock' = [sock EXCEPT ![o] = NewSsl(None, h), ![h] = NewImpl(new, s), ![src].fd = None]
          /\ src \notin {o, h} /\ sock[src].kind # "none"
      BY <1>1, <1>2, <2>2 DEF Secure, Public
    <3>2. sock[src] \in SocketRecords /\ new \in Descriptors \cup {None} BY <1>0, OpenFds
    <3>3. NewSsl(None, h) \in SocketRecords /\ NewImpl(new, s) \in SocketRecords
      BY <3>2, Records
    <3>4. /\ [sock[src] EXCEPT !.fd = None] \in SocketRecords /\ [sock[src] EXCEPT !.fd = None].fd = None
          /\ [sock[src] EXCEPT !.fd = None].kind = sock[src].kind
          /\ [sock[src] EXCEPT !.fd = None].session = sock[src].session
          /\ [sock[src] EXCEPT !.fd = None].impl = sock[src].impl
      BY <3>2, RecordFields
    <3>5. /\ sock'[o] = NewSsl(None, h) /\ sock'[h] = NewImpl(new, s)
          /\ sock'[src] = [sock[src] EXCEPT !.fd = None]
          /\ \A p \in SocketObjects \ {o, h, src} : sock'[p] = sock[p]
          /\ sock' \in [SocketObjects -> SocketRecords]
      BY <1>0, <1>2, <3>1, <3>3, <3>4 DEF SockTypes
    <3>6. \A p \in SocketObjects : p # o /\ p # h =>
            /\ sock'[p].kind = sock[p].kind /\ sock'[p].session = sock[p].session
            /\ sock'[p].impl = sock[p].impl /\ (sock'[p].fd = None \/ sock'[p].fd = sock[p].fd)
            /\ sock[p].kind = "none" => sock'[p] = sock[p]
      BY <3>1, <3>4, <3>5
    <3>7. sock'[src].fd = None BY <3>4, <3>5
    <3>. HIDE DEF new
    <3>8. new \in Descriptors \cup {None} /\ new = sock[src].fd BY <3>2 DEF new
    <3>. QED BY <3>1, <3>5, <3>6, <3>7, <3>8
  <2>. QED BY <2>1, <2>2
<1>4. /\ fd = None \/ fd = sock[src].fd
      /\ fd # None => src # o /\ src # h /\ sock'[src].fd = None
      /\ \A p \in SocketObjects : p # o /\ p # h =>
           /\ sock'[p].kind = sock[p].kind /\ sock'[p].session = sock[p].session
           /\ sock'[p].impl = sock[p].impl /\ (sock'[p].fd = None \/ sock'[p].fd = sock[p].fd)
           /\ sock[p].kind = "none" => sock'[p] = sock[p]
  BY <1>3
<1>5. /\ sock'[o].kind = "ssl" /\ sock'[o].fd = None /\ sock'[o].session = None /\ sock'[o].impl = h
      /\ sock'[h].kind = "impl" /\ sock'[h].fd = fd /\ sock'[h].session = s /\ sock'[h].impl = None
  BY <1>3, Records
<1>6. SockTypes' BY <1>0, <1>2, <1>3 DEF SockTypes
<1>7. FdsHeld'
  <2>. DEFINE from == [p \in SocketObjects |-> IF p = h THEN src ELSE p]
  <2>1. \A p \in SocketObjects : sock'[p].fd # None => sock'[p].fd = sock[from[p]].fd /\ p # o
    BY <1>4, <1>5
  <2>2. \A p \in SocketObjects : sock'[p].fd # None => kernel'[sock'[p].fd].state # "closed"
    BY <1>0, <1>2, <2>1 DEF FdsHeld
  <2>3. \A p, q \in SocketObjects :
          p # q /\ sock'[p].fd # None /\ sock'[q].fd # None => from[p] # from[q]
    BY <1>4, <1>5
  <2>4. \A p \in SocketObjects : sock'[p].kind = "none" => sock'[p] = Dead
    BY <1>0, <1>4, <1>5 DEF FdsHeld
  <2>5. from \in [SocketObjects -> SocketObjects] OBVIOUS
  <2>. HIDE DEF from
  <2>. QED BY <1>0, <2>1, <2>2, <2>3, <2>4, <2>5, FdsMoved
<1>8. SessionsHeld'
  <2>1. \A p \in SocketObjects : /\ sock'[p].session \in Nat <=> sock'[p].kind = "impl"
                                 /\ sock'[p].kind = "ssl" => sock'[p].impl \in SocketObjects
                                 /\ sock'[p].kind # "ssl" => sock'[p].impl = None
    BY <1>0, <1>4, <1>5 DEF SessionsHeld, None
  <2>2. \A t \in sessions' : \E k \in SocketObjects : sock'[k].kind = "impl" /\ sock'[k].session = t
    BY <1>0, <1>2, <1>4, <1>5 DEF SessionsHeld
  <2>. QED BY <2>1, <2>2 DEF SessionsHeld
<1>9. ASSUME PointersHeld PROVE PointersHeld'
  <2>1. \A p \in SocketObjects \ {o} : sock'[p].kind = "ssl" =>
          /\ p # h /\ sock[p].kind = "ssl" /\ sock'[p].impl = sock[p].impl /\ sock[p].impl # h
          /\ sock[p].impl \in SocketObjects \ {o, h} /\ sock[sock[p].impl].kind = "impl"
          /\ sock[sock[p].impl].session \in sessions
    BY <1>0, <1>2, <1>4, <1>5, <1>9 DEF Memory, PointersHeld, SessionsHeld
  <2>2. \A k \in SocketObjects \ {h} : sock'[k].kind = "impl" =>
          k # o /\ sock[k].kind = "impl" /\ sock'[k].session = sock[k].session /\ sock[k].session \in sessions
    BY <1>4, <1>5, <1>9 DEF PointersHeld
  <2>3. ASSUME NEW p \in SocketObjects, sock'[p].kind = "ssl"
        PROVE  /\ sock'[sock'[p].impl].kind = "impl" /\ sock'[sock'[p].impl].session \in sessions'
               /\ \A q \in SocketObjects : sock'[q].kind = "ssl" /\ sock'[q].impl = sock'[p].impl => q = p
    <3>1. CASE p = o BY <1>2, <1>5, <2>1, <3>1
    <3>2. CASE p # o
      <4>1. sock[p].kind = "ssl" /\ sock'[p].impl = sock[p].impl /\ sock[p].impl \in SocketObjects \ {o, h}
            /\ sock[sock[p].impl].kind = "impl" /\ sock[sock[p].impl].session \in sessions
        BY <2>1, <2>3, <3>2
      <4>2. sock'[sock[p].impl].kind = "impl" /\ sock'[sock[p].impl].session = sock[sock[p].impl].session
        BY <1>4, <4>1
      <4>3. \A q \in SocketObjects : sock'[q].kind = "ssl" /\ sock'[q].impl = sock'[p].impl => q = p
        BY <1>5, <1>9, <2>1, <4>1 DEF PointersHeld
      <4>. QED BY <1>2, <4>1, <4>2, <4>3
    <3>. QED BY <3>1, <3>2
  <2>4. ASSUME NEW k \in SocketObjects, sock'[k].kind = "impl"
        PROVE  /\ sock'[k].session \in sessions'
               /\ \A q \in SocketObjects : sock'[q].kind = "impl" /\ sock'[k].session = sock'[q].session => k = q
    BY <1>1, <1>2, <1>5, <1>9, <2>2, <2>4 DEF PointersHeld
  <2>5. ~sockLog'.undefined BY <1>2, <1>9 DEF PointersHeld
  <2>. QED BY <2>3, <2>4, <2>5 DEF PointersHeld
<1>. QED BY <1>0, <1>2, <1>6, <1>7, <1>8, <1>9 DEF SocketsHeld

(* A socket loses its descriptor, which is closed: nobody else had it.      *)
LEMMA CloseKeeps ==
  ASSUME SocketsHeld, NEW o \in SocketObjects, SecureFails(o) \/ Destroy(o)
  PROVE  SocketsHeld'
<1>0. SockTypes /\ FdsHeld /\ SessionsHeld /\ (~sockLog.shared => PointersHeld) BY DEF SocketsHeld
<1>1. /\ kernel' = Closing({sock[o].fd}) /\ UNCHANGED <<sessions, sockLog>>
      /\ sock[o].kind \in {"socket", "ssl"}
  BY DEF SecureFails, Destroy, Public
<1>2. /\ kernel' \in [Descriptors -> KernelRecords]
      /\ \A fd \in Descriptors \ {sock[o].fd} : kernel'[fd] = kernel[fd]
  BY <1>0, <1>1, ClosedKernel
<1>3. /\ sock'[o] \in SocketRecords /\ sock'[o].fd = None /\ sock'[o].session = sock[o].session
      /\ sock'[o].impl = sock[o].impl
      /\ sock'[o].kind = "ssl" <=> sock[o].kind = "ssl"
      /\ sock'[o].kind = "impl" <=> sock[o].kind = "impl"
      /\ sock'[o].kind = "none" => sock'[o] = Dead
      /\ \A p \in SocketObjects \ {o} : sock'[p] = sock[p]
      /\ sock' \in [SocketObjects -> SocketRecords]
  <2>1. sock[o] \in SocketRecords BY <1>0 DEF SockTypes
  <2>2. CASE SecureFails(o)
    <3>1. sock' = [sock EXCEPT ![o] = [sock[o] EXCEPT !.fd = None]]
      BY <1>0, <2>1, <2>2 DEF SecureFails, SockTypes, SocketRecords
    <3>2. /\ [sock[o] EXCEPT !.fd = None] \in SocketRecords /\ [sock[o] EXCEPT !.fd = None].fd = None
          /\ [sock[o] EXCEPT !.fd = None].kind = sock[o].kind
          /\ [sock[o] EXCEPT !.fd = None].session = sock[o].session
          /\ [sock[o] EXCEPT !.fd = None].impl = sock[o].impl
      BY <2>1, RecordFields
    <3>. QED BY <1>0, <1>1, <3>1, <3>2 DEF SockTypes
  <2>3. CASE Destroy(o)
    <3>1. sock[o].kind = "socket" /\ sock' = [sock EXCEPT ![o] = Dead] BY <2>3 DEF Destroy
    <3>2. Dead \in SocketRecords /\ Dead.kind = "none" /\ Dead.fd = None /\ Dead.session = None /\ Dead.impl = None
      BY DEF Dead, SocketRecords
    <3>3. sock[o].session = None /\ sock[o].impl = None
      BY <1>0, <2>1, <3>1 DEF SessionsHeld, SocketRecords
    <3>. QED BY <1>0, <3>1, <3>2, <3>3 DEF SockTypes
  <2>. QED BY <2>2, <2>3
<1>4. SockTypes' BY <1>0, <1>1, <1>2, <1>3 DEF SockTypes
<1>5. \A p \in SocketObjects \ {o} : sock[p].fd # None => kernel'[sock[p].fd].state # "closed"
  <2>. TAKE p \in SocketObjects \ {o}
  <2>. HAVE sock[p].fd # None
  <2>1. sock[p].fd \in Descriptors /\ sock[p].fd # sock[o].fd /\ kernel[sock[p].fd].state # "closed"
    BY <1>0, OpenFds DEF FdsHeld
  <2>. QED BY <1>2, <2>1
<1>6. FdsHeld' BY <1>0, <1>3, <1>5 DEF FdsHeld
<1>7. SessionsHeld' /\ (~sockLog.shared => PointersHeld)'
  BY <1>0, <1>1, <1>3, SessionsRest
<1>. QED BY <1>4, <1>6, <1>7 DEF SocketsHeld

(* ~ssl_socket(): what is closed and freed is nobody else's.                *)
LEMMA EndKeeps ==
  ASSUME SocketsHeld, NEW o \in SocketObjects, DestroySecure(o)
  PROVE  SocketsHeld'
<1>0. SockTypes /\ FdsHeld /\ SessionsHeld /\ (~sockLog.shared => PointersHeld) BY DEF SocketsHeld
<1>1. PICK h \in SocketObjects :
        /\ h = sock[o].impl /\ h # o /\ sock[o].kind = "ssl" /\ sock[h].kind = "impl"
        /\ sock' = [sock EXCEPT ![o] = Dead, ![h] = Dead]
        /\ kernel' = Closing({sock[o].fd, sock[h].fd})
        /\ sessions' = sessions \ {sock[h].session} /\ sockLog' = sockLog
  BY <1>0 DEF DestroySecure, SessionsHeld, Valid
<1>2. Dead \in SocketRecords /\ Dead.kind = "none" /\ Dead.fd = None /\ Dead.session = None /\ Dead.impl = None
  BY DEF Dead, SocketRecords
<1>3. /\ sock'[o] = Dead /\ sock'[h] = Dead
      /\ \A p \in SocketObjects : p # o /\ p # h => sock'[p] = sock[p]
  BY <1>0, <1>1 DEF SockTypes
<1>4. /\ kernel' \in [Descriptors -> KernelRecords]
      /\ \A fd \in Descriptors \ {sock[o].fd, sock[h].fd} : kernel'[fd] = kernel[fd]
  BY <1>0, <1>1, ClosedKernel
<1>5. SockTypes' BY <1>0, <1>1, <1>2, <1>4 DEF SockTypes
<1>6. \A p \in SocketObjects : p # o /\ p # h /\ sock[p].fd # None => kernel'[sock[p].fd].state # "closed"
  <2>. SUFFICES ASSUME NEW p \in SocketObjects, p # o, p # h, sock[p].fd # None
                PROVE  kernel'[sock[p].fd].state # "closed"
    OBVIOUS
  <2>1. sock[p].fd \in Descriptors /\ kernel[sock[p].fd].state # "closed" BY <1>0, OpenFds
  <2>2. sock[p].fd # sock[o].fd /\ sock[p].fd # sock[h].fd BY <1>0 DEF FdsHeld
  <2>. QED BY <1>4, <2>1, <2>2
<1>7. FdsHeld' BY <1>0, <1>2, <1>3, <1>6 DEF FdsHeld
<1>8. SessionsHeld'
  <2>1. \A p \in SocketObjects : /\ sock'[p].session \in Nat <=> sock'[p].kind = "impl"
                                 /\ sock'[p].kind = "ssl" => sock'[p].impl \in SocketObjects
                                 /\ sock'[p].kind # "ssl" => sock'[p].impl = None
    BY <1>0, <1>2, <1>3 DEF SessionsHeld, None
  <2>2. \A t \in sessions' : \E k \in SocketObjects : sock'[k].kind = "impl" /\ sock'[k].session = t
    <3>. TAKE t \in sessions'
    <3>1. PICK k \in SocketObjects : sock[k].kind = "impl" /\ sock[k].session = t
      BY <1>0, <1>1 DEF SessionsHeld
    <3>2. k # h /\ k # o BY <1>1, <3>1
    <3>. QED BY <1>3, <3>1, <3>2
  <2>. QED BY <2>1, <2>2 DEF SessionsHeld
<1>9. ASSUME PointersHeld PROVE PointersHeld'
  <2>0. /\ h = sock[o].impl /\ sock[o].kind = "ssl" /\ sock[h].kind = "impl"
        /\ sessions' = sessions \ {sock[h].session}
    BY <1>1
  <2>1. \A p \in SocketObjects : sock'[p].kind = "ssl" \/ sock'[p].kind = "impl" =>
          p # o /\ p # h /\ sock'[p] = sock[p]
    BY <1>2, <1>3
  <2>2. ASSUME NEW k \in SocketObjects, sock'[k].kind = "impl"
        PROVE  /\ sock'[k].session \in sessions' /\ sock'[k].session = sock[k].session
               /\ \A q \in SocketObjects : sock'[q].kind = "impl" /\ sock'[k].session = sock'[q].session => k = q
    BY <1>9, <2>0, <2>1, <2>2 DEF PointersHeld
  <2>3. ASSUME NEW p \in SocketObjects, sock'[p].kind = "ssl"
        PROVE  /\ sock'[sock'[p].impl].kind = "impl" /\ sock'[sock'[p].impl].session \in sessions'
               /\ \A q \in SocketObjects : sock'[q].kind = "ssl" /\ sock'[q].impl = sock'[p].impl => q = p
    <3>1. sock'[p] = sock[p] /\ p # o /\ sock[p].kind = "ssl" /\ sock[p].impl \in SocketObjects
          /\ sock[sock[p].impl].kind = "impl" /\ sock[p].impl # h
      BY <1>0, <1>9, <2>0, <2>1, <2>3 DEF PointersHeld, SessionsHeld
    <3>2. sock'[sock[p].impl] = sock[sock[p].impl] BY <1>1, <1>3, <3>1
    <3>3. \A q \in SocketObjects : sock'[q].kind = "ssl" /\ sock'[q].impl = sock'[p].impl => q = p
      BY <1>9, <2>1, <3>1 DEF PointersHeld
    <3>. QED BY <2>2, <3>1, <3>2, <3>3
  <2>4. ~sockLog'.undefined BY <1>1, <1>9 DEF PointersHeld
  <2>. QED BY <2>2, <2>3, <2>4 DEF PointersHeld
<1>. QED BY <1>0, <1>1, <1>5, <1>7, <1>8, <1>9 DEF SocketsHeld

(* ssl_socket::operator=: the descriptor of the target is closed and that   *)
(* of the source taken over; the session is shared from here on.            *)
LEMMA AssignSecureKeeps ==
  ASSUME SocketsHeld, NEW o \in SocketObjects, NEW src \in SocketObjects, NEW h \in SocketObjects,
         AssignSecure(o, src, h)
  PROVE  SocketsHeld'
<1>0. SockTypes /\ FdsHeld /\ SessionsHeld /\ (~sockLog.shared => PointersHeld) BY DEF SocketsHeld
<1>1. PICK old \in SocketObjects, from \in SocketObjects :
        /\ old = sock[o].impl /\ from = sock[src].impl /\ old # from
        /\ sock[o].kind = "ssl" /\ sock[old].kind = "impl" /\ sock[from].kind = "impl"
        /\ h = old \/ sock[h].kind = "none"
        /\ sock' = [sock EXCEPT ![old] = Dead, ![h] = sock[from], ![from].fd = None, ![o].impl = h]
        /\ sessions' = sessions \ {sock[old].session} /\ kernel' = Closing({sock[old].fd})
        /\ sockLog' = [sockLog EXCEPT !.shared = TRUE]
  BY <1>0 DEF AssignSecure, SessionsHeld, Valid
<1>1a. /\ old # from /\ sock[o].kind = "ssl" /\ sock[old].kind = "impl" /\ sock[from].kind = "impl"
       /\ h = old \/ sock[h].kind = "none"
       /\ sessions' = sessions \ {sock[old].session} /\ kernel' = Closing({sock[old].fd})
       /\ sockLog' = [sockLog EXCEPT !.shared = TRUE]
  BY <1>1
<1>2. o # h /\ o # old /\ o # from /\ h # from BY <1>1
<1>3. /\ sock'[o] = [sock[o] EXCEPT !.impl = h] /\ sock'[h] = sock[from]
      /\ sock'[from] = [sock[from] EXCEPT !.fd = None]
      /\ old # h => sock'[old] = Dead
      /\ \A p \in SocketObjects : p # o /\ p # h /\ p # old /\ p # from => sock'[p] = sock[p]
  BY <1>0, <1>1, <1>2 DEF SockTypes
<1>4. sock[o] \in SocketRecords /\ sock[from] \in SocketRecords /\ Dead \in SocketRecords
      /\ Dead.kind = "none" /\ Dead.fd = None /\ Dead.session = None /\ Dead.impl = None
  BY <1>0 DEF SockTypes, Dead, SocketRecords
<1>5. /\ sock'[o] \in SocketRecords /\ sock'[o].kind = "ssl" /\ sock'[o].fd = sock[o].fd
      /\ sock'[o].session = sock[o].session /\ sock'[o].impl = h
  BY <1>1a, <1>3, <1>4 DEF SocketRecords
<1>6. /\ sock'[from] \in SocketRecords /\ sock'[from].kind = "impl" /\ sock'[from].fd = None
      /\ sock'[from].session = sock[from].session /\ sock'[from].impl = sock[from].impl
  <2>1. /\ [sock[from] EXCEPT !.fd = None] \in SocketRecords /\ [sock[from] EXCEPT !.fd = None].fd = None
        /\ [sock[from] EXCEPT !.fd = None].kind = sock[from].kind
        /\ [sock[from] EXCEPT !.fd = None].session = sock[from].session
        /\ [sock[from] EXCEPT !.fd = None].impl = sock[from].impl
    BY <1>4, RecordFields
  <2>. QED BY <1>1a, <1>3, <2>1
<1>7. SockTypes'
  <2>1. \A p \in SocketObjects : sock'[p] \in SocketRecords
    BY <1>0, <1>3, <1>4, <1>5, <1>6 DEF SockTypes
  <2>2. sock' \in [SocketObjects -> SocketRecords]
    <3>1. DOMAIN sock' = SocketObjects /\ sock' = [p \in DOMAIN sock' |-> sock'[p]] BY <1>0, <1>1 DEF SockTypes
    <3>. QED BY <2>1, <3>1
  <2>3. kernel' \in [Descriptors -> KernelRecords] BY <1>0, <1>1a, ClosedKernel
  <2>4. sockLog' \in [undefined: BOOLEAN, shared: BOOLEAN] BY <1>0, <1>1a DEF SockTypes
  <2>. QED BY <2>2, <2>3, <2>4 DEF SockTypes
<1>8. FdsHeld'
  <2>. DEFINE g == [p \in SocketObjects |-> IF p = h THEN from ELSE p]
  <2>1. \A p \in SocketObjects : sock'[p].fd # None => /\ p # from /\ sock'[p].fd = sock[g[p]].fd
                                                       /\ g[p] # old
    <3>. SUFFICES ASSUME NEW p \in SocketObjects, sock'[p].fd # None
                  PROVE  p # from /\ sock'[p].fd = sock[g[p]].fd /\ g[p] # old
      OBVIOUS
    <3>1. p # from BY <1>6
    <3>2. CASE p = o BY <1>2, <1>5, <3>1, <3>2
    <3>3. CASE p = h
      <4>1. g[p] = from /\ sock'[p] = sock[from] BY <1>3, <3>3
      <4>. QED BY <1>1a, <3>1, <4>1
    <3>4. CASE p = old /\ p # h BY <1>3, <1>4, <3>4
    <3>5. CASE p # o /\ p # h /\ p # old
      <4>1. g[p] = p /\ sock'[p] = sock[p] BY <1>3, <3>1, <3>5
      <4>. QED BY <3>1, <3>5, <4>1
    <3>. QED BY <3>2, <3>3, <3>4, <3>5
  <2>2. \A p, q \in SocketObjects :
          p # q /\ sock'[p].fd # None /\ sock'[q].fd # None => g[p] # g[q]
    BY <2>1
  <2>0. \A fd \in Descriptors \ {sock[old].fd} : kernel'[fd] = kernel[fd]
    <3>1. kernel' = Closing({sock[old].fd}) BY <1>1a
    <3>. QED BY <1>0, <3>1, ClosedKernel
  <2>3. \A p \in SocketObjects : sock'[p].fd # None => kernel'[sock'[p].fd].state # "closed"
    <3>. SUFFICES ASSUME NEW p \in SocketObjects, sock'[p].fd # None
                  PROVE  kernel'[sock'[p].fd].state # "closed"
      OBVIOUS
    <3>1. PICK q \in SocketObjects : q = g[p] /\ sock'[p].fd = sock[q].fd /\ q # old
      BY <2>1
    <3>2. sock[q].fd \in Descriptors /\ kernel[sock[q].fd].state # "closed" /\ sock[q].fd # sock[old].fd
      BY <1>0, <3>1, OpenFds DEF FdsHeld
    <3>3. kernel'[sock[q].fd] = kernel[sock[q].fd] BY <2>0, <3>2
    <3>. QED BY <3>1, <3>2, <3>3
  <2>4. \A p \in SocketObjects : sock'[p].kind = "none" => sock'[p] = Dead
    <3>. SUFFICES ASSUME NEW p \in SocketObjects, sock'[p].kind = "none" PROVE sock'[p] = Dead
      OBVIOUS
    <3>1. p # from /\ p # o BY <1>5, <1>6
    <3>2. CASE p = h BY <1>3, <1>1a, <3>2
    <3>3. CASE p = old /\ p # h BY <1>3, <3>3
    <3>4. CASE p # h /\ p # old
      <4>1. sock'[p] = sock[p] BY <1>3, <3>1, <3>4
      <4>. QED BY <1>0, <4>1 DEF FdsHeld
    <3>. QED BY <3>2, <3>3, <3>4
  <2>5. g \in [SocketObjects -> SocketObjects] OBVIOUS
  <2>. HIDE DEF g
  <2>. QED BY <1>0, <2>1, <2>2, <2>3, <2>4, <2>5, FdsMoved
<1>9. SessionsHeld'
  <2>1. ASSUME NEW p \in SocketObjects
        PROVE  /\ sock'[p].session \in Nat <=> sock'[p].kind = "impl"
               /\ sock'[p].kind = "ssl" => sock'[p].impl \in SocketObjects
               /\ sock'[p].kind # "ssl" => sock'[p].impl = None
    <3>1. CASE p = o BY <1>0, <1>1a, <1>5, <3>1 DEF SessionsHeld
    <3>2. CASE p = h BY <1>0, <1>1a, <1>3, <3>2 DEF SessionsHeld
    <3>3. CASE p = from
      <4>1. sock[from].session \in Nat /\ sock[from].impl = None BY <1>0, <1>1a DEF SessionsHeld
      <4>. QED BY <1>6, <3>3, <4>1
    <3>4. CASE p = old /\ p # h BY <1>3, <1>4, <3>4 DEF None
    <3>5. CASE p # o /\ p # h /\ p # old /\ p # from BY <1>0, <1>3, <3>5 DEF SessionsHeld
    <3>. QED BY <3>1, <3>2, <3>3, <3>4, <3>5
  <2>2. \A t \in sessions' : \E k \in SocketObjects : sock'[k].kind = "impl" /\ sock'[k].session = t
    <3>. TAKE t \in sessions'
    <3>1. PICK k \in SocketObjects : sock[k].kind = "impl" /\ sock[k].session = t
      BY <1>0, <1>1a DEF SessionsHeld
    <3>2. k # old /\ k # o /\ k # h BY <1>1a, <3>1
    <3>. QED BY <1>3, <1>6, <3>1, <3>2
  <2>. QED BY <2>1, <2>2 DEF SessionsHeld
<1>10. sockLog'.shared BY <1>0, <1>1a DEF SockTypes
<1>. QED BY <1>7, <1>8, <1>9, <1>10 DEF SocketsHeld

(* What is used after it was deleted was shared before.                     *)
LEMMA DeletedKeeps ==
  ASSUME SocketsHeld, NEW o \in SocketObjects, NEW src \in SocketObjects,
         UseDeleted(o) \/ AssignDeleted(o, src)
  PROVE  SocketsHeld'
<1>0. SockTypes /\ FdsHeld /\ SessionsHeld /\ (~sockLog.shared => PointersHeld) BY DEF SocketsHeld
<1>1. UNCHANGED <<sock, kernel, sessions>> BY DEF UseDeleted, AssignDeleted
<1>2. sockLog'.shared /\ sockLog' \in [undefined: BOOLEAN, shared: BOOLEAN]
  <2>1. CASE AssignDeleted(o, src) BY <2>1 DEF AssignDeleted
  <2>2. CASE UseDeleted(o)
    <3>1. ~PointersHeld BY <2>2 DEF UseDeleted, PointersHeld, Valid
    <3>. QED BY <1>0, <2>2, <3>1 DEF UseDeleted, SockTypes
  <2>. QED BY <2>1, <2>2
<1>3. SockTypes' /\ FdsHeld' /\ SessionsHeld' BY <1>0, <1>1, <1>2 DEF SockTypes, FdsHeld, SessionsHeld
<1>. QED BY <1>2, <1>3 DEF SocketsHeld

(* Every step keeps the invariant. *)
LEMMA SockStep == SockInv /\ [SockNext]_sockVars => SockInv'
<1>. SUFFICES ASSUME SocketsHeld, [SockNext]_sockVars PROVE SocketsHeld'
  BY SockParts, PTL
<1>1. ASSUME NEW o \in SocketObjects,
             \/ CreateEmpty(o) \/ Create(o) \/ Connect(o) \/ Bind(o) \/ Listen(o)
             \/ SecureFails(o) \/ UseDeleted(o) \/ Destroy(o) \/ DestroySecure(o)
             \/ SockRead(o) \/ Handshake(o) \/ SockShutdown(o)
      PROVE  SocketsHeld'
  BY <1>1, NewKeeps, UseKeeps, CloseKeeps, DeletedKeeps, EndKeeps
<1>2. ASSUME NEW o \in SocketObjects, NEW src \in SocketObjects,
             \/ Copy(o, src) \/ CopySecure(o, src) \/ Assign(o, src)
             \/ SockAccept(o, src) \/ AssignDeleted(o, src)
      PROVE  SocketsHeld'
  BY <1>2, MoveKeeps, NewKeeps, DeletedKeeps
<1>3. ASSUME NEW o \in SocketObjects, NEW h \in SocketObjects, CreateSecure(o, h)
      PROVE  SocketsHeld'
  BY <1>3, SecureKeeps
<1>4. ASSUME NEW o \in SocketObjects, NEW h \in SocketObjects, NEW src \in SocketObjects,
             Secure(o, h, src) \/ AssignSecure(o, src, h)
      PROVE  SocketsHeld'
  BY <1>4, SecureKeeps, AssignSecureKeeps
<1>5. ASSUME NEW fd \in Descriptors, DataComes(fd)
      PROVE  SocketsHeld'
  <2>1. CASE SocketObjects = {}
    <3>1. SockTypes /\ SessionsHeld /\ (~sockLog.shared => PointersHeld) BY DEF SocketsHeld
    <3>2. kernel' \in [Descriptors -> KernelRecords]
      BY <1>5, <3>1, KernelFields DEF DataComes, SockTypes
    <3>. QED BY <1>5, <2>1, <3>1, <3>2
      DEF DataComes, SocketsHeld, SockTypes, FdsHeld, SessionsHeld, PointersHeld
  <2>2. ASSUME NEW o \in SocketObjects PROVE SocketsHeld'
    BY <1>5, UseKeeps
  <2>. QED BY <2>1, <2>2
<1>6. CASE UNCHANGED sockVars
  BY <1>6 DEF sockVars, SocketsHeld, SockTypes, FdsHeld, SessionsHeld, PointersHeld
<1>. QED BY <1>1, <1>2, <1>3, <1>4, <1>5, <1>6 DEF SockNext

(* socket and ssl_socket, in any sequence of creations, copies, assignments, *)
(* failures and destructions: an open descriptor has at most one owner, who  *)
(* never holds a closed one; and as long as no ssl_socket was copied or      *)
(* assigned, nothing is used or freed after it was freed.                    *)
THEOREM SocketsSafe == SockSpec => []DescriptorHeldOnce
<1>1. SockInit => SockInv
  <2>. SUFFICES ASSUME SockInit PROVE SocketsHeld
    BY SockParts
  <2>1. ClosedFd \in KernelRecords BY DEF ClosedFd, KernelRecords
  <2>2. Dead \in SocketRecords /\ Dead.kind = "none" /\ Dead.fd = None /\ Dead.session = None /\ Dead.impl = None
    BY DEF Dead, SocketRecords
  <2>3. SockTypes BY <2>1, <2>2 DEF SockInit, SockTypes
  <2>4. \A o \in SocketObjects : sock[o] = Dead BY DEF SockInit
  <2>5. FdsHeld BY <2>2, <2>4 DEF FdsHeld
  <2>6. SessionsHeld BY <2>2, <2>4 DEF SockInit, SessionsHeld, None
  <2>7. PointersHeld BY <2>2, <2>4 DEF SockInit, PointersHeld
  <2>. QED BY <2>3, <2>5, <2>6, <2>7 DEF SocketsHeld
<1>2. SockInv => DescriptorHeldOnce
  BY DEF SockInv
<1>. QED BY <1>1, <1>2, SockStep, PTL DEF SockSpec

-----------------------------------------------------------------------------
(* The configuration parser.                                               *)

(* Induction over Nat for a set, from the least counterexample. *)
LEMMA Induction ==
  ASSUME NEW S, 0 \in S, \A n \in Nat : n \in S => n + 1 \in S
  PROVE  \A n \in Nat : n \in S
<1>. DEFINE Bad == {n \in Nat : n \notin S}
<1>1. SUFFICES ASSUME Bad # {} PROVE FALSE OBVIOUS
<1>2. PICK m \in Bad : \A k \in Bad : m <= k
  <2>1. Bad \in SUBSET Nat OBVIOUS
  <2>. QED BY <1>1, <2>1, LeastOf
<1>3. m # 0 OBVIOUS
<1>4. m - 1 \in Nat /\ m - 1 \in S BY <1>2, <1>3
<1>. QED BY <1>4

Iterable(S, b, F) == \E g \in [Nat -> S] : g[0] = b /\ \A n \in Nat : g[n + 1] = F[n][g[n]]
(* A function defined by iterating another one over Nat exists. *)
LEMMA Iteration ==
  ASSUME NEW S, NEW b \in S, NEW F \in [Nat -> [S -> S]]
  PROVE  Iterable(S, b, F)
<1>. DEFINE Good(n) == {h \in [0 .. n -> S] : h[0] = b /\ \A i \in 0 .. (n - 1) : h[i + 1] = F[i][h[i]]}
            Has == {n \in Nat : Good(n) # {}}
<1>1. \A n \in Nat : n \in Has
  <2>1. 0 \in Has
    <3>1. [i \in 0 .. 0 |-> b] \in Good(0) OBVIOUS
    <3>. QED BY <3>1
  <2>2. ASSUME NEW n \in Nat, n \in Has PROVE n + 1 \in Has
    <3>1. PICK h \in Good(n) : TRUE BY <2>2
    <3>2. PICK g : g = [i \in 0 .. (n + 1) |-> IF i = n + 1 THEN F[n][h[n]] ELSE h[i]] OBVIOUS
    <3>3. g \in Good(n + 1)
      <4>0. h[n] \in S /\ F[n][h[n]] \in S BY <3>1
      <4>1. g \in [0 .. (n + 1) -> S] BY <3>1, <3>2, <4>0
      <4>2. g[0] = b BY <3>1, <3>2
      <4>3. \A i \in 0 .. (n + 1 - 1) : g[i + 1] = F[i][g[i]] BY <3>1, <3>2
      <4>. QED BY <4>1, <4>2, <4>3
    <3>. QED BY <3>3
  <2>. HIDE DEF Has
  <2>. QED BY <2>1, <2>2, Induction
<1>g. \A n \in Nat : \A h \in Good(n) : /\ h \in [0 .. n -> S] /\ h[0] = b
                                      /\ \A i \in 0 .. (n - 1) : h[i + 1] = F[i][h[i]]
  OBVIOUS
<1>h. \A n \in Nat : Good(n) # {} BY <1>1
<1>. HIDE DEF Good, Has
<1>2. \A i \in Nat : \A m, n \in Nat : i <= m /\ i <= n => \A h \in Good(m), k \in Good(n) : h[i] = k[i]
  <2>. DEFINE Same == {i \in Nat : \A m, n \in Nat : i <= m /\ i <= n => \A h \in Good(m), k \in Good(n) : h[i] = k[i]}
  <2>1. 0 \in Same BY <1>g
  <2>2. ASSUME NEW i \in Nat, i \in Same PROVE i + 1 \in Same
    <3>1. ASSUME NEW m \in Nat, NEW n \in Nat, i + 1 <= m, i + 1 <= n, NEW h \in Good(m), NEW k \in Good(n)
          PROVE  h[i + 1] = k[i + 1]
      <4>1. i <= m /\ i <= n /\ i \in 0 .. (m - 1) /\ i \in 0 .. (n - 1) BY <3>1
      <4>2. h[i] = k[i] BY <2>2, <4>1
      <4>. QED BY <1>g, <4>1, <4>2
    <3>. QED BY <3>1
  <2>. HIDE DEF Same
  <2>3. \A i \in Nat : i \in Same BY <2>1, <2>2, Induction
  <2>. QED BY <2>3 DEF Same
<1>3. PICK c : c = [n \in Nat |-> CHOOSE h : h \in Good(n)] OBVIOUS
<1>4. \A n \in Nat : c[n] \in Good(n) BY <1>h, <1>3
<1>5. PICK g : g = [n \in Nat |-> c[n][n]] OBVIOUS
<1>6. g \in [Nat -> S]
  <2>1. ASSUME NEW n \in Nat PROVE c[n][n] \in S BY <1>4, <1>g
  <2>. QED BY <1>5, <2>1
<1>7. g[0] = b BY <1>4, <1>5, <1>g
<1>8. ASSUME NEW n \in Nat PROVE g[n + 1] = F[n][g[n]]
  <2>1. c[n + 1] \in Good(n + 1) /\ c[n] \in Good(n) BY <1>4
  <2>2. c[n + 1][n] = c[n][n]
    <3>1. n \in Nat /\ n + 1 \in Nat /\ n <= n /\ n <= n + 1 OBVIOUS
    <3>. QED BY <1>2, <2>1, <3>1
  <2>3. c[n + 1][n + 1] = F[n][c[n + 1][n]] BY <1>g, <2>1
  <2>. QED BY <1>5, <2>2, <2>3
<1>. QED BY <1>6, <1>7, <1>8 DEF Iterable

(* Joined puts the sequences of f after one another, one at a time. *)
LEMMA JoinedFacts ==
  ASSUME NEW X, NEW f \in Seq(Seq(X))
  PROVE  /\ Joined(f, 0) = <<>>
         /\ \A k \in 1 .. Len(f) : Joined(f, k) = Joined(f, k - 1) \o f[k]
         /\ \A k \in 0 .. Len(f) : Joined(f, k) \in Seq(X)
<1>. DEFINE Eq(j) == j = [k \in 0 .. Len(f) |-> IF k = 0 THEN <<>> ELSE j[k - 1] \o f[k]]
<1>0. Len(f) \in Nat /\ \A k \in 1 .. Len(f) : f[k] \in Seq(X) OBVIOUS
<1>1. \A n : Joined(f, n) = (CHOOSE j : Eq(j))[n] BY Zenon DEF Joined
<1>2. PICK F : F = [n \in Nat |-> [x \in Seq(X) |-> IF n + 1 \in 1 .. Len(f) THEN x \o f[n + 1] ELSE x]]
  OBVIOUS
<1>3. F \in [Nat -> [Seq(X) -> Seq(X)]]
  <2>1. ASSUME NEW n \in Nat, NEW x \in Seq(X)
        PROVE  (IF n + 1 \in 1 .. Len(f) THEN x \o f[n + 1] ELSE x) \in Seq(X)
    <3>1. CASE n + 1 \in 1 .. Len(f)
      <4>1. PICK y \in Seq(X) : y = f[n + 1] BY <1>0, <3>1
      <4>2. x \o y \in Seq(X) OBVIOUS
      <4>. QED BY <3>1, <4>1, <4>2
    <3>. QED BY <3>1
  <2>. QED BY <1>2, <2>1
<1>4. <<>> \in Seq(X) OBVIOUS
<1>5. Iterable(Seq(X), <<>>, F) BY <1>3, <1>4, Iteration, Zenon
<1>6. PICK g \in [Nat -> Seq(X)] : g[0] = <<>> /\ \A n \in Nat : g[n + 1] = F[n][g[n]]
  BY <1>5, Zenon DEF Iterable
<1>7. PICK h : h = [k \in 0 .. Len(f) |-> g[k]] OBVIOUS
<1>8. Eq(h)
  <2>1. ASSUME NEW k \in 0 .. Len(f) PROVE g[k] = IF k = 0 THEN <<>> ELSE h[k - 1] \o f[k]
    <3>1. CASE k = 0 BY <1>6, <3>1
    <3>2. CASE k # 0
      <4>1. k - 1 \in Nat /\ k - 1 + 1 = k /\ k - 1 \in 0 .. Len(f) /\ k \in 1 .. Len(f) BY <1>0, <3>2
      <4>2. h[k - 1] = g[k - 1] BY <1>7, <4>1, Zenon
      <4>3. g[k] = F[k - 1][g[k - 1]] BY <1>6, <4>1, Zenon
      <4>4. g[k - 1] \in Seq(X) BY <4>1
      <4>5. F[k - 1][g[k - 1]] = g[k - 1] \o f[k] BY <1>2, <4>1, <4>4, Zenon
      <4>. QED BY <3>2, <4>2, <4>3, <4>5, Zenon
    <3>. QED BY <3>1, <3>2
  <2>. QED BY <1>7, <2>1, Zenon
<1>9. PICK j : j = (CHOOSE q : Eq(q)) OBVIOUS
<1>10. Eq(j) BY <1>8, <1>9, Zenon
<1>11. \A k \in 0 .. Len(f) : j[k] = IF k = 0 THEN <<>> ELSE j[k - 1] \o f[k] BY <1>10, Zenon
<1>12. \A n : Joined(f, n) = j[n] BY <1>1, <1>9, Zenon
<1>13. 0 \in 0 .. Len(f) /\ \A k \in 1 .. Len(f) : k \in 0 .. Len(f) /\ k # 0 BY <1>0
<1>14. j[0] = <<>> BY <1>11, <1>13, Zenon
<1>15. \A k \in 1 .. Len(f) : j[k] = j[k - 1] \o f[k] BY <1>11, <1>13, Zenon
<1>16. \A k \in Nat : k \in {n \in Nat : n <= Len(f) => j[n] \in Seq(X)}
  <2>. DEFINE Good == {n \in Nat : n <= Len(f) => j[n] \in Seq(X)}
  <2>1. 0 \in Good BY <1>14, <1>4
  <2>2. ASSUME NEW n \in Nat, n \in Good PROVE n + 1 \in Good
    <3>1. ASSUME n + 1 <= Len(f) PROVE j[n + 1] \in Seq(X)
      <4>1. n + 1 \in 1 .. Len(f) /\ n <= Len(f) /\ n + 1 - 1 = n BY <1>0, <3>1
      <4>2. PICK a \in Seq(X) : a = j[n] BY <2>2, <4>1
      <4>3. PICK b \in Seq(X) : b = f[n + 1] BY <1>0, <4>1
      <4>a. PICK m \in 1 .. Len(f) : m = n + 1 /\ m - 1 = n BY <4>1
      <4>4. j[m] = a \o b BY <1>15, <4>a, <4>2, <4>3, Zenon
      <4>5. a \o b \in Seq(X) OBVIOUS
      <4>. QED BY <4>4, <4>5, <4>a, Zenon
    <3>. QED BY <3>1
  <2>. HIDE DEF Good
  <2>3. \A k \in Nat : k \in Good BY <2>1, <2>2, Induction
  <2>. QED BY <2>3 DEF Good
<1>17. \A k \in 0 .. Len(f) : j[k] \in Seq(X) BY <1>0, <1>16
<1>. QED BY <1>12, <1>14, <1>15, <1>17, Zenon

(* Joined looks at nothing beyond the sequences it joins. *)
LEMMA JoinedSame ==
  ASSUME NEW X, NEW f \in Seq(Seq(X)), NEW g \in Seq(Seq(X)), NEW n \in Nat,
         n <= Len(f), n <= Len(g), \A k \in 1 .. n : f[k] = g[k]
  PROVE  Joined(f, n) = Joined(g, n)
<1>. DEFINE Agree == {k \in Nat : k <= n => Joined(f, k) = Joined(g, k)}
<1>0. Len(f) \in Nat /\ Len(g) \in Nat OBVIOUS
<1>1. 0 \in Agree BY JoinedFacts
<1>2. ASSUME NEW k \in Nat, k \in Agree PROVE k + 1 \in Agree
  <2>1. ASSUME k + 1 <= n PROVE Joined(f, k + 1) = Joined(g, k + 1)
    <3>1. k + 1 \in 1 .. Len(f) /\ k + 1 \in 1 .. Len(g) /\ k + 1 \in 1 .. n /\ k + 1 - 1 = k /\ k <= n BY <1>0, <2>1
    <3>a. PICK m : m = k + 1 /\ m - 1 = k BY <3>1
    <3>2. Joined(f, m) = Joined(f, k) \o f[m] BY <3>1, <3>a, JoinedFacts
    <3>3. Joined(g, m) = Joined(g, k) \o g[m] BY <3>1, <3>a, JoinedFacts
    <3>4. Joined(f, k) = Joined(g, k) BY <1>2, <3>1
    <3>. QED BY <3>1, <3>a, <3>2, <3>3, <3>4, Zenon
  <2>. QED BY <2>1
<1>. HIDE DEF Agree
<1>3. \A k \in Nat : k \in Agree BY <1>1, <1>2, Induction
<1>. QED BY <1>3 DEF Agree

(* Max of a bounded set of numbers is its greatest element. *)
LEMMA Greatest ==
  ASSUME NEW n \in Nat, NEW S \in SUBSET (1 .. n), S # {}
  PROVE  Max(S) \in S /\ \A y \in S : Max(S) >= y
<1>. DEFINE D == {n - y : y \in S}
<1>0. \A y \in S : y \in 1 .. n /\ n - y \in Nat OBVIOUS
<1>1. D \in SUBSET Nat /\ D # {} BY <1>0
<1>2. PICK d \in D : \A e \in D : d <= e
  <2>. HIDE DEF D
  <2>. QED BY <1>1, LeastOf
<1>3. PICK m \in S : d = n - m BY <1>2
<1>4. \A y \in S : m >= y
  <2>1. TAKE y \in S
  <2>2. n - y \in D OBVIOUS
  <2>3. n - m <= n - y BY <1>2, <1>3, <2>2
  <2>4. m \in Int /\ y \in Int OBVIOUS
  <2>. QED BY <2>3, <2>4
<1>5. \E x \in S : \A y \in S : x >= y BY <1>4
<1>. QED BY <1>5, Zenon DEF Max

Entries == [key : ConfigWords \X ConfigWords, value : ConfigWords]
TellsAll(says) == \A file : Told(says, file) \in Seq(Entries)

(* Above the last file that can be opened, files say nothing. *)
LEMMA TellsNothing == TellsAll(<< >>)
<1>1. DOMAIN << >> = {} OBVIOUS
<1>2. \A file : Told(<< >>, file) = <<>> BY <1>1, Zenon DEF Told
<1>3. <<>> \in Seq(Entries) OBVIOUS
<1>. QED BY <1>2, <1>3, Zenon DEF TellsAll

(* A tree has finitely many files, each a sequence of lines. *)
LEMMA TreeFacts ==
  ASSUME NEW t \in ConfigTrees
  PROVE  /\ IsFiniteSet(DOMAIN t)
         /\ \A file \in DOMAIN t : /\ t[file] \in Seq(ConfigLines) /\ Len(t[file]) \in Nat
                                   /\ DOMAIN t[file] = 1 .. Len(t[file])
                                   /\ \A n \in 1 .. Len(t[file]) : t[file][n] \in ConfigLines
<1>1. IsFiniteSet(DOMAIN t) /\ t \in [DOMAIN t -> Seq(ConfigLines)] BY ConfigAssumption
<1>2. ASSUME NEW file \in DOMAIN t PROVE t[file] \in Seq(ConfigLines) BY <1>1
<1>3. ASSUME NEW l \in Seq(ConfigLines)
      PROVE /\ Len(l) \in Nat /\ DOMAIN l = 1 .. Len(l) /\ \A n \in 1 .. Len(l) : l[n] \in ConfigLines
  OBVIOUS
<1>. QED BY <1>1, <1>2, <1>3, Zenon

(* The fields of a section line and of an option line are words. *)
LEMMA LineFacts ==
  ASSUME NEW line \in ConfigLines
  PROVE  /\ line.kind = "option" => line.name \in ConfigWords /\ line.value \in ConfigWords
         /\ line.kind = "section" => line.name \in ConfigWords
BY DEF ConfigLines

(* What matches a pattern is a sequence: a tree has finitely many files. *)
LEMMA MatchingFacts ==
  ASSUME NEW t \in ConfigTrees, NEW dir, NEW pattern
  PROVE  \E Y : Matching(t, dir, pattern) \in Seq(Y)
<1>. DEFINE found == { f \in DOMAIN t : /\ f.dir = dir \o pattern.dir
                                     /\ pattern.base \in {0, f.base} }
      bases == { f.base : f \in found }
      nth(k) == CHOOSE b \in bases : Cardinality({a \in bases : a < b}) = k - 1
      one(k) == [dir |-> pattern.dir, base |-> nth(k)]
<1>1. IsFiniteSet(found) BY TreeFacts, FS_Subset
<1>2. IsFiniteSet(bases)
  <2>. HIDE DEF found
  <2>1. PICK F : F = found BY Zenon
  <2>2. PICK g : g = [f \in F |-> f.base] OBVIOUS
  <2>3. g \in Surjection(F, bases) BY <2>1, <2>2 DEF Surjection
  <2>. QED BY <1>1, <2>1, <2>3, FS_Surjection
<1>3. PICK n \in Nat : n = Cardinality(bases) BY <1>2, FS_CardinalityType
<1>4. Matching(t, dir, pattern) = [k \in 1 .. n |-> one(k)] BY <1>3, Zenon DEF Matching
<1>. HIDE DEF found, bases, nth, one
<1>5. PICK Y : Y = {one(k) : k \in 1 .. n} OBVIOUS
<1>6. [k \in 1 .. n |-> one(k)] \in [1 .. n -> Y] BY <1>5, Zenon
<1>7. PICK m : m = [k \in 1 .. n |-> one(k)] OBVIOUS
<1>8. m \in Seq(Y) BY <1>6, <1>7
<1>. QED BY <1>4, <1>7, <1>8, Zenon

(* An include joins what each of the files it names says. *)
LEMMA IncludedFacts ==
  ASSUME NEW says, TellsAll(says), NEW Y, NEW names \in Seq(Y), NEW dir
  PROVE  /\ Included(says, dir, names) \in Seq(Seq(Entries))
         /\ Len(Included(says, dir, names)) = Len(names)
         /\ \A k \in 1 .. Len(names) : Included(says, dir, names)[k] = Told(says, Resolve(dir, names[k]))
<1>1. DOMAIN names = 1 .. Len(names) /\ Len(names) \in Nat OBVIOUS
<1>2. PICK n \in Nat : n = Len(names) BY <1>1
<1>. DEFINE one(k) == Told(says, Resolve(dir, names[k]))
<1>3. PICK m : m = [k \in 1 .. n |-> one(k)] OBVIOUS
<1>4. m = Included(says, dir, names) BY <1>1, <1>2, <1>3, Zenon DEF Included
<1>5. \A k \in 1 .. n : one(k) \in Seq(Entries) BY Zenon DEF TellsAll
<1>. HIDE DEF one
<1>6. m \in [1 .. n -> Seq(Entries)] BY <1>3, <1>5, Zenon
<1>7. m \in Seq(Seq(Entries)) /\ Len(m) = n BY <1>6
<1>8. \A k \in 1 .. n : m[k] = one(k) BY <1>3, Zenon
<1>. QED BY <1>2, <1>4, <1>7, <1>8, Zenon DEF one

(* The current section is a word. *)
LEMMA SectionType ==
  ASSUME NEW lines \in Seq(ConfigLines), NEW n \in 1 .. (Len(lines) + 1)
  PROVE  SectionAt(lines, n) \in ConfigWords
<1>. DEFINE marks == {k \in 1..(n - 1) : lines[k].kind = "section"}
<1>0. Len(lines) \in Nat /\ n - 1 \in Nat /\ n - 1 <= Len(lines) OBVIOUS
<1>1. CASE marks = {}
  <2>1. SectionAt(lines, n) = "" BY <1>1, Zenon DEF SectionAt
  <2>. QED BY <2>1, ConfigAssumption, Zenon
<1>2. CASE marks # {}
  <2>1. marks \in SUBSET (1 .. (n - 1)) OBVIOUS
  <2>2. Max(marks) \in marks
    <3>. HIDE DEF marks
    <3>. QED BY <1>0, <1>2, <2>1, Greatest
  <2>3. PICK m \in marks : m = Max(marks) BY <2>2
  <2>4. m \in 1 .. Len(lines) /\ lines[m].kind = "section" BY <1>0, <2>3
  <2>5. lines[m] \in ConfigLines BY <2>4
  <2>6. lines[m].name \in ConfigWords BY <2>4, <2>5, LineFacts
  <2>7. SectionAt(lines, n) = lines[m].name BY <1>2, <2>3, Zenon DEF SectionAt
  <2>. QED BY <2>6, <2>7, Zenon
<1>. QED BY <1>1, <1>2

(* An option line gives an entry. *)
LEMMA EntryType ==
  ASSUME NEW s \in ConfigWords, NEW line, line.name \in ConfigWords, line.value \in ConfigWords
  PROVE  Entry(s, line) \in Entries
BY DEF Entry, Entries

(* What a line says is a sequence of entries. *)
LEMMA LineSaysType ==
  ASSUME NEW t \in ConfigTrees, NEW says, TellsAll(says), NEW file \in DOMAIN t, NEW n \in 1 .. Len(t[file])
  PROVE  LineSays(t, says, file, n) \in Seq(Entries)
<1>0. t[file] \in Seq(ConfigLines) /\ t[file][n] \in ConfigLines /\ n \in 1 .. (Len(t[file]) + 1) BY TreeFacts
<1>1. PICK line \in ConfigLines : line = t[file][n] BY <1>0
<1>. DEFINE names == Matching(t, file.dir, line.pattern)
<1>2. CASE line.kind = "option"
  <2>1. LineSays(t, says, file, n) = <<Entry(SectionAt(t[file], n), line)>> BY <1>1, <1>2, Zenon DEF LineSays
  <2>2. SectionAt(t[file], n) \in ConfigWords BY <1>0, SectionType
  <2>3. PICK e \in Entries : e = Entry(SectionAt(t[file], n), line) BY <1>1, <1>2, <2>2, LineFacts, EntryType
  <2>4. <<e>> \in Seq(Entries) OBVIOUS
  <2>. QED BY <2>1, <2>3, <2>4, Zenon
<1>3. CASE line.kind = "include"
  <2>1. LineSays(t, says, file, n) = Joined(Included(says, file.dir, names), Len(names))
    <3>1. line.kind # "option" BY <1>3
    <3>. QED BY <1>1, <1>3, <3>1, Zenon DEF LineSays
  <2>. HIDE DEF names
  <2>2. PICK Y : names \in Seq(Y) BY MatchingFacts, Zenon DEF names
  <2>3. PICK inc \in Seq(Seq(Entries)) : inc = Included(says, file.dir, names) /\ Len(inc) = Len(names)
    BY <2>2, IncludedFacts, Zenon
  <2>4. Len(names) \in 0 .. Len(inc) BY <2>2, <2>3
  <2>5. Joined(inc, Len(names)) \in Seq(Entries) BY <2>4, JoinedFacts, Zenon
  <2>. QED BY <2>1, <2>3, <2>5, Zenon
<1>4. CASE line.kind # "option" /\ line.kind # "include"
  <2>1. LineSays(t, says, file, n) = <<>> BY <1>1, <1>4, Zenon DEF LineSays
  <2>2. <<>> \in Seq(Entries) OBVIOUS
  <2>. QED BY <2>1, <2>2, Zenon
<1>. QED BY <1>2, <1>3, <1>4

(* What the lines of a file say, one by one. *)
LEMMA LinesSayFacts ==
  ASSUME NEW t \in ConfigTrees, NEW says, TellsAll(says), NEW file \in DOMAIN t
  PROVE  /\ LinesSay(t, says, file) \in Seq(Seq(Entries))
         /\ Len(LinesSay(t, says, file)) = Len(t[file])
         /\ \A n \in 1 .. Len(t[file]) : LinesSay(t, says, file)[n] = LineSays(t, says, file, n)
<1>1. DOMAIN t[file] = 1 .. Len(t[file]) /\ Len(t[file]) \in Nat BY TreeFacts, Zenon
<1>2. PICK l \in Nat : l = Len(t[file]) BY <1>1
<1>3. PICK m : m = [k \in 1 .. l |-> LineSays(t, says, file, k)] OBVIOUS
<1>4. m = LinesSay(t, says, file) BY <1>1, <1>2, <1>3, Zenon DEF LinesSay
<1>5. \A k \in 1 .. l : LineSays(t, says, file, k) \in Seq(Entries) BY <1>2, LineSaysType, Zenon
<1>6. m \in [1 .. l -> Seq(Entries)] BY <1>3, <1>5, Zenon
<1>7. m \in Seq(Seq(Entries)) /\ Len(m) = l BY <1>6
<1>8. \A k \in 1 .. l : m[k] = LineSays(t, says, file, k) BY <1>3, Zenon
<1>. QED BY <1>2, <1>4, <1>7, <1>8, Zenon

(* What a whole file says is a sequence of entries. *)
LEMMA WholeFileType ==
  ASSUME NEW t \in ConfigTrees, NEW says, TellsAll(says), NEW file \in DOMAIN t
  PROVE  Joined(LinesSay(t, says, file), Len(t[file])) \in Seq(Entries)
<1>1. PICK l \in Seq(Seq(Entries)) : l = LinesSay(t, says, file) /\ Len(l) = Len(t[file])
  BY LinesSayFacts, Zenon
<1>2. Len(t[file]) \in 0 .. Len(l) BY <1>1
<1>. QED BY <1>1, <1>2, JoinedFacts, Zenon

(* The recursion of Says: a file says what its lines say, its includes one level up. *)
LEMMA SaysFacts ==
  ASSUME NEW t \in ConfigTrees
  PROVE  /\ \A d \in 0 .. MaxOpen : Says(t)[d] \in [DOMAIN t -> Seq(Entries)]
         /\ \A file \in DOMAIN t :
              /\ Says(t)[0][file] = Joined(LinesSay(t, << >>, file), Len(t[file]))
              /\ \A d \in 1 .. MaxOpen : Says(t)[d][file] = Joined(LinesSay(t, Says(t)[d - 1], file), Len(t[file]))
<1>. DEFINE Whole(says) == [file \in DOMAIN t |-> Joined(LinesSay(t, says, file), Len(t[file]))]
            S == [DOMAIN t -> Seq(Entries)]
            Eq(j) == j = [d \in 0 .. MaxOpen |->
               [file \in DOMAIN t |-> Joined(LinesSay(t, IF d = 0 THEN << >> ELSE j[d - 1], file), Len(t[file]))]]
<1>0. MaxOpen \in Nat BY ConfigAssumption
<1>1. Says(t) = CHOOSE j : Eq(j) BY Zenon DEF Says
<1>2. ASSUME NEW says, TellsAll(says) PROVE Whole(says) \in S
  <2>1. \A file \in DOMAIN t : Joined(LinesSay(t, says, file), Len(t[file])) \in Seq(Entries)
    BY <1>2, WholeFileType, Zenon
  <2>. QED BY <2>1, Zenon
<1>3. ASSUME NEW says \in S PROVE TellsAll(says)
  <2>1. <<>> \in Seq(Entries) OBVIOUS
  <2>2. DOMAIN says = DOMAIN t /\ \A file \in DOMAIN t : says[file] \in Seq(Entries) BY <1>3, Zenon
  <2>. QED BY <2>1, <2>2, Zenon DEF TellsAll, Told
<1>4. PICK b \in S : b = Whole(<< >>) BY <1>2, TellsNothing, Zenon
<1>5. \A says \in S : Whole(says) \in S BY <1>2, <1>3, Zenon
<1>6. PICK W : W = [says \in S |-> Whole(says)] OBVIOUS
<1>7. PICK F : F = [n \in Nat |-> W] OBVIOUS
<1>w. \A says : \A file \in DOMAIN t : Whole(says)[file] = Joined(LinesSay(t, says, file), Len(t[file])) BY Zenon
<1>. HIDE DEF S
<1>8. F \in [Nat -> [S -> S]]
  <2>1. W \in [S -> S] BY <1>5, <1>6, Zenon
  <2>. QED BY <1>7, <2>1, Zenon
<1>9. Iterable(S, b, F) BY <1>8, Iteration, Zenon
<1>10. PICK g \in [Nat -> S] : g[0] = b /\ \A n \in Nat : g[n + 1] = F[n][g[n]]
  BY <1>9, Zenon DEF Iterable
<1>11. \A n \in Nat : g[n] \in S /\ g[n + 1] = Whole(g[n])
  <2>1. ASSUME NEW n \in Nat PROVE g[n] \in S /\ g[n + 1] = Whole(g[n])
    <3>1. g[n] \in S BY Zenon
    <3>2. F[n][g[n]] = W[g[n]] BY <1>7, Zenon
    <3>3. W[g[n]] = Whole(g[n]) BY <1>6, <3>1, Zenon
    <3>. QED BY <1>10, <3>1, <3>2, <3>3, Zenon
  <2>. QED BY <2>1
<1>12. PICK h : h = [d \in 0 .. MaxOpen |-> g[d]] OBVIOUS
<1>13. Eq(h)
  <2>1. ASSUME NEW d \in 0 .. MaxOpen PROVE g[d] = Whole(IF d = 0 THEN << >> ELSE h[d - 1])
    <3>1. CASE d = 0 BY <1>4, <1>10, <3>1, Zenon
    <3>2. CASE d # 0
      <4>1. d - 1 \in Nat /\ d - 1 + 1 = d /\ d - 1 \in 0 .. MaxOpen BY <1>0, <3>2
      <4>2. h[d - 1] = g[d - 1] BY <1>12, <4>1, Zenon
      <4>3. g[d - 1 + 1] = Whole(g[d - 1]) BY <1>11, <4>1, Zenon
      <4>. QED BY <3>2, <4>1, <4>2, <4>3, Zenon
    <3>. QED BY <3>1, <3>2
  <2>. QED BY <1>12, <2>1, Zenon
<1>14. PICK j : j = Says(t) OBVIOUS
<1>15. Eq(j) BY <1>1, <1>13, <1>14, Zenon
<1>16. \A d \in 0 .. MaxOpen : j[d] = Whole(IF d = 0 THEN << >> ELSE j[d - 1]) BY <1>15, Zenon
<1>. HIDE DEF Whole, Eq
<1>17. j[0] = Whole(<< >>)
  <2>1. 0 \in 0 .. MaxOpen BY <1>0
  <2>. QED BY <1>16, <2>1, Zenon
<1>18. \A d \in 1 .. MaxOpen : j[d] = Whole(j[d - 1])
  <2>1. \A d \in 1 .. MaxOpen : d \in 0 .. MaxOpen /\ d # 0 BY <1>0
  <2>. QED BY <1>16, <2>1, Zenon
<1>19. \A d \in Nat : d \in {n \in Nat : n <= MaxOpen => j[n] \in S}
  <2>. DEFINE Good == {n \in Nat : n <= MaxOpen => j[n] \in S}
  <2>1. 0 \in Good
    <3>1. j[0] \in S BY <1>4, <1>17, Zenon
    <3>. QED BY <3>1
  <2>2. ASSUME NEW n \in Nat, n \in Good PROVE n + 1 \in Good
    <3>1. ASSUME n + 1 <= MaxOpen PROVE j[n + 1] \in S
      <4>1. PICK m \in 1 .. MaxOpen : m = n + 1 /\ m - 1 = n /\ n <= MaxOpen BY <1>0, <3>1
      <4>2. j[n] \in S BY <2>2, <4>1
      <4>3. j[m] = Whole(j[n]) BY <1>18, <4>1, Zenon
      <4>. QED BY <1>5, <4>1, <4>2, <4>3, Zenon
    <3>. QED BY <3>1
  <2>. HIDE DEF Good
  <2>3. \A k \in Nat : k \in Good BY <2>1, <2>2, Induction
  <2>. QED BY <2>3 DEF Good
<1>20. \A d \in 0 .. MaxOpen : j[d] \in S BY <1>0, <1>19
<1>21. \A file \in DOMAIN t : j[0][file] = Joined(LinesSay(t, << >>, file), Len(t[file])) BY <1>17, <1>w, Zenon
<1>22. \A file \in DOMAIN t : \A d \in 1 .. MaxOpen : j[d][file] = Joined(LinesSay(t, j[d - 1], file), Len(t[file]))
  BY <1>18, <1>w, Zenon
<1>. QED BY <1>14, <1>20, <1>21, <1>22, Zenon DEF S

(* What the call at position i may include, and what its own file says. *)
LEMMA AboveFacts ==
  ASSUME NEW t \in ConfigTrees, NEW i \in 1 .. MaxOpen
  PROVE  /\ TellsAll(Above(t, i))
         /\ \A file \in DOMAIN t : Says(t)[MaxOpen - i][file] = Joined(LinesSay(t, Above(t, i), file), Len(t[file]))
         /\ \A file \in DOMAIN t : i > 1 => Told(Above(t, i - 1), file) = Says(t)[MaxOpen - i][file]
<1>0. MaxOpen \in Nat BY ConfigAssumption
<1>1. PICK d : d = MaxOpen - i /\ d \in 0 .. MaxOpen BY <1>0
<1>a. i = MaxOpen <=> d = 0 BY <1>0, <1>1
<1>t. ASSUME NEW says \in [DOMAIN t -> Seq(Entries)] PROVE TellsAll(says)
  <2>1. <<>> \in Seq(Entries) OBVIOUS
  <2>2. DOMAIN says = DOMAIN t /\ \A file \in DOMAIN t : says[file] \in Seq(Entries) BY Zenon
  <2>. QED BY <2>1, <2>2, Zenon DEF TellsAll, Told
<1>4. ASSUME NEW file \in DOMAIN t, i > 1 PROVE Told(Above(t, i - 1), file) = Says(t)[d][file]
  <2>1. PICK k : k = i - 1 /\ k # MaxOpen /\ MaxOpen - k - 1 = d BY <1>0, <1>1, <1>4
  <2>2. Above(t, k) = Says(t)[d] BY <2>1, Zenon DEF Above
  <2>3. DOMAIN Says(t)[d] = DOMAIN t BY <1>1, SaysFacts, Zenon
  <2>. QED BY <2>1, <2>2, <2>3, Zenon DEF Told
<1>5. \A file \in DOMAIN t : i > 1 => Told(Above(t, i - 1), file) = Says(t)[MaxOpen - i][file]
  BY <1>1, <1>4, Zenon
<1>2. CASE d = 0
  <2>1. Above(t, i) = << >> BY <1>2, <1>a, Zenon DEF Above
  <2>2. \A file \in DOMAIN t : Says(t)[d][file] = Joined(LinesSay(t, << >>, file), Len(t[file]))
    BY <1>2, SaysFacts, Zenon
  <2>. QED BY <1>1, <1>5, <2>1, <2>2, TellsNothing, Zenon
<1>3. CASE d # 0
  <2>1. PICK e \in 0 .. MaxOpen : e = MaxOpen - i - 1 /\ e = d - 1 /\ d \in 1 .. MaxOpen BY <1>0, <1>1, <1>3
  <2>2. Above(t, i) = Says(t)[e] BY <2>1, <1>3, <1>a, Zenon DEF Above
  <2>3. TellsAll(Above(t, i)) BY <2>2, <1>t, SaysFacts, Zenon
  <2>4. \A file \in DOMAIN t : Says(t)[d][file] = Joined(LinesSay(t, Says(t)[e], file), Len(t[file]))
    BY <2>1, SaysFacts, Zenon
  <2>. QED BY <1>1, <1>5, <2>2, <2>3, <2>4, Zenon
<1>. QED BY <1>2, <1>3, Zenon

(* No entries, no options. *)
LEMMA OverNone == Over(<< >>, <<>>) = << >>
<1>1. Keys(<<>>) = {} BY DEF Keys
<1>2. DOMAIN << >> \cup Keys(<<>>) = {} BY <1>1
<1>3. Over(<< >>, <<>>) = [key \in {} |-> IF key \in Keys(<<>>) THEN <<>>[LastFor(<<>>, key)].value ELSE << >>[key]]
  BY <1>2, Zenon DEF Over
<1>4. \A f : f = [key \in {} |-> IF key \in Keys(<<>>) THEN <<>>[LastFor(<<>>, key)].value ELSE << >>[key]]
             => f \in [{} -> {}]
  OBVIOUS
<1>5. \A f \in [{} -> {}] : f = << >>
  <2>1. TAKE f \in [{} -> {}]
  <2>2. f \in Seq({}) /\ Len(f) = 0
    <3>1. {} = 1 .. 0 OBVIOUS
    <3>. QED BY <3>1
  <2>. QED BY <2>2, EmptySeq
<1>. QED BY <1>3, <1>4, <1>5, Zenon

(* One more entry is one assignment: the last entry for a key counts. *)
LEMMA OverAppend ==
  ASSUME NEW s \in Seq(Entries), NEW e \in Entries
  PROVE  Over(<< >>, s \o <<e>>) = assign(Over(<< >>, s), e.key, e.value)
<1>0. PICK l \in Nat : l = Len(s) /\ DOMAIN s = 1 .. l OBVIOUS
<1>1. PICK r \in Seq(Entries) : /\ r = s \o <<e>> /\ Len(r) = l + 1 /\ DOMAIN r = 1 .. (l + 1)
                                /\ r[l + 1] = e /\ \A i \in 1 .. l : r[i] = s[i]
  <2>1. <<e>> \in Seq(Entries) OBVIOUS
  <2>2. s \o <<e>> \in Seq(Entries) /\ Len(s \o <<e>>) = l + 1 BY <1>0, <2>1
  <2>3. (s \o <<e>>)[l + 1] = e /\ \A i \in 1 .. l : (s \o <<e>>)[i] = s[i] BY <1>0
  <2>4. DOMAIN (s \o <<e>>) = 1 .. (l + 1) BY <2>2
  <2>. QED BY <2>2, <2>3, <2>4, Zenon
<1>2. Keys(r) = Keys(s) \cup {e.key}
  <2>1. \A i \in 1 .. (l + 1) : i \in 1 .. l \/ i = l + 1 OBVIOUS
  <2>2. l + 1 \in 1 .. (l + 1) /\ \A i \in 1 .. l : i \in 1 .. (l + 1) OBVIOUS
  <2>. QED BY <1>0, <1>1, <2>1, <2>2, ZenonT(60) DEF Keys
<1>3. ASSUME NEW key, key # e.key PROVE LastFor(r, key) = LastFor(s, key)
  <2>1. {i \in DOMAIN r : r[i].key = key} = {i \in DOMAIN s : s[i].key = key} BY <1>0, <1>1, <1>3
  <2>. QED BY <2>1, Zenon DEF LastFor
<1>4. LastFor(r, e.key) = l + 1
  <2>. DEFINE S == {i \in DOMAIN r : r[i].key = e.key}
  <2>1. S \in SUBSET (1 .. (l + 1)) /\ l + 1 \in S /\ S # {} /\ l + 1 \in Nat BY <1>1
  <2>2. Max(S) \in S /\ \A y \in S : Max(S) >= y
    <3>. HIDE DEF S
    <3>. QED BY <2>1, Greatest
  <2>3. PICK m \in S : m = Max(S) BY <2>2
  <2>4. m = l + 1
    <3>1. m >= l + 1 /\ m \in 1 .. (l + 1) BY <2>1, <2>2, <2>3
    <3>. QED BY <3>1
  <2>. QED BY <2>3, <2>4, Zenon DEF LastFor
<1>5. ASSUME NEW key \in Keys(s), key # e.key PROVE r[LastFor(r, key)] = s[LastFor(s, key)]
  <2>. DEFINE S == {i \in DOMAIN s : s[i].key = key}
  <2>1. S \in SUBSET (1 .. l) /\ S # {} BY <1>0, <1>5 DEF Keys
  <2>2. Max(S) \in S
    <3>. HIDE DEF S
    <3>. QED BY <2>1, Greatest
  <2>3. LastFor(s, key) \in 1 .. l BY <2>1, <2>2, Zenon DEF LastFor
  <2>. QED BY <1>1, <1>3, <1>5, <2>3, Zenon
<1>. DEFINE In(q, key) == IF key \in Keys(q) THEN q[LastFor(q, key)].value ELSE << >>[key]
<1>6. Over(<< >>, s) = [key \in Keys(s) |-> In(s, key)] /\ Over(<< >>, r) = [key \in Keys(r) |-> In(r, key)]
  <2>1. DOMAIN << >> = {} OBVIOUS
  <2>2. DOMAIN << >> \cup Keys(s) = Keys(s) /\ DOMAIN << >> \cup Keys(r) = Keys(r) BY <2>1
  <2>. QED BY <2>2, Zenon DEF Over
<1>7. PICK o : o = Over(<< >>, s) OBVIOUS
<1>8. DOMAIN o = Keys(s) /\ \A key \in Keys(s) : o[key] = s[LastFor(s, key)].value BY <1>6, <1>7, Zenon
<1>9. \A key \in Keys(r) : In(r, key) = IF key = e.key THEN e.value ELSE o[key]
  <2>1. TAKE key \in Keys(r)
  <2>2. CASE key = e.key
    <3>1. In(r, key) = r[LastFor(r, key)].value BY Zenon
    <3>2. r[LastFor(r, key)] = e BY <1>1, <1>4, <2>2, Zenon
    <3>. QED BY <2>2, <3>1, <3>2, Zenon
  <2>3. CASE key # e.key
    <3>1. key \in Keys(s) BY <1>2, <2>3
    <3>. QED BY <1>5, <1>8, <2>3, <3>1, Zenon
  <2>. QED BY <2>2, <2>3
<1>. HIDE DEF In
<1>10. assign(o, e.key, e.value) = [key \in Keys(r) |-> IF key = e.key THEN e.value ELSE o[key]]
  BY <1>2, <1>8, Zenon DEF assign
<1>. QED BY <1>1, <1>6, <1>7, <1>9, <1>10, Zenon

(* A file starts without a section. *)
LEMMA SectionStart ==
  ASSUME NEW lines PROVE SectionAt(lines, 1) = ""
<1>1. {k \in 1..(1 - 1) : lines[k].kind = "section"} = {} OBVIOUS
<1>. QED BY <1>1, Zenon DEF SectionAt

(* A section line changes the section, no other line does. *)
LEMMA SectionStep ==
  ASSUME NEW lines, NEW n \in Nat, n > 0
  PROVE  /\ lines[n].kind = "section" => SectionAt(lines, n + 1) = lines[n].name
         /\ lines[n].kind # "section" => SectionAt(lines, n + 1) = SectionAt(lines, n)
<1>0. PICK p \in Nat : p = n + 1 /\ p - 1 = n OBVIOUS
<1>. DEFINE old == {k \in 1..(n - 1) : lines[k].kind = "section"}
            new == {k \in 1..(p - 1) : lines[k].kind = "section"}
<1>1. CASE lines[n].kind = "section"
  <2>1. new \in SUBSET (1 .. n) /\ n \in new /\ new # {} BY <1>0, <1>1
  <2>2. Max(new) \in new /\ \A y \in new : Max(new) >= y
    <3>. HIDE DEF new
    <3>. QED BY <2>1, Greatest
  <2>3. PICK m \in new : m = Max(new) BY <2>2
  <2>4. m >= n /\ m \in 1 .. n BY <2>1, <2>2, <2>3
  <2>5. m = n BY <2>4
  <2>6. SectionAt(lines, p) = lines[n].name BY <2>1, <2>3, <2>5, Zenon DEF SectionAt
  <2>. QED BY <1>0, <1>1, <2>6, Zenon
<1>2. CASE lines[n].kind # "section"
  <2>1. new = old
    <3>1. \A k \in 1 .. (p - 1) : k \in 1 .. (n - 1) \/ k = n BY <1>0
    <3>2. \A k \in 1 .. (n - 1) : k \in 1 .. (p - 1) BY <1>0
    <3>. QED BY <1>2, <3>1, <3>2, Zenon
  <2>2. SectionAt(lines, p) = SectionAt(lines, n) BY <2>1, Zenon DEF SectionAt
  <2>. QED BY <1>0, <1>2, <2>2, Zenon
<1>. QED BY <1>1, <1>2

(* What a call has read is a sequence of entries. *)
LEMMA ReadByType ==
  ASSUME NEW t \in ConfigTrees, NEW i \in 1 .. MaxOpen, NEW c, NEW busy \in {0, 1}, NEW base,
         CallOK(t, c, busy, base), ReadingOK(t, c, busy)
  PROVE  ReadBy(t, i, c, busy) \in Seq(Entries)
<1>1. c.file \in DOMAIN t /\ c.at \in 1..(Len(t[c.file]) + 1) /\ (c.within => c.at > 1) BY DEF CallOK
<1>2. PICK L \in Seq(Seq(Entries)) : L = LinesSay(t, Above(t, i), c.file) /\ Len(L) = Len(t[c.file])
  BY <1>1, AboveFacts, LinesSayFacts, ZenonT(60)
<1>3. CASE c.within
  <2>1. c.at - 2 \in 0 .. Len(L)
    <3>1. Len(L) \in Nat OBVIOUS
    <3>. QED BY <1>1, <1>2, <1>3, <3>1
  <2>2. Joined(L, c.at - 2) \in Seq(Entries) BY <2>1, JoinedFacts, Zenon
  <2>3. PICK Y : Names(t, c) \in Seq(Y) BY MatchingFacts, Zenon DEF Names
  <2>4. PICK inc \in Seq(Seq(Entries)) : inc = Included(Above(t, i), c.file.dir, Names(t, c)) /\ Len(inc) = Len(Names(t, c))
    BY <2>3, AboveFacts, IncludedFacts, Zenon
  <2>5. Opened(t, c) - busy \in 0 .. Len(inc)
    <3>1. Len(inc) \in Nat OBVIOUS
    <3>2. Opened(t, c) \in busy .. Len(inc) BY <1>3, <2>4, Zenon DEF ReadingOK
    <3>3. busy = 0 \/ busy = 1 OBVIOUS
    <3>. QED BY <3>1, <3>2, <3>3
  <2>6. Joined(inc, Opened(t, c) - busy) \in Seq(Entries) BY <2>5, JoinedFacts, Zenon
  <2>7. \A a, b \in Seq(Entries) : a \o b \in Seq(Entries) OBVIOUS
  <2>8. ReadBy(t, i, c, busy) = Joined(L, c.at - 2) \o Joined(inc, Opened(t, c) - busy)
    BY <1>2, <1>3, <2>4, Zenon DEF ReadBy
  <2>. QED BY <2>2, <2>6, <2>7, <2>8, Zenon
<1>4. CASE ~c.within
  <2>1. c.at - 1 \in 0 .. Len(L)
    <3>1. Len(L) \in Nat OBVIOUS
    <3>. QED BY <1>1, <1>2, <3>1
  <2>2. Joined(L, c.at - 1) \in Seq(Entries) BY <2>1, JoinedFacts, Zenon
  <2>. QED BY <1>2, <1>4, <2>2, Zenon DEF ReadBy
<1>. QED BY <1>3, <1>4

(* A sequence is one over its own elements. *)
LEMMA OwnElements ==
  ASSUME NEW Y, NEW s \in Seq(Y)
  PROVE  IsList(s)
<1>1. PICK n \in Nat : n = Len(s) /\ DOMAIN s = 1 .. n /\ s \in [1 .. n -> Y] OBVIOUS
<1>2. PICK Z : Z = {s[i] : i \in DOMAIN s} OBVIOUS
<1>3. s \in [1 .. n -> Z] BY <1>1, <1>2, Zenon
<1>4. s \in Seq(Z) BY <1>3
<1>. QED BY <1>2, <1>4, Zenon DEF IsList

(* The last call, and the calls below it. *)
LEMMA TopFacts ==
  ASSUME NEW s, IsList(s), s # <<>>
  PROVE  /\ Len(s) \in Nat /\ Len(s) > 0 /\ DOMAIN s = 1 .. Len(s) /\ Last(s) = s[Len(s)]
         /\ IsList(Front(s)) /\ Len(Front(s)) = Len(s) - 1
         /\ \A i \in 1 .. (Len(s) - 1) : Front(s)[i] = s[i]
<1>1. PICK Y : s \in Seq(Y) BY Zenon DEF IsList
<1>2. PICK n \in Nat : n = Len(s) /\ n > 0 /\ DOMAIN s = 1 .. n BY <1>1
<1>3. PICK f : f = SubSeq(s, 1, n - 1) OBVIOUS
<1>4. f \in Seq(Y) /\ Len(f) = n - 1 /\ \A i \in 1 .. (n - 1) : f[i] = s[i] BY <1>1, <1>2, <1>3
<1>5. Front(s) = f /\ Last(s) = s[n] BY <1>2, <1>3, Zenon DEF Front, Last
<1>6. IsList(f) BY <1>4, OwnElements, Zenon
<1>. QED BY <1>2, <1>4, <1>5, <1>6, Zenon

Replaces(new, s, c) == new = Front(s) \o <<c>>
Pushes(new, s, c, d) == new = Front(s) \o <<c, d>>

Replaced(new, s, c) ==
  /\ IsList(new) /\ DOMAIN new = 1 .. Len(s) /\ Len(new) = Len(s) /\ new # <<>>
  /\ new[Len(s)] = c /\ Last(new) = c /\ \A i \in 1 .. (Len(s) - 1) : new[i] = s[i]
Pushed(new, s, c, d) ==
  /\ IsList(new) /\ DOMAIN new = 1 .. (Len(s) + 1) /\ Len(new) = Len(s) + 1
  /\ new # <<>> /\ new[Len(s)] = c /\ new[Len(s) + 1] = d /\ Last(new) = d
  /\ \A i \in 1 .. (Len(s) - 1) : new[i] = s[i]

(* The calls when the last one goes on. *)
LEMMA ReplacedTop ==
  ASSUME NEW s, IsList(s), s # <<>>, NEW c, NEW new, Replaces(new, s, c)
  PROVE  Replaced(new, s, c)
<1>1. PICK Y, f : f \in Seq(Y) /\ f = Front(s) /\ Len(f) = Len(s) - 1 /\ \A i \in 1 .. (Len(s) - 1) : f[i] = s[i]
  <2>1. IsList(Front(s)) BY TopFacts, Zenon
  <2>2. PICK Y : Front(s) \in Seq(Y) BY <2>1, Zenon DEF IsList
  <2>. QED BY <2>2, TopFacts, Zenon
<1>2. PICK n \in Nat : n = Len(s) /\ n > 0 BY TopFacts
<1>3. f \in Seq(Y \cup {c}) /\ <<c>> \in Seq(Y \cup {c}) BY <1>1
<1>n. new = Front(s) \o <<c>> BY Zenon DEF Replaces
<1>4. new \in Seq(Y \cup {c}) BY <1>n, <1>1, <1>3
<1>5. Len(new) = n /\ new[n] = c BY <1>n, <1>1, <1>2
<1>6. \A i \in 1 .. (n - 1) : new[i] = s[i]
  <2>1. \A i \in 1 .. (n - 1) : new[i] = f[i] BY <1>n, <1>1, <1>2
  <2>. QED BY <1>1, <1>2, <2>1
<1>7. IsList(new) BY <1>4, OwnElements, Zenon
<1>8. DOMAIN new = 1 .. n BY <1>4, <1>5
<1>9. new # <<>> BY <1>2, <1>5
<1>10. Last(new) = c BY <1>5, Zenon DEF Last
<1>. QED BY <1>2, <1>5, <1>6, <1>7, <1>8, <1>9, <1>10, Zenon DEF Replaced

(* The calls when the last one opens another file. *)
LEMMA PushedTop ==
  ASSUME NEW s, IsList(s), s # <<>>, NEW c, NEW d, NEW new, Pushes(new, s, c, d)
  PROVE  Pushed(new, s, c, d)
<1>1. PICK Y, f : f \in Seq(Y) /\ f = Front(s) /\ Len(f) = Len(s) - 1 /\ \A i \in 1 .. (Len(s) - 1) : f[i] = s[i]
  <2>1. IsList(Front(s)) BY TopFacts, Zenon
  <2>2. PICK Y : Front(s) \in Seq(Y) BY <2>1, Zenon DEF IsList
  <2>. QED BY <2>2, TopFacts, Zenon
<1>2. PICK n \in Nat : n = Len(s) /\ n > 0 BY TopFacts
<1>3. f \in Seq(Y \cup {c, d}) /\ <<c, d>> \in Seq(Y \cup {c, d}) BY <1>1
<1>n. new = Front(s) \o <<c, d>> BY Zenon DEF Pushes
<1>4. new \in Seq(Y \cup {c, d}) BY <1>n, <1>1, <1>3
<1>5. Len(new) = n + 1 /\ new[n] = c /\ new[n + 1] = d
  <2>1. PICK g \in Seq({c, d}) : g = <<c, d>> /\ Len(g) = 2 /\ g[1] = c /\ g[2] = d
    <3>1. <<c, d>> \in Seq({c, d}) OBVIOUS
    <3>2. Len(<<c, d>>) = 2 /\ <<c, d>>[1] = c /\ <<c, d>>[2] = d OBVIOUS
    <3>. QED BY <3>1, <3>2, Zenon
  <2>2. new = f \o g BY <1>n, <1>1, <2>1, Zenon
  <2>3. Len(new) = n + 1 BY <1>1, <1>2, <2>1, <2>2
  <2>4. new[n] = g[1] /\ new[n + 1] = g[2] BY <1>1, <1>2, <2>1, <2>2
  <2>. QED BY <2>1, <2>3, <2>4, Zenon
<1>6. \A i \in 1 .. (n - 1) : new[i] = s[i]
  <2>1. \A i \in 1 .. (n - 1) : new[i] = f[i] BY <1>n, <1>1, <1>2
  <2>. QED BY <1>1, <1>2, <2>1
<1>7. IsList(new) BY <1>4, OwnElements, Zenon
<1>8. DOMAIN new = 1 .. (n + 1) BY <1>4, <1>5
<1>9. new # <<>> BY <1>2, <1>5
<1>10. Last(new) = d BY <1>5, Zenon DEF Last
<1>. QED BY <1>2, <1>5, <1>6, <1>7, <1>8, <1>9, <1>10, Zenon DEF Pushed

(* The calls stay in order when the last one goes on. *)
LEMMA ReplaceOK ==
  ASSUME NEW t, NEW dir, NEW calls, CallsOK(t, dir, calls), calls # <<>>,
         NEW c, c.file = calls[Len(calls)].file, CallOK(t, c, 0, Base(dir, calls, Len(calls))),
         NEW new, Replaces(new, calls, c)
  PROVE  /\ CallsOK(t, dir, new) /\ new[1].file = calls[1].file
         /\ Base(dir, new, Len(calls)) = Base(dir, calls, Len(calls))
<1>1. PICK n \in Nat : n = Len(calls) /\ n > 0 /\ n <= MaxOpen /\ DOMAIN calls = 1 .. n BY TopFacts DEF CallsOK
<1>2. /\ IsList(new) /\ DOMAIN new = 1 .. n /\ Len(new) = n
      /\ new[n] = c /\ \A i \in 1 .. (n - 1) : new[i] = calls[i]
  <2>1. IsList(calls) BY Zenon DEF CallsOK
  <2>2. Replaced(new, calls, c) BY <2>1, ReplacedTop, Zenon
  <2>. QED BY <1>1, <2>2, Zenon DEF Replaced
<1>3. \A i \in 1 .. n : new[i].file = calls[i].file
  <2>1. \A i \in 1 .. n : i \in 1 .. (n - 1) \/ i = n OBVIOUS
  <2>. QED BY <1>1, <1>2, <2>1, Zenon
<1>4. \A i \in 1 .. n : Base(dir, new, i) = Base(dir, calls, i)
  <2>1. \A i \in 1 .. n : i # 1 => i - 1 \in 1 .. n OBVIOUS
  <2>. QED BY <1>3, <2>1, Zenon DEF Base
<1>5. ASSUME NEW i \in 1 .. n PROVE CallOK(t, new[i], Busy(new, i), Base(dir, new, i))
  <2>0. Busy(new, i) = Busy(calls, i) BY <1>1, <1>2, Zenon DEF Busy
  <2>1. CASE i = n
    <3>1. Busy(new, i) = 0 BY <1>2, <2>1 DEF Busy
    <3>. QED BY <1>1, <1>2, <1>4, <2>1, <3>1, Zenon
  <2>2. CASE i # n
    <3>1. i \in 1 .. (n - 1) BY <2>2
    <3>2. CallOK(t, calls[i], Busy(calls, i), Base(dir, calls, i)) BY <1>1, Zenon DEF CallsOK
    <3>. QED BY <1>2, <1>4, <2>0, <3>1, <3>2, Zenon
  <2>. QED BY <2>1, <2>2
<1>6. CallsOK(t, dir, new) BY <1>1, <1>2, <1>5, Zenon DEF CallsOK
<1>7. 1 \in 1 .. n /\ n \in 1 .. n BY <1>1
<1>. QED BY <1>1, <1>3, <1>4, <1>6, <1>7, Zenon

(* The calls stay in order when the last one opens another file. *)
LEMMA PushOK ==
  ASSUME NEW t, NEW dir, NEW calls, CallsOK(t, dir, calls), calls # <<>>, Len(calls) < MaxOpen, MaxOpen \in Nat,
         NEW c, c.file = calls[Len(calls)].file, CallOK(t, c, 1, Base(dir, calls, Len(calls))),
         NEW d, CallOK(t, d, 0, c.file.dir),
         NEW new, Pushes(new, calls, c, d)
  PROVE  CallsOK(t, dir, new) /\ new[1].file = calls[1].file /\ Base(dir, new, Len(calls) + 1) = c.file.dir
<1>1. PICK n \in Nat : n = Len(calls) /\ n > 0 /\ n < MaxOpen /\ DOMAIN calls = 1 .. n BY TopFacts DEF CallsOK
<1>a. PICK m \in Nat : m = n + 1 /\ m - 1 = n /\ m <= MaxOpen /\ m # 1 BY <1>1
<1>2. /\ IsList(new) /\ DOMAIN new = 1 .. m /\ Len(new) = m
      /\ new[n] = c /\ new[m] = d /\ \A i \in 1 .. (n - 1) : new[i] = calls[i]
  <2>1. IsList(calls) BY Zenon DEF CallsOK
  <2>2. Pushed(new, calls, c, d) BY <2>1, PushedTop, Zenon
  <2>. QED BY <1>1, <1>a, <2>2, Zenon DEF Pushed
<1>3. \A i \in 1 .. n : new[i].file = calls[i].file
  <2>1. \A i \in 1 .. n : i \in 1 .. (n - 1) \/ i = n OBVIOUS
  <2>. QED BY <1>1, <1>2, <2>1, Zenon
<1>4. \A i \in 1 .. n : Base(dir, new, i) = Base(dir, calls, i)
  <2>1. \A i \in 1 .. n : i # 1 => i - 1 \in 1 .. n OBVIOUS
  <2>. QED BY <1>3, <2>1, Zenon DEF Base
<1>b. Base(dir, new, m) = c.file.dir BY <1>a, <1>2, Zenon DEF Base
<1>5. ASSUME NEW i \in 1 .. m PROVE CallOK(t, new[i], Busy(new, i), Base(dir, new, i))
  <2>0. CASE i = m
    <3>1. Busy(new, i) = 0 BY <1>2, <2>0 DEF Busy
    <3>. QED BY <1>b, <1>2, <2>0, <3>1, Zenon
  <2>1. CASE i = n
    <3>1. Busy(new, i) = 1 BY <1>a, <1>2, <2>1 DEF Busy
    <3>2. n \in 1 .. n BY <1>1
    <3>. QED BY <1>1, <1>2, <1>4, <2>1, <3>1, <3>2, Zenon
  <2>2. CASE i # n /\ i # m
    <3>1. i \in 1 .. (n - 1) /\ i \in 1 .. n BY <1>a, <2>2
    <3>2. CallOK(t, calls[i], Busy(calls, i), Base(dir, calls, i)) BY <1>1, <3>1, Zenon DEF CallsOK
    <3>3. Busy(new, i) = 1 /\ Busy(calls, i) = 1 BY <1>a, <1>1, <1>2, <3>1 DEF Busy
    <3>. QED BY <1>2, <1>4, <3>1, <3>2, <3>3, Zenon
  <2>. QED BY <2>0, <2>1, <2>2
<1>6. CallsOK(t, dir, new) BY <1>a, <1>2, <1>5, Zenon DEF CallsOK
<1>7. 1 \in 1 .. n BY <1>1
<1>. QED BY <1>1, <1>a, <1>3, <1>b, <1>6, <1>7, Zenon

(* The calls stay in order when the last one returns, to an include. *)
LEMMA PopOK ==
  ASSUME NEW t, NEW dir, NEW calls, CallsOK(t, dir, calls), calls # <<>>, Len(calls) # 1, MaxOpen \in Nat,
         NEW new, new = Front(calls)
  PROVE  /\ CallsOK(t, dir, new) /\ new # <<>> /\ new[1] = calls[1]
         /\ Last(new) = calls[Len(calls) - 1] /\ Last(new).within
         /\ Len(new) = Len(calls) - 1 /\ DOMAIN new = 1 .. (Len(calls) - 1)
         /\ Last(new).file.dir = Base(dir, calls, Len(calls))
<1>1. PICK n \in Nat : n = Len(calls) /\ n > 1 /\ n <= MaxOpen /\ DOMAIN calls = 1 .. n
  <2>1. PICK k \in Nat : k = Len(calls) /\ k > 0 /\ k <= MaxOpen /\ DOMAIN calls = 1 .. k BY TopFacts DEF CallsOK
  <2>2. k > 1 BY <2>1
  <2>. QED BY <2>1, <2>2
<1>a. PICK m \in Nat : m = n - 1 /\ m > 0 /\ m <= MaxOpen /\ m < n BY <1>1
<1>2. /\ IsList(new) /\ Len(new) = m /\ \A i \in 1 .. m : new[i] = calls[i]
  BY <1>1, <1>a, TopFacts, Zenon DEF CallsOK
<1>4. DOMAIN new = 1 .. m /\ new # <<>> BY <1>a, <1>2 DEF IsList
<1>5. ASSUME NEW i \in 1 .. m PROVE CallOK(t, new[i], Busy(new, i), Base(dir, new, i))
  <2>1. i \in 1 .. n /\ i < n /\ (i # 1 => i - 1 \in 1 .. m) BY <1>a
  <2>2. CallOK(t, calls[i], Busy(calls, i), Base(dir, calls, i)) BY <1>1, <2>1, Zenon DEF CallsOK
  <2>3. Busy(calls, i) = 1 BY <1>1, <2>1 DEF Busy
  <2>4. Base(dir, new, i) = Base(dir, calls, i) BY <1>2, <2>1, Zenon DEF Base
  <2>5. PICK b : b = Base(dir, calls, i) OBVIOUS
  <2>6. CallOK(t, calls[i], 1, b) BY <2>2, <2>3, <2>5, Zenon
  <2>7. CallOK(t, calls[i], Busy(new, i), b) BY <2>6, Zenon DEF CallOK
  <2>. QED BY <1>2, <2>4, <2>5, <2>7, Zenon
<1>6. CallsOK(t, dir, new) BY <1>a, <1>2, <1>4, <1>5, Zenon DEF CallsOK
<1>7. 1 \in 1 .. m /\ m \in 1 .. m /\ m \in 1 .. n BY <1>a
<1>8. Last(new) = calls[m] BY <1>2, <1>7, Zenon DEF Last
<1>9. calls[m].within
  <2>1. CallOK(t, calls[m], Busy(calls, m), Base(dir, calls, m)) BY <1>1, <1>7, Zenon DEF CallsOK
  <2>2. Busy(calls, m) = 1 BY <1>1, <1>a, Zenon DEF Busy
  <2>. QED BY <2>1, <2>2, Zenon DEF CallOK
<1>10. Base(dir, calls, n) = calls[m].file.dir
  <2>1. n # 1 BY <1>1
  <2>. QED BY <1>a, <2>1, Zenon DEF Base
<1>11. new[1] = calls[1] BY <1>2, <1>7, Zenon
<1>. QED BY <1>1, <1>a, <1>2, <1>4, <1>6, <1>8, <1>9, <1>10, <1>11, Zenon

Reads(t, calls) == [i \in DOMAIN calls |-> ReadBy(t, i, calls[i], Busy(calls, i))]
ReadBelow(t, calls, n) == Joined(Reads(t, calls), n)

(* What each call has read. *)
LEMMA ReadsFacts ==
  ASSUME NEW t \in ConfigTrees, NEW dir, NEW calls, CallsOK(t, dir, calls), CallsRead(t, calls)
  PROVE  /\ Reads(t, calls) \in Seq(Seq(Entries)) /\ Len(Reads(t, calls)) = Len(calls)
         /\ \A i \in 1 .. Len(calls) : Reads(t, calls)[i] = ReadBy(t, i, calls[i], Busy(calls, i))
         /\ Len(calls) \in 0 .. MaxOpen
<1>0. MaxOpen \in Nat BY ConfigAssumption
<1>1. PICK n \in Nat : n = Len(calls) /\ n <= MaxOpen /\ DOMAIN calls = 1 .. n BY DEF CallsOK, IsList
<1>2. ASSUME NEW i \in 1 .. n PROVE ReadBy(t, i, calls[i], Busy(calls, i)) \in Seq(Entries)
  <2>1. i \in 1 .. MaxOpen BY <1>0, <1>1
  <2>a. PICK busy \in {0, 1} : busy = Busy(calls, i) BY DEF Busy
  <2>b. PICK c : c = calls[i] OBVIOUS
  <2>c. PICK base : base = Base(dir, calls, i) OBVIOUS
  <2>2. c = calls[i] /\ busy = Busy(calls, i) /\ base = Base(dir, calls, i) BY <2>a, <2>b, <2>c
  <2>3. CallOK(t, c, busy, base) /\ ReadingOK(t, c, busy) BY <1>1, <2>2, Zenon DEF CallsOK, CallsRead
  <2>4. ReadBy(t, i, c, busy) \in Seq(Entries) BY <2>1, <2>3, ReadByType, Zenon
  <2>. QED BY <2>2, <2>4, Zenon
<1>3. PICK r : r = Reads(t, calls) OBVIOUS
<1>4. r = [i \in 1 .. n |-> ReadBy(t, i, calls[i], Busy(calls, i))] BY <1>1, <1>3, Zenon DEF Reads
<1>5. r \in [1 .. n -> Seq(Entries)] BY <1>2, <1>4, Zenon
<1>6. r \in Seq(Seq(Entries)) /\ Len(r) = n BY <1>5
<1>7. \A i \in 1 .. n : r[i] = ReadBy(t, i, calls[i], Busy(calls, i)) BY <1>4, Zenon
<1>8. n \in 0 .. MaxOpen BY <1>0, <1>1
<1>. QED BY <1>1, <1>3, <1>6, <1>7, <1>8, Zenon

(* What the first n calls have read, one call at a time. *)
LEMMA ReadTop ==
  ASSUME NEW t \in ConfigTrees, NEW dir, NEW calls, CallsOK(t, dir, calls), CallsRead(t, calls),
         NEW n \in 1 .. Len(calls)
  PROVE  /\ ReadBelow(t, calls, n) = ReadBelow(t, calls, n - 1) \o ReadBy(t, n, calls[n], Busy(calls, n))
         /\ ReadBelow(t, calls, n) \in Seq(Entries) /\ ReadBelow(t, calls, n - 1) \in Seq(Entries)
         /\ ReadBy(t, n, calls[n], Busy(calls, n)) \in Seq(Entries)
<1>1. PICK r \in Seq(Seq(Entries)) : r = Reads(t, calls) /\ Len(r) = Len(calls)
  BY ReadsFacts, Zenon
<1>2. n \in 1 .. Len(r) /\ n \in 0 .. Len(r) /\ n - 1 \in 0 .. Len(r)
  <2>1. Len(r) \in Nat OBVIOUS
  <2>. QED BY <1>1, <2>1
<1>3. Joined(r, n) = Joined(r, n - 1) \o r[n] /\ Joined(r, n) \in Seq(Entries) /\ Joined(r, n - 1) \in Seq(Entries)
  BY <1>2, JoinedFacts, Zenon
<1>4. r[n] = ReadBy(t, n, calls[n], Busy(calls, n)) BY <1>1, ReadsFacts, Zenon
<1>5. r[n] \in Seq(Entries) BY <1>2
<1>. QED BY <1>1, <1>3, <1>4, <1>5, Zenon DEF ReadBelow

Alike(t, dir, calls, other, n) ==
  /\ CallsOK(t, dir, calls) /\ CallsRead(t, calls) /\ CallsOK(t, dir, other) /\ CallsRead(t, other)
  /\ n < Len(calls) /\ n < Len(other) /\ \A i \in 1 .. n : calls[i] = other[i]
(* Calls below the last one have read what they had. *)
LEMMA ReadSame ==
  ASSUME NEW t \in ConfigTrees, NEW dir, NEW calls, NEW other, NEW n \in Nat, Alike(t, dir, calls, other, n)
  PROVE  ReadBelow(t, calls, n) = ReadBelow(t, other, n)
<1>0. /\ CallsOK(t, dir, calls) /\ CallsRead(t, calls) /\ CallsOK(t, dir, other) /\ CallsRead(t, other)
      /\ n < Len(calls) /\ n < Len(other) /\ \A i \in 1 .. n : calls[i] = other[i]
  BY Zenon DEF Alike
<1>1. PICK r \in Seq(Seq(Entries)) : r = Reads(t, calls) /\ Len(r) = Len(calls) BY <1>0, ReadsFacts, Zenon
<1>2. PICK q \in Seq(Seq(Entries)) : q = Reads(t, other) /\ Len(q) = Len(other) BY <1>0, ReadsFacts, Zenon
<1>3. n <= Len(r) /\ n <= Len(q)
  <2>1. Len(r) \in Nat /\ Len(q) \in Nat OBVIOUS
  <2>. QED BY <1>0, <1>1, <1>2, <2>1
<1>r. \A i \in 1 .. Len(calls) : r[i] = ReadBy(t, i, calls[i], Busy(calls, i)) BY <1>0, <1>1, ReadsFacts, Zenon
<1>q. \A i \in 1 .. Len(other) : q[i] = ReadBy(t, i, other[i], Busy(other, i)) BY <1>0, <1>2, ReadsFacts, Zenon
<1>4. ASSUME NEW i \in 1 .. n PROVE r[i] = q[i]
  <2>0. Len(calls) \in Nat /\ Len(other) \in Nat BY <1>1, <1>2
  <2>1. i \in 1 .. Len(calls) /\ i \in 1 .. Len(other) /\ i < Len(calls) /\ i < Len(other) BY <1>0, <2>0
  <2>2. Busy(calls, i) = 1 /\ Busy(other, i) = 1 BY <2>1, Zenon DEF Busy
  <2>3. r[i] = ReadBy(t, i, calls[i], 1) BY <1>r, <2>1, <2>2, Zenon
  <2>4. q[i] = ReadBy(t, i, other[i], 1) BY <1>q, <2>1, <2>2, Zenon
  <2>5. calls[i] = other[i] BY <1>0, Zenon
  <2>. QED BY <2>3, <2>4, <2>5, Zenon
<1>5. Joined(r, n) = Joined(q, n) BY <1>3, <1>4, JoinedSame
<1>. QED BY <1>1, <1>2, <1>5, Zenon DEF ReadBelow

(* What has been read when the last call goes on. *)
LEMMA ReplaceRead ==
  ASSUME NEW t \in ConfigTrees, NEW dir, NEW calls, CallsOK(t, dir, calls), calls # <<>>, CallsRead(t, calls),
         NEW c, c.file = calls[Len(calls)].file, CallOK(t, c, 0, Base(dir, calls, Len(calls))), ReadingOK(t, c, 0),
         NEW new, Replaces(new, calls, c)
  PROVE  /\ CallsRead(t, new)
         /\ ReadSoFar(t, new) = ReadBelow(t, calls, Len(calls) - 1) \o ReadBy(t, Len(calls), c, 0)
<1>0. CallsOK(t, dir, new) BY ReplaceOK, Zenon
<1>1. PICK n \in Nat : n = Len(calls) /\ n > 0 /\ n <= MaxOpen /\ DOMAIN calls = 1 .. n BY TopFacts DEF CallsOK
<1>2. /\ IsList(new) /\ DOMAIN new = 1 .. n /\ Len(new) = n
      /\ new[n] = c /\ \A i \in 1 .. (n - 1) : new[i] = calls[i]
  <2>1. IsList(calls) BY Zenon DEF CallsOK
  <2>2. Replaced(new, calls, c) BY <2>1, ReplacedTop, Zenon
  <2>. QED BY <1>1, <2>2, Zenon DEF Replaced
<1>3. ASSUME NEW i \in 1 .. n PROVE ReadingOK(t, new[i], Busy(new, i))
  <2>0. Busy(new, i) = Busy(calls, i) BY <1>1, <1>2, Zenon DEF Busy
  <2>1. CASE i = n
    <3>1. Busy(new, i) = 0 BY <1>2, <2>1 DEF Busy
    <3>. QED BY <1>2, <2>1, <3>1, Zenon
  <2>2. CASE i # n
    <3>1. i \in 1 .. (n - 1) BY <2>2
    <3>2. ReadingOK(t, calls[i], Busy(calls, i)) BY <1>1, Zenon DEF CallsRead
    <3>. QED BY <1>2, <2>0, <3>1, <3>2, Zenon
  <2>. QED BY <2>1, <2>2
<1>4. ASSUME NEW i \in 1 .. (n - 1)
      PROVE  new[i + 1].file = Resolve(new[i].file.dir, Names(t, new[i])[Opened(t, new[i])])
  <2>1. calls[i + 1].file = Resolve(calls[i].file.dir, Names(t, calls[i])[Opened(t, calls[i])])
    BY <1>1, Zenon DEF CallsRead
  <2>2. i + 1 \in 1 .. (n - 1) \/ i + 1 = n OBVIOUS
  <2>3. new[i + 1].file = calls[i + 1].file BY <1>1, <1>2, <2>2, Zenon
  <2>4. new[i] = calls[i] BY <1>2, Zenon
  <2>. QED BY <2>1, <2>3, <2>4, Zenon
<1>5. CallsRead(t, new) BY <1>2, <1>3, <1>4, Zenon DEF CallsRead
<1>6. ReadSoFar(t, new) = ReadBelow(t, new, n) BY <1>2, Zenon DEF ReadSoFar, ReadBelow, Reads
<1>7. n \in 1 .. Len(new) /\ Busy(new, n) = 0 BY <1>1, <1>2 DEF Busy
<1>8. ReadBelow(t, new, n) = ReadBelow(t, new, n - 1) \o ReadBy(t, n, c, 0)
  BY <1>0, <1>2, <1>5, <1>7, ReadTop, ZenonT(60)
<1>9. ReadBelow(t, calls, n - 1) = ReadBelow(t, new, n - 1)
  <2>a. PICK m \in Nat : m = n - 1 /\ m < n BY <1>1
  <2>b. n <= Len(new) BY <1>1, <1>2
  <2>c. m < Len(new) BY <2>a, <2>b, <1>2
  <2>1. m = n - 1 /\ m < Len(calls) /\ m < Len(new) BY <1>1, <2>a, <2>c, Zenon
  <2>2. Alike(t, dir, calls, new, m) BY <1>0, <1>2, <1>5, <2>1, Zenon DEF Alike
  <2>3. ReadBelow(t, calls, m) = ReadBelow(t, new, m) BY <2>2, ReadSame, ZenonT(60)
  <2>. QED BY <2>1, <2>3, Zenon
<1>. QED BY <1>1, <1>5, <1>6, <1>8, <1>9, Zenon

(* Opening a file reads nothing. *)
LEMMA PushRead ==
  ASSUME NEW t \in ConfigTrees, NEW dir, NEW calls, CallsOK(t, dir, calls), calls # <<>>, CallsRead(t, calls),
         Len(calls) < MaxOpen, MaxOpen \in Nat,
         NEW c, c.file = calls[Len(calls)].file, CallOK(t, c, 1, Base(dir, calls, Len(calls))), ReadingOK(t, c, 1),
         ReadBy(t, Len(calls), c, 1) = ReadBy(t, Len(calls), calls[Len(calls)], 0),
         NEW d, CallOK(t, d, 0, c.file.dir), ReadingOK(t, d, 0), ReadBy(t, Len(calls) + 1, d, 0) = <<>>,
         d.file = Resolve(c.file.dir, Names(t, c)[Opened(t, c)]),
         NEW new, Pushes(new, calls, c, d)
  PROVE  CallsRead(t, new) /\ ReadSoFar(t, new) = ReadSoFar(t, calls)
<1>0. CallsOK(t, dir, new) BY PushOK, Zenon
<1>1. PICK n \in Nat : n = Len(calls) /\ n > 0 /\ n < MaxOpen /\ DOMAIN calls = 1 .. n BY TopFacts DEF CallsOK
<1>a. PICK m \in Nat : m = n + 1 /\ m - 1 = n /\ m <= MaxOpen /\ m # 1 BY <1>1
<1>2. /\ IsList(new) /\ DOMAIN new = 1 .. m /\ Len(new) = m
      /\ new[n] = c /\ new[m] = d /\ \A i \in 1 .. (n - 1) : new[i] = calls[i]
  <2>1. IsList(calls) BY Zenon DEF CallsOK
  <2>2. Pushed(new, calls, c, d) BY <2>1, PushedTop, Zenon
  <2>. QED BY <1>1, <1>a, <2>2, Zenon DEF Pushed
<1>3. ASSUME NEW i \in 1 .. m PROVE ReadingOK(t, new[i], Busy(new, i))
  <2>0. CASE i = m
    <3>1. Busy(new, i) = 0 BY <1>2, <2>0 DEF Busy
    <3>. QED BY <1>2, <2>0, <3>1, Zenon
  <2>1. CASE i = n
    <3>1. Busy(new, i) = 1 BY <1>a, <1>2, <2>1 DEF Busy
    <3>. QED BY <1>2, <2>1, <3>1, Zenon
  <2>2. CASE i # n /\ i # m
    <3>1. i \in 1 .. (n - 1) /\ i \in 1 .. n BY <1>a, <2>2
    <3>2. ReadingOK(t, calls[i], Busy(calls, i)) BY <1>1, <3>1, Zenon DEF CallsRead
    <3>3. Busy(new, i) = 1 /\ Busy(calls, i) = 1 BY <1>a, <1>1, <1>2, <3>1 DEF Busy
    <3>. QED BY <1>2, <3>1, <3>2, <3>3, Zenon
  <2>. QED BY <2>0, <2>1, <2>2
<1>4. ASSUME NEW i \in 1 .. (m - 1)
      PROVE  new[i + 1].file = Resolve(new[i].file.dir, Names(t, new[i])[Opened(t, new[i])])
  <2>1. CASE i = n
    BY <1>a, <1>2, <2>1, Zenon
  <2>2. CASE i # n
    <3>b. i \in 1 .. n BY <1>a, Zenon
    <3>a. i \in 1 .. (n - 1) BY <3>b, <2>2
    <3>0. i \in 1 .. (n - 1) /\ i \in 1 .. (Len(calls) - 1) BY <3>a, <1>1, Zenon
    <3>1. calls[i + 1].file = Resolve(calls[i].file.dir, Names(t, calls[i])[Opened(t, calls[i])])
      BY <3>0, Zenon DEF CallsRead
    <3>2. i + 1 \in 1 .. (n - 1) \/ i + 1 = n BY <3>0
    <3>3. new[i + 1].file = calls[i + 1].file BY <1>1, <1>2, <3>2, Zenon
    <3>4. new[i] = calls[i] BY <1>2, <3>0, Zenon
    <3>. QED BY <3>1, <3>3, <3>4, Zenon
  <2>. QED BY <2>1, <2>2
<1>5. CallsRead(t, new) BY <1>2, <1>3, <1>4, Zenon DEF CallsRead
<1>6. /\ ReadSoFar(t, new) = ReadBelow(t, new, m)
      /\ ReadSoFar(t, calls) = ReadBelow(t, calls, n)
  BY <1>1, <1>2, Zenon DEF ReadSoFar, ReadBelow, Reads
<1>7. /\ m \in 1 .. Len(new) /\ Busy(new, m) = 0
      /\ n \in 1 .. Len(new) /\ Busy(new, n) = 1
      /\ n \in 1 .. Len(calls) /\ Busy(calls, n) = 0
  BY <1>1, <1>a, <1>2 DEF Busy
<1>8. /\ ReadBelow(t, new, m) = ReadBelow(t, new, n) \o ReadBy(t, m, d, 0)
      /\ ReadBelow(t, new, n) \in Seq(Entries)
  <2>1. /\ ReadBelow(t, new, m) = ReadBelow(t, new, m - 1) \o ReadBy(t, m, new[m], Busy(new, m))
        /\ ReadBelow(t, new, m - 1) \in Seq(Entries)
    BY <1>0, <1>5, <1>7, ReadTop, Zenon
  <2>. QED BY <1>a, <1>2, <1>7, <2>1, Zenon
<1>b. \A s \in Seq(Entries) : s \o <<>> = s OBVIOUS
<1>c. ReadBelow(t, new, m) = ReadBelow(t, new, n) BY <1>1, <1>a, <1>8, <1>b, Zenon
<1>9. ReadBelow(t, new, n) = ReadBelow(t, new, n - 1) \o ReadBy(t, n, c, 1)
  BY <1>0, <1>2, <1>5, <1>7, ReadTop, ZenonT(60)
<1>10. ReadBelow(t, calls, n) = ReadBelow(t, calls, n - 1) \o ReadBy(t, n, calls[n], 0)
  BY <1>7, ReadTop, Zenon
<1>11. ReadBelow(t, calls, n - 1) = ReadBelow(t, new, n - 1)
  <2>a. PICK k \in Nat : k = n - 1 /\ k < n BY <1>1
  <2>b. n <= Len(new) BY <1>1, <1>a, <1>2
  <2>c. k < Len(new) BY <2>a, <2>b, <1>2
  <2>1. k = n - 1 /\ k < Len(calls) /\ k < Len(new) BY <1>1, <2>a, <2>c, Zenon
  <2>2. Alike(t, dir, calls, new, k) BY <1>0, <1>2, <1>5, <2>1, Zenon DEF Alike
  <2>3. ReadBelow(t, calls, k) = ReadBelow(t, new, k) BY <2>2, ReadSame
  <2>. QED BY <2>1, <2>3, Zenon
<1>. QED BY <1>1, <1>5, <1>6, <1>c, <1>9, <1>10, <1>11, Zenon

(* A call that is at the end of its file has read what the file says. *)
LEMMA CompleteFile ==
  ASSUME NEW t \in ConfigTrees, NEW i \in 1 .. MaxOpen, NEW c, c.file \in DOMAIN t, ~c.within,
         c.at = Len(t[c.file]) + 1
  PROVE  ReadBy(t, i, c, 0) = Says(t)[MaxOpen - i][c.file]
<1>1. Len(t[c.file]) \in Nat BY TreeFacts, Zenon
<1>2. c.at - 1 = Len(t[c.file]) BY <1>1
<1>3. ReadBy(t, i, c, 0) = Joined(LinesSay(t, Above(t, i), c.file), Len(t[c.file])) BY <1>2, Zenon DEF ReadBy
<1>. QED BY <1>3, AboveFacts, Zenon

(* The include of a call goes on with the next of its files. *)
LEMMA IncludedNext ==
  ASSUME NEW t \in ConfigTrees, NEW i \in 1 .. MaxOpen, i > 1, NEW c, NEW base, CallOK(t, c, 1, base), ReadingOK(t, c, 1),
         NEW file \in DOMAIN t, file = Resolve(c.file.dir, Names(t, c)[Opened(t, c)])
  PROVE  ReadBy(t, i - 1, c, 0) = ReadBy(t, i - 1, c, 1) \o Says(t)[MaxOpen - i][file]
<1>0. MaxOpen \in Nat BY ConfigAssumption
<1>1. PICK j \in 1 .. MaxOpen : j = i - 1 BY <1>0
<1>2. c.within /\ c.file \in DOMAIN t /\ c.at \in 1..(Len(t[c.file]) + 1) /\ c.at > 1 BY Zenon DEF CallOK
<1>a. PICK above : above = Above(t, j) OBVIOUS
<1>7. TellsAll(above) BY <1>a, AboveFacts, Zenon
<1>b. PICK file0 \in DOMAIN t : file0 = c.file BY <1>2
<1>c. /\ LinesSay(t, above, file0) \in Seq(Seq(Entries)) /\ Len(LinesSay(t, above, file0)) = Len(t[file0])
  BY <1>7, LinesSayFacts, Zenon
<1>3. PICK L \in Seq(Seq(Entries)) : L = LinesSay(t, Above(t, j), c.file) /\ Len(L) = Len(t[c.file])
  BY <1>a, <1>b, <1>c, Zenon
<1>4. c.at - 2 \in 0 .. Len(L)
  <2>1. Len(L) \in Nat OBVIOUS
  <2>. QED BY <1>2, <1>3, <2>1
<1>5. PICK a \in Seq(Entries) : a = Joined(L, c.at - 2) BY <1>4, JoinedFacts, Zenon
<1>6. PICK Y, names : names = Names(t, c) /\ names \in Seq(Y) BY MatchingFacts, Zenon DEF Names
<1>d. PICK fdir : fdir = c.file.dir OBVIOUS
<1>8. PICK inc : inc = Included(above, fdir, names) OBVIOUS
<1>9. /\ inc \in Seq(Seq(Entries)) /\ Len(inc) = Len(names)
      /\ \A k \in 1 .. Len(names) : inc[k] = Told(above, Resolve(fdir, names[k]))
  <2>1. names \in Seq(Y) BY <1>6
  <2>2. /\ Included(above, fdir, names) \in Seq(Seq(Entries)) /\ Len(Included(above, fdir, names)) = Len(names)
        /\ \A k \in 1 .. Len(names) : Included(above, fdir, names)[k] = Told(above, Resolve(fdir, names[k]))
    BY <1>7, <2>1, IncludedFacts, Zenon
  <2>. QED BY <1>8, <2>2, Zenon
<1>10. PICK k : k = Opened(t, c) OBVIOUS
<1>11. k \in 1 .. Len(names) BY <1>2, <1>6, <1>10, Zenon DEF ReadingOK
<1>12. k \in 1 .. Len(inc) /\ k - 1 \in 0 .. Len(inc) /\ k - 0 = k
  <2>1. Len(inc) \in Nat BY <1>9
  <2>. QED BY <1>9, <1>11, <2>1
<1>13. /\ Joined(inc, k) = Joined(inc, k - 1) \o inc[k] /\ Joined(inc, k - 1) \in Seq(Entries)
       /\ inc[k] \in Seq(Entries)
  <2>1. Joined(inc, k) = Joined(inc, k - 1) \o inc[k] /\ Joined(inc, k - 1) \in Seq(Entries)
    BY <1>9, <1>12, JoinedFacts, Zenon
  <2>. QED BY <1>9, <1>12, <2>1
<1>14. inc[k] = Says(t)[MaxOpen - i][file]
  <2>1. inc[k] = Told(Above(t, j), file) BY <1>a, <1>d, <1>6, <1>9, <1>10, <1>11, Zenon
  <2>2. Told(Above(t, i - 1), file) = Says(t)[MaxOpen - i][file] BY AboveFacts, Zenon
  <2>. QED BY <1>1, <2>1, <2>2, Zenon
<1>15. ReadBy(t, j, c, 0) = a \o Joined(inc, k)
  BY <1>a, <1>d, <1>2, <1>3, <1>5, <1>6, <1>8, <1>10, <1>12, Zenon DEF ReadBy
<1>16. ReadBy(t, j, c, 1) = a \o Joined(inc, k - 1)
  BY <1>a, <1>d, <1>2, <1>3, <1>5, <1>6, <1>8, <1>10, Zenon DEF ReadBy
<1>17. \A x, y, z \in Seq(Entries) : x \o (y \o z) = (x \o y) \o z BY SMTT(30)
<1>18. a \o (Joined(inc, k - 1) \o inc[k]) = (a \o Joined(inc, k - 1)) \o inc[k] BY <1>13, <1>17, Zenon
<1>19. ReadBy(t, j, c, 0) = ReadBy(t, j, c, 1) \o inc[k] BY <1>13, <1>15, <1>16, <1>18, Zenon
<1>. QED BY <1>1, <1>14, <1>19, Zenon

(* Returning from an included file reads nothing: its entries become those of the include. *)
LEMMA PopRead ==
  ASSUME NEW t \in ConfigTrees, NEW dir, NEW calls, CallsOK(t, dir, calls), calls # <<>>, CallsRead(t, calls),
         Len(calls) # 1, ~calls[Len(calls)].within,
         calls[Len(calls)].at = Len(t[calls[Len(calls)].file]) + 1
  PROVE  CallsRead(t, Front(calls)) /\ ReadSoFar(t, Front(calls)) = ReadSoFar(t, calls)
<1>b. MaxOpen \in Nat BY ConfigAssumption
<1>0. PICK new : new = Front(calls) OBVIOUS
<1>1. PICK n \in Nat : n = Len(calls) /\ n > 1 /\ n <= MaxOpen /\ DOMAIN calls = 1 .. n
  <2>1. PICK k \in Nat : k = Len(calls) /\ k > 0 /\ k <= MaxOpen /\ DOMAIN calls = 1 .. k BY TopFacts DEF CallsOK
  <2>2. k > 1 BY <2>1
  <2>. QED BY <2>1, <2>2
<1>a. PICK m \in Nat : m = n - 1 /\ m > 0 /\ m < n /\ m + 1 = n /\ m \in 1 .. n /\ m \in 1 .. m /\ n \in 1 .. n
  BY <1>1
<1>2. CallsOK(t, dir, new) /\ Len(new) = m /\ DOMAIN new = 1 .. m
  BY <1>b, <1>0, <1>1, <1>a, PopOK, ZenonT(60)
<1>3. \A i \in 1 .. m : new[i] = calls[i] BY <1>0, <1>1, <1>a, TopFacts, Zenon DEF CallsOK
<1>4. ASSUME NEW i \in 1 .. m PROVE ReadingOK(t, new[i], Busy(new, i))
  <2>1. i \in 1 .. n /\ i < n BY <1>a
  <2>2. Busy(calls, i) = 1 BY <1>1, <2>1, Zenon DEF Busy
  <2>3. ReadingOK(t, calls[i], 1) BY <1>1, <2>1, <2>2, Zenon DEF CallsRead
  <2>4. PICK c : c = calls[i] OBVIOUS
  <2>5. ReadingOK(t, c, 0)
    <3>1. ASSUME c.within PROVE Opened(t, c) \in 0 .. Len(Names(t, c))
      <4>1. Opened(t, c) \in 1 .. Len(Names(t, c)) BY <2>3, <2>4, <3>1, Zenon DEF ReadingOK
      <4>2. PICK Y : Names(t, c) \in Seq(Y) BY MatchingFacts, Zenon DEF Names
      <4>3. Len(Names(t, c)) \in Nat BY <4>2
      <4>. QED BY <4>1, <4>3
    <3>. QED BY <2>3, <2>4, <3>1, Zenon DEF ReadingOK
  <2>6. Busy(new, i) \in {0, 1} BY DEF Busy
  <2>7. CASE Busy(new, i) = 0 BY <1>3, <2>4, <2>5, <2>7, Zenon
  <2>8. CASE Busy(new, i) = 1 BY <1>3, <2>3, <2>8, Zenon
  <2>. QED BY <2>6, <2>7, <2>8
<1>5. ASSUME NEW i \in 1 .. (m - 1)
      PROVE  new[i + 1].file = Resolve(new[i].file.dir, Names(t, new[i])[Opened(t, new[i])])
  <2>1. i \in 1 .. m /\ i + 1 \in 1 .. m /\ i \in 1 .. (n - 1) BY <1>a
  <2>2. calls[i + 1].file = Resolve(calls[i].file.dir, Names(t, calls[i])[Opened(t, calls[i])])
    BY <1>1, <2>1, Zenon DEF CallsRead
  <2>. QED BY <1>3, <2>1, <2>2, Zenon
<1>6. CallsRead(t, new) BY <1>2, <1>4, <1>5, Zenon DEF CallsRead
<1>7. ReadSoFar(t, new) = ReadBelow(t, new, m) /\ ReadSoFar(t, calls) = ReadBelow(t, calls, n)
  BY <1>1, <1>2, Zenon DEF ReadSoFar, ReadBelow, Reads
<1>8. /\ Busy(calls, n) = 0 /\ Busy(calls, m) = 1 /\ Busy(new, m) = 0
  BY <1>1, <1>a, <1>2 DEF Busy
<1>9. /\ ReadBelow(t, calls, n) = ReadBelow(t, calls, m) \o ReadBy(t, n, calls[n], 0)
      /\ ReadBy(t, n, calls[n], 0) \in Seq(Entries)
  <2>1. n \in 1 .. Len(calls) BY <1>1, <1>a, Zenon
  <2>2. /\ ReadBelow(t, calls, n) = ReadBelow(t, calls, n - 1) \o ReadBy(t, n, calls[n], Busy(calls, n))
        /\ ReadBy(t, n, calls[n], Busy(calls, n)) \in Seq(Entries)
    BY <2>1, ReadTop, Zenon
  <2>. QED BY <1>a, <1>8, <2>2, Zenon
<1>10. /\ ReadBelow(t, calls, m) = ReadBelow(t, calls, m - 1) \o ReadBy(t, m, calls[m], 1)
       /\ ReadBelow(t, calls, m - 1) \in Seq(Entries) /\ ReadBy(t, m, calls[m], 1) \in Seq(Entries)
  <2>1. m \in 1 .. Len(calls) BY <1>1, <1>a, Zenon
  <2>2. /\ ReadBelow(t, calls, m) = ReadBelow(t, calls, m - 1) \o ReadBy(t, m, calls[m], Busy(calls, m))
        /\ ReadBelow(t, calls, m - 1) \in Seq(Entries) /\ ReadBy(t, m, calls[m], Busy(calls, m)) \in Seq(Entries)
    BY <2>1, ReadTop, Zenon
  <2>. QED BY <1>8, <2>2, Zenon
<1>11. ReadBelow(t, new, m) = ReadBelow(t, new, m - 1) \o ReadBy(t, m, calls[m], 0)
  <2>1. m \in 1 .. Len(new) BY <1>2, <1>a, Zenon
  <2>2. ReadBelow(t, new, m) = ReadBelow(t, new, m - 1) \o ReadBy(t, m, new[m], Busy(new, m))
    BY <1>2, <1>6, <2>1, ReadTop, Zenon
  <2>. QED BY <1>3, <1>8, <1>a, <2>2, Zenon
<1>12. ReadBelow(t, calls, m - 1) = ReadBelow(t, new, m - 1)
  <2>a. PICK k \in Nat : k = m - 1 /\ k < n /\ k < m BY <1>a
  <2>b. \A i \in 1 .. k : i \in 1 .. m BY <2>a, <1>a
  <2>1. k < Len(calls) /\ k < Len(new) BY <1>1, <1>2, <2>a, Zenon
  <2>2. Alike(t, dir, calls, new, k) BY <1>2, <1>3, <1>6, <2>b, <2>1, Zenon DEF Alike
  <2>3. ReadBelow(t, calls, k) = ReadBelow(t, new, k) BY <2>2, ReadSame
  <2>. QED BY <2>a, <2>3, Zenon
<1>13. ReadBy(t, n, calls[n], 0) = Says(t)[MaxOpen - n][calls[n].file] /\ calls[n].file \in DOMAIN t
  <2>1. n \in 1 .. MaxOpen BY <1>1, <1>b
  <2>2. calls[n].file \in DOMAIN t BY <1>1, <1>a, Zenon DEF CallsOK, CallOK
  <2>. QED BY <1>1, <2>1, <2>2, CompleteFile, Zenon
<1>14. ReadBy(t, m, calls[m], 0) = ReadBy(t, m, calls[m], 1) \o Says(t)[MaxOpen - n][calls[n].file]
  <2>1. n \in 1 .. MaxOpen BY <1>1, <1>b
  <2>2. PICK c : c = calls[m] OBVIOUS
  <2>3. PICK base : base = Base(dir, calls, m) OBVIOUS
  <2>4. CallOK(t, c, 1, base) /\ ReadingOK(t, c, 1) BY <1>1, <1>a, <1>8, <2>2, <2>3, Zenon DEF CallsOK, CallsRead
  <2>5. calls[n].file = Resolve(c.file.dir, Names(t, c)[Opened(t, c)])
    <3>1. m \in 1 .. (Len(calls) - 1) BY <1>1, <1>a, Zenon
    <3>. QED BY <1>a, <2>2, <3>1, Zenon DEF CallsRead
  <2>6. PICK file \in DOMAIN t : file = calls[n].file BY <1>13
  <2>7. file = Resolve(c.file.dir, Names(t, c)[Opened(t, c)]) BY <2>5, <2>6, Zenon
  <2>8. ReadBy(t, n - 1, c, 0) = ReadBy(t, n - 1, c, 1) \o Says(t)[MaxOpen - n][file]
    BY <1>1, <2>1, <2>4, <2>7, IncludedNext, Zenon
  <2>. QED BY <1>a, <2>2, <2>6, <2>8, Zenon
<1>15. \A x, y, z \in Seq(Entries) : x \o (y \o z) = (x \o y) \o z OBVIOUS
<1>16. PICK x \in Seq(Entries) : x = ReadBelow(t, calls, m - 1) BY <1>10, Zenon
<1>17. PICK y \in Seq(Entries) : y = ReadBy(t, m, calls[m], 1) BY <1>10, Zenon
<1>18. PICK z \in Seq(Entries) : z = ReadBy(t, n, calls[n], 0) BY <1>9, Zenon
<1>19. ReadBelow(t, calls, n) = (x \o y) \o z BY <1>9, <1>10, <1>16, <1>17, <1>18, Zenon
<1>20. ReadBelow(t, new, m) = x \o (y \o z) BY <1>11, <1>12, <1>13, <1>14, <1>16, <1>17, <1>18, Zenon
<1>. QED BY <1>0, <1>6, <1>7, <1>15, <1>19, <1>20, Zenon

(* What a file says up to a line, one line at a time. *)
LEMMA ReadLine ==
  ASSUME NEW t \in ConfigTrees, NEW i \in 1 .. MaxOpen, NEW file \in DOMAIN t, NEW n \in 1 .. Len(t[file])
  PROVE  /\ Joined(LinesSay(t, Above(t, i), file), n)
              = Joined(LinesSay(t, Above(t, i), file), n - 1) \o LineSays(t, Above(t, i), file, n)
         /\ Joined(LinesSay(t, Above(t, i), file), n - 1) \in Seq(Entries)
         /\ LineSays(t, Above(t, i), file, n) \in Seq(Entries)
<1>1. PICK above : above = Above(t, i) OBVIOUS
<1>2. TellsAll(above) BY <1>1, AboveFacts, Zenon
<1>3. PICK L : L = LinesSay(t, above, file) OBVIOUS
<1>4. L \in Seq(Seq(Entries)) /\ Len(L) = Len(t[file]) /\ L[n] = LineSays(t, above, file, n)
  BY <1>2, <1>3, LinesSayFacts, Zenon
<1>5. n \in 1 .. Len(L) /\ n - 1 \in 0 .. Len(L)
  <2>1. Len(L) \in Nat BY <1>4
  <2>. QED BY <1>4, <2>1
<1>6. Joined(L, n) = Joined(L, n - 1) \o L[n] /\ Joined(L, n - 1) \in Seq(Entries)
  BY <1>4, <1>5, JoinedFacts, Zenon
<1>7. L[n] \in Seq(Entries) BY <1>4, <1>5
<1>. QED BY <1>1, <1>3, <1>4, <1>6, <1>7, Zenon

(* What the invariant says of the running call. *)
LEMMA Top ==
  ASSUME ConfigInv, frames # <<>>
  PROVE  /\ Len(frames) \in 1 .. MaxOpen /\ DOMAIN frames = 1 .. Len(frames)
         /\ Running = frames[Len(frames)] /\ IsList(frames)
         /\ CallOK(tree, Running, 0, Base(asked.dir, frames, Len(frames)))
         /\ host = "posix" => /\ ReadingOK(tree, Running, 0) /\ CallsRead(tree, frames)
                              /\ options = Over(<< >>, ReadBelow(tree, frames, Len(frames) - 1)
                                                      \o ReadBy(tree, Len(frames), Running, 0))
                              /\ ReadBelow(tree, frames, Len(frames) - 1) \in Seq(Entries)
                              /\ ReadBy(tree, Len(frames), Running, 0) \in Seq(Entries)
<1>0. MaxOpen \in Nat /\ tree \in ConfigTrees BY ConfigAssumption DEF ConfigInv
<1>1. CallsOK(tree, asked.dir, frames) /\ IsList(frames) /\ Len(frames) <= MaxOpen BY Zenon DEF ConfigInv, CallsOK
<1>2. PICK n \in Nat : n = Len(frames) /\ n > 0 /\ n \in 1 .. n /\ n <= MaxOpen /\ DOMAIN frames = 1 .. n /\ Last(frames) = frames[n]
  BY <1>1, TopFacts
<1>3. n \in 1 .. MaxOpen BY <1>0, <1>2
<1>4. Busy(frames, n) = 0 BY <1>2 DEF Busy
<1>5. Running = frames[n] BY <1>2, Zenon DEF Running
<1>6. CallOK(tree, Running, 0, Base(asked.dir, frames, n)) BY <1>1, <1>2, <1>4, <1>5, Zenon DEF CallsOK
<1>7. ASSUME host = "posix"
      PROVE  /\ ReadingOK(tree, Running, 0) /\ CallsRead(tree, frames)
             /\ options = Over(<< >>, ReadBelow(tree, frames, n - 1) \o ReadBy(tree, n, Running, 0))
             /\ ReadBelow(tree, frames, n - 1) \in Seq(Entries)
             /\ ReadBy(tree, n, Running, 0) \in Seq(Entries)
  <2>1. CallsRead(tree, frames) /\ options = Over(<< >>, ReadSoFar(tree, frames)) BY <1>7, Zenon DEF ConfigInv
  <2>2. ReadingOK(tree, Running, 0) BY <2>1, <1>2, <1>4, <1>5, Zenon DEF CallsRead
  <2>3. ReadSoFar(tree, frames) = ReadBelow(tree, frames, n) BY <1>2, Zenon DEF ReadSoFar, ReadBelow, Reads
  <2>4. n \in 1 .. Len(frames) BY <1>2, Zenon
  <2>5. /\ ReadBelow(tree, frames, n) = ReadBelow(tree, frames, n - 1) \o ReadBy(tree, n, frames[n], Busy(frames, n))
        /\ ReadBelow(tree, frames, n - 1) \in Seq(Entries)
        /\ ReadBy(tree, n, frames[n], Busy(frames, n)) \in Seq(Entries)
    BY <1>0, <1>1, <2>1, <2>4, ReadTop, Zenon
  <2>. QED BY <1>4, <1>5, <2>1, <2>2, <2>3, <2>5, Zenon
<1>. QED BY <1>1, <1>2, <1>3, <1>5, <1>6, <1>7, Zenon

(* A step of the running call alone. *)
LEMMA BecomesStep ==
  ASSUME ConfigInv, frames # <<>>, NEW c, Becomes(c), UNCHANGED <<tree, host, asked, outcome>>,
         c.file = Running.file, CallOK(tree, c, 0, Base(asked.dir, frames, Len(frames))),
         cwd' = IF c.within THEN c.file.dir ELSE Base(asked.dir, frames, Len(frames)),
         host = "posix" => /\ ReadingOK(tree, c, 0)
                           /\ options' = Over(<< >>, ReadBelow(tree, frames, Len(frames) - 1)
                                                     \o ReadBy(tree, Len(frames), c, 0))
  PROVE  ConfigInv'
<1>0. tree' = tree /\ host' = host /\ asked' = asked /\ outcome' = outcome OBVIOUS
<1>1. tree \in ConfigTrees /\ CallsOK(tree, asked.dir, frames) BY Zenon DEF ConfigInv
<1>2. PICK new : new = frames' OBVIOUS
<1>3. Replaces(new, frames, c) BY <1>2, Zenon DEF Becomes, Replaces
<1>4. IsList(frames) /\ Running = frames[Len(frames)] BY Top, Zenon
<1>5. Replaced(new, frames, c) BY <1>3, <1>4, ReplacedTop, Zenon
<1>6. c.file = frames[Len(frames)].file BY <1>4, Zenon
<1>7. /\ CallsOK(tree, asked.dir, new) /\ new[1].file = frames[1].file
      /\ Base(asked.dir, new, Len(frames)) = Base(asked.dir, frames, Len(frames))
  <2>1. PICK dir : dir = asked.dir OBVIOUS
  <2>2. CallsOK(tree, dir, frames) /\ CallOK(tree, c, 0, Base(dir, frames, Len(frames))) BY <1>1, <2>1, Zenon
  <2>3. /\ CallsOK(tree, dir, new) /\ new[1].file = frames[1].file
        /\ Base(dir, new, Len(frames)) = Base(dir, frames, Len(frames))
    BY <1>3, <1>6, <2>2, ReplaceOK
  <2>. QED BY <2>1, <2>3, Zenon
<1>8. Last(new) = c /\ Len(new) = Len(frames) /\ new # <<>> BY <1>5, Zenon DEF Replaced
<1>9. outcome = "none" /\ frames[1].file = Resolve(asked.dir, asked.path) BY Zenon DEF ConfigInv
<1>10. Running' = c BY <1>2, <1>8, Zenon DEF Running
<1>11. cwd' = IF Running'.within THEN Running'.file.dir ELSE Base(asked.dir, new, Len(new))
  BY <1>7, <1>8, <1>10, Zenon
<1>12. outcome' # "loaded" BY <1>0, <1>9
<1>13. ASSUME host = "posix" PROVE CallsRead(tree, new) /\ options' = Over(<< >>, ReadSoFar(tree, new))
  <2>1. CallsRead(tree, frames) /\ ReadingOK(tree, c, 0) BY <1>13, Zenon DEF ConfigInv
  <2>2. /\ CallsRead(tree, new)
        /\ ReadSoFar(tree, new) = ReadBelow(tree, frames, Len(frames) - 1) \o ReadBy(tree, Len(frames), c, 0)
    BY <1>1, <1>3, <1>6, <2>1, ReplaceRead, Zenon
  <2>. QED BY <1>13, <2>2, Zenon
<1>. QED BY <1>0, <1>1, <1>2, <1>7, <1>8, <1>9, <1>11, <1>12, <1>13, Zenon DEF ConfigInv

(* The call moves to the next line. *)
LEMMA AdvancedOK ==
  ASSUME NEW t \in ConfigTrees, NEW c, NEW base, CallOK(t, c, 0, base), ~c.within, c.at <= Len(t[c.file]),
         NEW d, DOMAIN d = DOMAIN c, d.path = c.path, d.file = c.file, d.at = c.at + 1, d.within = FALSE
  PROVE  CallOK(t, d, 0, base)
<1>1. c.file \in DOMAIN t /\ c.at \in 1..(Len(t[c.file]) + 1) BY DEF CallOK
<1>2. Len(t[c.file]) \in Nat BY <1>1, TreeFacts, Zenon
<1>3. d.at \in 1..(Len(t[c.file]) + 1) BY <1>1, <1>2
<1>. QED BY <1>3, Zenon DEF CallOK

(* The call has read one line more. *)
LEMMA SkippedRead ==
  ASSUME NEW t \in ConfigTrees, NEW i \in 1 .. MaxOpen, NEW c, NEW base, CallOK(t, c, 0, base), ~c.within,
         c.at <= Len(t[c.file]), NEW d, d.file = c.file, d.at = c.at + 1, d.within = FALSE
  PROVE  ReadBy(t, i, d, 0) = ReadBy(t, i, c, 0) \o LineSays(t, Above(t, i), c.file, c.at)
<1>1. c.file \in DOMAIN t /\ c.at \in 1..(Len(t[c.file]) + 1) BY DEF CallOK
<1>2. Len(t[c.file]) \in Nat BY <1>1, TreeFacts, Zenon
<1>3. c.at \in 1 .. Len(t[c.file]) /\ d.at - 1 = c.at BY <1>1, <1>2
<1>4. PICK file \in DOMAIN t : file = c.file BY <1>1
<1>5. PICK n \in 1 .. Len(t[file]) : n = c.at BY <1>3, <1>4
<1>6. Joined(LinesSay(t, Above(t, i), file), n)
              = Joined(LinesSay(t, Above(t, i), file), n - 1) \o LineSays(t, Above(t, i), file, n)
  BY ReadLine, Zenon
<1>7. ReadBy(t, i, d, 0) = Joined(LinesSay(t, Above(t, i), file), n) BY <1>3, <1>4, <1>5, Zenon DEF ReadBy
<1>8. ReadBy(t, i, c, 0) = Joined(LinesSay(t, Above(t, i), file), n - 1) BY <1>4, <1>5, Zenon DEF ReadBy
<1>. QED BY <1>4, <1>5, <1>6, <1>7, <1>8, Zenon

(* The section after the line. *)
LEMMA KeepsSection ==
  ASSUME NEW t \in ConfigTrees, NEW c, NEW base, CallOK(t, c, 0, base), NEW d, d.at = c.at + 1, d.file = c.file
  PROVE  /\ t[c.file][c.at].kind = "section" => SectionAt(t[d.file], d.at) = t[c.file][c.at].name
         /\ t[c.file][c.at].kind # "section" => SectionAt(t[d.file], d.at) = SectionAt(t[c.file], c.at)
<1>1. c.file \in DOMAIN t /\ c.at \in 1..(Len(t[c.file]) + 1) BY DEF CallOK
<1>2. Len(t[c.file]) \in Nat BY <1>1, TreeFacts, Zenon
<1>3. PICK n \in Nat : n = c.at /\ n > 0 /\ d.at = n + 1 BY <1>1, <1>2
<1>4. PICK lines : lines = t[c.file] OBVIOUS
<1>5. /\ lines[n].kind = "section" => SectionAt(lines, n + 1) = lines[n].name
      /\ lines[n].kind # "section" => SectionAt(lines, n + 1) = SectionAt(lines, n)
  BY <1>3, SectionStep, Zenon
<1>. QED BY <1>3, <1>4, <1>5, Zenon

(* Nothing more has been read. *)
LEMMA NoMore ==
  ASSUME NEW x \in Seq(Entries), NEW y \in Seq(Entries)
  PROVE  x \o (y \o <<>>) = x \o y
OBVIOUS

(* Blank lines and comments. *)
LEMMA SkipStep ==
  ASSUME ConfigInv, SkipLine PROVE ConfigInv'
<1>0. frames # <<>> /\ ~Running.within /\ Running.at <= Len(tree[Running.file])
      /\ tree[Running.file][Running.at].kind = "skip"
  BY Zenon DEF SkipLine, Reading, Text
<1>1. PICK c : c = Running OBVIOUS
<1>2. PICK d : d = [c EXCEPT !.at = @ + 1] OBVIOUS
<1>3. PICK n : n = Len(frames) OBVIOUS
<1>4. PICK base : base = Base(asked.dir, frames, Len(frames)) OBVIOUS
<1>5. tree \in ConfigTrees /\ n \in 1 .. MaxOpen /\ CallOK(tree, c, 0, base)
  BY <1>0, <1>1, <1>3, <1>4, Top, Zenon DEF ConfigInv
<1>6. /\ DOMAIN d = DOMAIN c /\ d.path = c.path /\ d.file = c.file /\ d.at = c.at + 1 /\ d.within = FALSE
      /\ d.section = c.section
  BY <1>0, <1>1, <1>2, <1>5 DEF CallOK
<1>7. CallOK(tree, d, 0, base) BY <1>0, <1>1, <1>5, <1>6, AdvancedOK, Zenon
<1>8. Becomes(d) /\ UNCHANGED <<tree, host, asked, outcome, options>> /\ cwd' = cwd
  BY <1>1, <1>2, Zenon DEF SkipLine
<1>9. cwd = base BY <1>0, <1>4, Zenon DEF ConfigInv
<1>10. ASSUME host = "posix"
       PROVE  /\ ReadingOK(tree, d, 0)
              /\ options' = Over(<< >>, ReadBelow(tree, frames, n - 1) \o ReadBy(tree, n, d, 0))
  <2>1. /\ ReadingOK(tree, c, 0) /\ options = Over(<< >>, ReadBelow(tree, frames, n - 1) \o ReadBy(tree, n, c, 0))
        /\ ReadBelow(tree, frames, n - 1) \in Seq(Entries) /\ ReadBy(tree, n, c, 0) \in Seq(Entries)
    BY <1>0, <1>1, <1>3, <1>10, Top, Zenon
  <2>2. "skip" # "section" /\ "skip" # "option" /\ "skip" # "include" OBVIOUS
  <2>3. SectionAt(tree[d.file], d.at) = SectionAt(tree[c.file], c.at) BY <1>0, <1>1, <1>5, <1>6, <2>2, KeepsSection, Zenon
  <2>4. ReadingOK(tree, d, 0) BY <1>6, <2>1, <2>3, Zenon DEF ReadingOK
  <2>5. LineSays(tree, Above(tree, n), c.file, c.at) = <<>> BY <1>0, <1>1, <2>2, Zenon DEF LineSays
  <2>6. ReadBy(tree, n, d, 0) = ReadBy(tree, n, c, 0) \o <<>>
    BY <1>0, <1>1, <1>5, <1>6, <2>5, SkippedRead, Zenon
  <2>7. ReadBelow(tree, frames, n - 1) \o ReadBy(tree, n, d, 0) = ReadBelow(tree, frames, n - 1) \o ReadBy(tree, n, c, 0)
    BY <2>1, <2>6, NoMore, Zenon
  <2>. QED BY <1>8, <2>1, <2>4, <2>7, Zenon
<1>. QED BY <1>0, <1>1, <1>3, <1>4, <1>6, <1>7, <1>8, <1>9, <1>10, BecomesStep, Zenon

(* Section lines. *)
LEMMA SectionLineStep ==
  ASSUME ConfigInv, SectionLine PROVE ConfigInv'
<1>0. frames # <<>> /\ ~Running.within /\ Running.at <= Len(tree[Running.file])
      /\ tree[Running.file][Running.at].kind = "section"
  BY Zenon DEF SectionLine, Reading, Text
<1>1. PICK c : c = Running OBVIOUS
<1>2. PICK d : d = [c EXCEPT !.at = @ + 1, !.section = tree[c.file][c.at].name] OBVIOUS
<1>3. PICK n : n = Len(frames) OBVIOUS
<1>4. PICK base : base = Base(asked.dir, frames, Len(frames)) OBVIOUS
<1>5. tree \in ConfigTrees /\ n \in 1 .. MaxOpen /\ CallOK(tree, c, 0, base)
  BY <1>0, <1>1, <1>3, <1>4, Top, Zenon DEF ConfigInv
<1>6. /\ DOMAIN d = DOMAIN c /\ d.path = c.path /\ d.file = c.file /\ d.at = c.at + 1 /\ d.within = FALSE
      /\ d.section = tree[c.file][c.at].name
  BY <1>0, <1>1, <1>2, <1>5 DEF CallOK
<1>7. CallOK(tree, d, 0, base) BY <1>0, <1>1, <1>5, <1>6, AdvancedOK, Zenon
<1>8. Becomes(d) /\ UNCHANGED <<tree, host, asked, outcome, options>> /\ cwd' = cwd
  BY <1>1, <1>2, Zenon DEF SectionLine, Text
<1>9. cwd = base BY <1>0, <1>4, Zenon DEF ConfigInv
<1>10. ASSUME host = "posix"
       PROVE  /\ ReadingOK(tree, d, 0)
              /\ options' = Over(<< >>, ReadBelow(tree, frames, n - 1) \o ReadBy(tree, n, d, 0))
  <2>1. /\ options = Over(<< >>, ReadBelow(tree, frames, n - 1) \o ReadBy(tree, n, c, 0))
        /\ ReadBelow(tree, frames, n - 1) \in Seq(Entries) /\ ReadBy(tree, n, c, 0) \in Seq(Entries)
    BY <1>0, <1>1, <1>3, <1>10, Top, Zenon
  <2>2. "section" # "option" /\ "section" # "include" OBVIOUS
  <2>3. SectionAt(tree[d.file], d.at) = tree[c.file][c.at].name BY <1>0, <1>1, <1>5, <1>6, KeepsSection, Zenon
  <2>4. ReadingOK(tree, d, 0) BY <1>6, <2>3, Zenon DEF ReadingOK
  <2>5. LineSays(tree, Above(tree, n), c.file, c.at) = <<>> BY <1>0, <1>1, <2>2, Zenon DEF LineSays
  <2>6. ReadBy(tree, n, d, 0) = ReadBy(tree, n, c, 0) \o <<>>
    BY <1>0, <1>1, <1>5, <1>6, <2>5, SkippedRead, Zenon
  <2>7. ReadBelow(tree, frames, n - 1) \o ReadBy(tree, n, d, 0) = ReadBelow(tree, frames, n - 1) \o ReadBy(tree, n, c, 0)
    BY <2>1, <2>6, NoMore, Zenon
  <2>. QED BY <1>8, <2>1, <2>4, <2>7, Zenon
<1>. QED BY <1>0, <1>1, <1>3, <1>4, <1>6, <1>7, <1>8, <1>9, <1>10, BecomesStep, Zenon

(* Option lines: the assignment is the entry of the line. *)
LEMMA OptionLineStep ==
  ASSUME ConfigInv, OptionLine PROVE ConfigInv'
<1>0. frames # <<>> /\ ~Running.within /\ Running.at <= Len(tree[Running.file])
      /\ tree[Running.file][Running.at].kind = "option"
  BY Zenon DEF OptionLine, Reading, Text
<1>1. PICK c : c = Running OBVIOUS
<1>2. PICK d : d = [c EXCEPT !.at = @ + 1] OBVIOUS
<1>3. PICK n : n = Len(frames) OBVIOUS
<1>4. PICK base : base = Base(asked.dir, frames, Len(frames)) OBVIOUS
<1>5. tree \in ConfigTrees /\ n \in 1 .. MaxOpen /\ CallOK(tree, c, 0, base)
  BY <1>0, <1>1, <1>3, <1>4, Top, Zenon DEF ConfigInv
<1>6. /\ DOMAIN d = DOMAIN c /\ d.path = c.path /\ d.file = c.file /\ d.at = c.at + 1 /\ d.within = FALSE
      /\ d.section = c.section
  BY <1>0, <1>1, <1>2, <1>5 DEF CallOK
<1>7. CallOK(tree, d, 0, base) BY <1>0, <1>1, <1>5, <1>6, AdvancedOK, Zenon
<1>8. Becomes(d) /\ UNCHANGED <<tree, host, asked, outcome>> /\ cwd' = cwd
  BY <1>1, <1>2, Zenon DEF OptionLine
<1>9. cwd = base BY <1>0, <1>4, Zenon DEF ConfigInv
<1>10. ASSUME host = "posix"
       PROVE  /\ ReadingOK(tree, d, 0)
              /\ options' = Over(<< >>, ReadBelow(tree, frames, n - 1) \o ReadBy(tree, n, d, 0))
  <2>1. /\ ReadingOK(tree, c, 0) /\ options = Over(<< >>, ReadBelow(tree, frames, n - 1) \o ReadBy(tree, n, c, 0))
        /\ ReadBelow(tree, frames, n - 1) \in Seq(Entries) /\ ReadBy(tree, n, c, 0) \in Seq(Entries)
    BY <1>0, <1>1, <1>3, <1>10, Top, Zenon
  <2>2. "option" # "section" OBVIOUS
  <2>3. SectionAt(tree[d.file], d.at) = SectionAt(tree[c.file], c.at) BY <1>0, <1>1, <1>5, <1>6, <2>2, KeepsSection, Zenon
  <2>4. ReadingOK(tree, d, 0) BY <1>6, <2>1, <2>3, Zenon DEF ReadingOK
  <2>5. PICK line : line = tree[c.file][c.at] OBVIOUS
  <2>6. PICK e : e = Entry(c.section, line) OBVIOUS
  <2>7. LineSays(tree, Above(tree, n), c.file, c.at) = <<e>>
    <3>1. c.section = SectionAt(tree[c.file], c.at) BY <2>1, Zenon DEF ReadingOK
    <3>. QED BY <1>0, <1>1, <2>5, <2>6, <3>1, Zenon DEF LineSays
  <2>8. ReadBy(tree, n, d, 0) = ReadBy(tree, n, c, 0) \o <<e>>
    BY <1>0, <1>1, <1>5, <1>6, <2>7, SkippedRead, Zenon
  <2>9. e \in Entries
    <3>1. c.file \in DOMAIN tree /\ c.at \in 1 .. (Len(tree[c.file]) + 1) BY <1>5, Zenon DEF CallOK
    <3>2. tree[c.file] \in Seq(ConfigLines) /\ Len(tree[c.file]) \in Nat
          /\ \A k \in 1 .. Len(tree[c.file]) : tree[c.file][k] \in ConfigLines
      BY <1>5, <3>1, TreeFacts, Zenon
    <3>3. c.at \in 1 .. Len(tree[c.file]) BY <1>0, <1>1, <3>1, <3>2
    <3>4. line \in ConfigLines /\ line.kind = "option" BY <1>0, <1>1, <2>5, <3>2, <3>3, Zenon
    <3>5. line.name \in ConfigWords /\ line.value \in ConfigWords BY <3>4, LineFacts, Zenon
    <3>6. c.section \in ConfigWords BY <2>1, <3>1, <3>2, SectionType, Zenon DEF ReadingOK
    <3>. QED BY <2>6, <3>5, <3>6, EntryType, Zenon
  <2>10. e.key = <<c.section, line.name>> /\ e.value = line.value BY <2>6 DEF Entry
  <2>11. PICK x \in Seq(Entries) : x = ReadBelow(tree, frames, n - 1) BY <2>1, Zenon
  <2>12. PICK y \in Seq(Entries) : y = ReadBy(tree, n, c, 0) BY <2>1, Zenon
  <2>13. x \o (y \o <<e>>) = (x \o y) \o <<e>> /\ x \o y \in Seq(Entries) BY <2>9
  <2>14. options' = assign(options, e.key, e.value) BY <1>1, <2>5, <2>10, Zenon DEF OptionLine, Text
  <2>15. Over(<< >>, (x \o y) \o <<e>>) = assign(Over(<< >>, x \o y), e.key, e.value)
    BY <2>9, <2>13, OverAppend, Zenon
  <2>16. options' = Over(<< >>, x \o (y \o <<e>>)) BY <2>1, <2>11, <2>12, <2>13, <2>14, <2>15, Zenon
  <2>. QED BY <2>4, <2>8, <2>11, <2>12, <2>16, Zenon
<1>. QED BY <1>0, <1>1, <1>3, <1>4, <1>6, <1>7, <1>8, <1>9, <1>10, BecomesStep, Zenon

(* @include on POSIX finds the names the reference finds. *)
LEMMA IncludeLineStep ==
  ASSUME ConfigInv, IncludeLine PROVE ConfigInv'
<1>0. frames # <<>> /\ ~Running.within /\ Running.at <= Len(tree[Running.file])
      /\ tree[Running.file][Running.at].kind = "include"
  BY Zenon DEF IncludeLine, Reading, Text
<1>1. PICK c : c = Running OBVIOUS
<1>t. PICK todo : todo = find(cwd', tree[c.file][c.at].pattern) OBVIOUS
<1>2. PICK d : d = [c EXCEPT !.at = @ + 1, !.tmp = cwd, !.within = TRUE, !.todo = todo] OBVIOUS
<1>3. PICK n : n = Len(frames) OBVIOUS
<1>4. PICK base : base = Base(asked.dir, frames, Len(frames)) OBVIOUS
<1>5. tree \in ConfigTrees /\ n \in 1 .. MaxOpen /\ CallOK(tree, c, 0, base)
  BY <1>0, <1>1, <1>3, <1>4, Top, Zenon DEF ConfigInv
<1>6. /\ DOMAIN d = DOMAIN c /\ d.path = c.path /\ d.file = c.file /\ d.at = c.at + 1 /\ d.within = TRUE
      /\ d.section = c.section /\ d.tmp = cwd /\ d.todo = todo
  BY <1>0, <1>1, <1>2, <1>5 DEF CallOK
<1>8. Becomes(d) /\ UNCHANGED <<tree, host, asked, outcome, options>> /\ cwd' = cwd \o c.path.dir
  BY <1>1, <1>t, <1>2, Zenon DEF IncludeLine, Text
<1>9. cwd = base BY <1>0, <1>4, Zenon DEF ConfigInv
<1>a. c.file \in DOMAIN tree /\ c.at \in 1 .. (Len(tree[c.file]) + 1) /\ c.file.dir = base \o c.path.dir
  BY <1>5, Zenon DEF CallOK
<1>b. Len(tree[c.file]) \in Nat BY <1>5, <1>a, TreeFacts, Zenon
<1>c. d.at \in 1 .. (Len(tree[c.file]) + 1) /\ d.at > 1 /\ d.at - 1 = c.at /\ d.at - 2 = c.at - 1 BY <1>0, <1>1, <1>6, <1>a, <1>b
<1>7. CallOK(tree, d, 0, base)
  <2>1. 0 # 1 OBVIOUS
  <2>2. TRUE \in BOOLEAN OBVIOUS
  <2>. QED BY <1>0, <1>1, <1>5, <1>6, <1>9, <1>a, <1>c, <2>1, <2>2, Zenon DEF CallOK
<1>d. cwd' = d.file.dir BY <1>6, <1>8, <1>9, <1>a, Zenon
<1>10. ASSUME host = "posix"
       PROVE  /\ ReadingOK(tree, d, 0)
              /\ options' = Over(<< >>, ReadBelow(tree, frames, n - 1) \o ReadBy(tree, n, d, 0))
  <2>1. /\ ReadingOK(tree, c, 0) /\ options = Over(<< >>, ReadBelow(tree, frames, n - 1) \o ReadBy(tree, n, c, 0))
        /\ ReadBelow(tree, frames, n - 1) \in Seq(Entries) /\ ReadBy(tree, n, c, 0) \in Seq(Entries)
    BY <1>0, <1>1, <1>3, <1>10, Top, Zenon
  <2>2. "include" # "section" OBVIOUS
  <2>3. SectionAt(tree[d.file], d.at) = SectionAt(tree[c.file], c.at) BY <1>0, <1>1, <1>5, <1>6, <2>2, KeepsSection, Zenon
  <2>4. PICK Y, names : names = Names(tree, d) /\ names \in Seq(Y) BY <1>5, MatchingFacts, Zenon DEF Names
  <2>5. todo = names
    <3>1. names = Matching(tree, d.file.dir, tree[c.file][c.at].pattern) BY <1>6, <1>c, <2>4, Zenon DEF Names
    <3>2. todo = Matching(tree, cwd', tree[c.file][c.at].pattern) BY <1>t, <1>10, Zenon DEF find, posix_find
    <3>. QED BY <1>d, <3>1, <3>2, Zenon
  <2>6. Len(names) \in Nat /\ Len(names) - Len(names) = 0 /\ SubSeq(names, 1, Len(names)) = names
        /\ 0 \in 0 .. Len(names) /\ 0 + 1 = 1
    BY <2>4
  <2>7. Opened(tree, d) = 0 BY <1>6, <2>4, <2>5, <2>6, Zenon DEF Opened
  <2>8. ReadingOK(tree, d, 0) BY <1>6, <2>1, <2>3, <2>4, <2>5, <2>6, <2>7, Zenon DEF ReadingOK
  <2>9. Joined(Included(Above(tree, n), d.file.dir, names), 0) = <<>>
    <3>1. PICK above : above = Above(tree, n) OBVIOUS
    <3>2. PICK fdir : fdir = d.file.dir OBVIOUS
    <3>3. TellsAll(above) BY <1>5, <3>1, AboveFacts, Zenon
    <3>4. Included(above, fdir, names) \in Seq(Seq(Entries)) BY <2>4, <3>3, IncludedFacts, Zenon
    <3>5. Joined(Included(above, fdir, names), 0) = <<>> BY <3>4, JoinedFacts, Zenon
    <3>. QED BY <3>1, <3>2, <3>5, Zenon
  <2>10. 0 - 0 = 0 OBVIOUS
  <2>11. ReadBy(tree, n, d, 0) = Joined(LinesSay(tree, Above(tree, n), c.file), c.at - 1) \o <<>>
    BY <1>6, <1>c, <2>4, <2>7, <2>9, <2>10, Zenon DEF ReadBy
  <2>12. ReadBy(tree, n, c, 0) = Joined(LinesSay(tree, Above(tree, n), c.file), c.at - 1) BY <1>0, <1>1, Zenon DEF ReadBy
  <2>13. ReadBelow(tree, frames, n - 1) \o ReadBy(tree, n, d, 0) = ReadBelow(tree, frames, n - 1) \o ReadBy(tree, n, c, 0)
    <3>1. ReadBy(tree, n, d, 0) = ReadBy(tree, n, c, 0) \o <<>> BY <2>11, <2>12, Zenon
    <3>. QED BY <2>1, <3>1, NoMore, Zenon
  <2>. QED BY <1>8, <2>1, <2>8, <2>13, Zenon
<1>. QED BY <1>0, <1>1, <1>3, <1>4, <1>6, <1>7, <1>8, <1>d, <1>10, BecomesStep, Zenon

(* The end of an include: the line has been read, and the directory is back. *)
LEMMA IncludeDoneStep ==
  ASSUME ConfigInv, IncludeDone PROVE ConfigInv'
<1>0. frames # <<>> /\ Running.within /\ Running.todo = <<>>
  BY Zenon DEF IncludeDone
<1>1. PICK c : c = Running OBVIOUS
<1>2. PICK d : d = [c EXCEPT !.within = FALSE] OBVIOUS
<1>3. PICK n : n = Len(frames) OBVIOUS
<1>4. PICK base : base = Base(asked.dir, frames, Len(frames)) OBVIOUS
<1>5. tree \in ConfigTrees /\ n \in 1 .. MaxOpen /\ CallOK(tree, c, 0, base)
  BY <1>0, <1>1, <1>3, <1>4, Top, Zenon DEF ConfigInv
<1>6. /\ DOMAIN d = DOMAIN c /\ d.path = c.path /\ d.file = c.file /\ d.at = c.at /\ d.within = FALSE
      /\ d.section = c.section
  BY <1>0, <1>1, <1>2, <1>5 DEF CallOK
<1>7. CallOK(tree, d, 0, base)
  <2>1. 0 # 1 /\ FALSE \in BOOLEAN OBVIOUS
  <2>. QED BY <1>5, <1>6, <2>1, Zenon DEF CallOK
<1>8. Becomes(d) /\ UNCHANGED <<tree, host, asked, outcome, options>> /\ cwd' = c.tmp
  BY <1>1, <1>2, Zenon DEF IncludeDone
<1>9. c.tmp = base /\ c.at > 1 /\ tree[c.file][c.at - 1].kind = "include" BY <1>0, <1>1, <1>5, Zenon DEF CallOK
<1>10. ASSUME host = "posix"
       PROVE  /\ ReadingOK(tree, d, 0)
              /\ options' = Over(<< >>, ReadBelow(tree, frames, n - 1) \o ReadBy(tree, n, d, 0))
  <2>1. /\ ReadingOK(tree, c, 0) /\ options = Over(<< >>, ReadBelow(tree, frames, n - 1) \o ReadBy(tree, n, c, 0))
    BY <1>0, <1>1, <1>3, <1>10, Top, Zenon
  <2>2. ReadingOK(tree, d, 0) BY <1>6, <2>1, Zenon DEF ReadingOK
  <2>3. PICK file \in DOMAIN tree : file = c.file BY <1>5, Zenon DEF CallOK
  <2>4. Len(tree[file]) \in Nat /\ c.at \in 1 .. (Len(tree[file]) + 1) BY <1>5, <2>3, TreeFacts, Zenon DEF CallOK
  <2>5. PICK k \in 1 .. Len(tree[file]) : k = c.at - 1 /\ k - 1 = c.at - 2 BY <1>9, <2>4
  <2>6. PICK Y, names : names = Names(tree, c) /\ names \in Seq(Y) BY <1>5, MatchingFacts, Zenon DEF Names
  <2>7. Opened(tree, c) - 0 = Len(names)
    <3>1. Len(names) \in Nat /\ Len(<<>>) = 0 BY <2>6
    <3>2. Opened(tree, c) = Len(names) - Len(<<>>) BY <1>0, <1>1, <2>6, Zenon DEF Opened
    <3>. QED BY <3>1, <3>2
  <2>8. LineSays(tree, Above(tree, n), file, k) = Joined(Included(Above(tree, n), file.dir, names), Len(names))
    <3>1. "include" # "option" OBVIOUS
    <3>2. names = Matching(tree, file.dir, tree[file][k].pattern) BY <2>3, <2>5, <2>6, Zenon DEF Names
    <3>3. tree[file][k].kind = "include" BY <1>9, <2>3, <2>5, Zenon
    <3>. QED BY <3>1, <3>2, <3>3, Zenon DEF LineSays
  <2>9. ReadBy(tree, n, c, 0) = Joined(LinesSay(tree, Above(tree, n), file), k - 1) \o LineSays(tree, Above(tree, n), file, k)
    BY <1>0, <1>1, <2>3, <2>5, <2>6, <2>7, <2>8, Zenon DEF ReadBy
  <2>10. ReadBy(tree, n, d, 0) = Joined(LinesSay(tree, Above(tree, n), file), k)
    BY <1>6, <2>3, <2>5, Zenon DEF ReadBy
  <2>11. Joined(LinesSay(tree, Above(tree, n), file), k)
           = Joined(LinesSay(tree, Above(tree, n), file), k - 1) \o LineSays(tree, Above(tree, n), file, k)
    BY <1>5, ReadLine, Zenon
  <2>12. ReadBy(tree, n, d, 0) = ReadBy(tree, n, c, 0) BY <2>9, <2>10, <2>11, Zenon
  <2>. QED BY <1>8, <2>1, <2>2, <2>12, Zenon
<1>. QED BY <1>0, <1>1, <1>3, <1>4, <1>6, <1>7, <1>8, <1>9, <1>10, BecomesStep, Zenon

(* Between two calls of load_from_file(). *)
LEMMA IdleStep ==
  ASSUME tree' \in ConfigTrees, frames' = <<>>, outcome' = "loaded" => cwd' = asked'.dir,
         host' = "posix" => (outcome' = "loaded" => options' = Said' /\ Resolve(asked.dir, asked.path)' \in DOMAIN tree')
  PROVE ConfigInv'
<1>3. CallsOK(tree', asked.dir', frames')
  <2>1. IsList(<<>>) BY DEF IsList
  <2>a. MaxOpen \in Nat BY ConfigAssumption
  <2>b. Len(<<>>) = 0 /\ DOMAIN <<>> = {} OBVIOUS
  <2>2. Len(<<>>) <= MaxOpen /\ DOMAIN <<>> = {} BY <2>a, <2>b
  <2>. QED BY <2>1, <2>2, Zenon DEF CallsOK
<1>4. CallsRead(tree', frames')
  <2>1. DOMAIN <<>> = {} /\ 1 .. (Len(<<>>) - 1) = {} OBVIOUS
  <2>. QED BY <2>1, Zenon DEF CallsRead
<1>. QED BY <1>3, <1>4, Zenon DEF ConfigInv

(* An exception leaves no call running. *)
LEMMA ThrownStep ==
  ASSUME tree' \in ConfigTrees, OpenFails PROVE ConfigInv'
<1>1. frames' = <<>> /\ outcome' = "thrown" BY DEF OpenFails
<1>2. outcome' # "loaded" BY <1>1
<1>. QED BY <1>1, <1>2, IdleStep, Zenon

(* Somebody edits the files. *)
LEMMA EditStep ==
  ASSUME ConfigInv, Edit PROVE ConfigInv'
<1>1. tree' \in ConfigTrees /\ frames' = <<>> /\ outcome' = "none" BY DEF Edit
<1>2. outcome' # "loaded" BY <1>1
<1>. QED BY <1>1, <1>2, IdleStep, Zenon

CallFields == {"path", "file", "at", "section", "todo", "within", "tmp"}
(* A call that has just opened its file. *)
LEMMA FreshCall ==
  ASSUME NEW t \in ConfigTrees, NEW path, NEW i \in 1 .. MaxOpen, Resolve(cwd, path) \in DOMAIN t
  PROVE  /\ CallOK(t, Call(path), 0, cwd) /\ ReadingOK(t, Call(path), 0) /\ ReadBy(t, i, Call(path), 0) = <<>>
         /\ Call(path).file = Resolve(cwd, path) /\ ~Call(path).within
<1>1. PICK c : c = Call(path) OBVIOUS
<1>2. /\ DOMAIN c = CallFields /\ c.path = path /\ c.file = Resolve(cwd, path) /\ c.at = 1 /\ c.section = ""
      /\ c.within = FALSE
  BY <1>1 DEF Call, CallFields
<1>a. c.at = 1 BY <1>2, Zenon
<1>b. c.file = Resolve(cwd, path) /\ c.path = path BY <1>2, Zenon
<1>3. PICK file \in DOMAIN t : file = c.file BY <1>b
<1>4. Len(t[file]) \in Nat BY TreeFacts, Zenon
<1>5. c.at \in 1 .. (Len(t[file]) + 1) BY <1>a, <1>4
<1>6. c.file.dir = cwd \o c.path.dir BY <1>b DEF Resolve
<1>7. CallOK(t, c, 0, cwd)
  <2>1. 0 # 1 /\ FALSE \in BOOLEAN OBVIOUS
  <2>. QED BY <1>2, <1>3, <1>5, <1>6, <2>1, Zenon DEF CallOK, CallFields
<1>8. ReadingOK(t, c, 0) BY <1>2, SectionStart, Zenon DEF ReadingOK
<1>9. ReadBy(t, i, c, 0) = <<>>
  <2>1. PICK above : above = Above(t, i) OBVIOUS
  <2>2. TellsAll(above) BY <2>1, AboveFacts, Zenon
  <2>3. LinesSay(t, above, file) \in Seq(Seq(Entries)) BY <2>2, LinesSayFacts, Zenon
  <2>4. Joined(LinesSay(t, above, file), 0) = <<>> BY <2>3, JoinedFacts, Zenon
  <2>5. c.at - 1 = 0 BY <1>a
  <2>. QED BY <1>2, <1>3, <2>1, <2>4, <2>5, Zenon DEF ReadBy
<1>. QED BY <1>1, <1>2, <1>7, <1>8, <1>9, Zenon

(* The names still to load are the rest of those found. *)
LEMMA RestOf ==
  ASSUME NEW Y, NEW s \in Seq(Y), NEW k \in 0 .. Len(s), NEW todo, todo = SubSeq(s, k + 1, Len(s)), todo # <<>>
  PROVE  /\ k + 1 \in 1 .. Len(s) /\ Head(todo) = s[k + 1] /\ Len(s) - Len(Tail(todo)) = k + 1
         /\ Tail(todo) = SubSeq(s, k + 1 + 1, Len(s))
<1>1. PICK l \in Nat : l = Len(s) /\ k \in Nat /\ k <= l OBVIOUS
<1>2. todo \in Seq(Y) /\ Len(todo) = l - k /\ \A j \in 1 .. (l - k) : todo[j] = s[k + j] BY <1>1
<1>3. k < l BY <1>1, <1>2
<1>4. Head(todo) = s[k + 1] BY <1>1, <1>2, <1>3
<1>5. PICK r : r = Tail(todo) OBVIOUS
<1>6. r \in Seq(Y) /\ Len(r) = l - k - 1 /\ \A j \in 1 .. (l - k - 1) : r[j] = todo[j + 1] BY <1>1, <1>2, <1>3, <1>5
<1>7. PICK q : q = SubSeq(s, k + 1 + 1, Len(s)) OBVIOUS
<1>8. q \in Seq(Y) /\ Len(q) = l - k - 1 /\ \A j \in 1 .. (l - k - 1) : q[j] = s[k + j + 1]
  <2>1. PICK a \in Nat : a = k + 1 + 1 /\ a >= 1 /\ a <= l + 1 /\ l - a + 1 = l - k - 1 BY <1>1, <1>3
  <2>2. q = SubSeq(s, a, l) BY <1>1, <1>7, <2>1, Zenon
  <2>3. q \in Seq(Y) /\ Len(q) = l - a + 1 BY <1>1, <2>1, <2>2
  <2>4. ASSUME NEW j \in 1 .. (l - a + 1) PROVE q[j] = s[a + j - 1] BY <1>1, <2>1, <2>2, SMTT(30)
  <2>5. \A j \in 1 .. (l - a + 1) : a + j - 1 = k + j + 1 BY <1>1, <2>1
  <2>. QED BY <2>1, <2>3, <2>4, <2>5
<1>9. ASSUME NEW j \in 1 .. (l - k - 1) PROVE r[j] = q[j]
  <2>1. j + 1 \in 1 .. (l - k) /\ k + (j + 1) = k + j + 1 BY <1>1, <1>3
  <2>. QED BY <1>2, <1>6, <1>8, <2>1
<1>10. r = q
  <2>1. Len(r) = Len(q) /\ \A i \in 1 .. Len(r) : r[i] = q[i] BY <1>6, <1>8, <1>9
  <2>. QED BY <1>6, <1>8, <2>1, SeqEqual
<1>11. k + 1 \in 1 .. Len(s) BY <1>1, <1>3
<1>12. Len(s) - Len(r) = k + 1 BY <1>1, <1>3, <1>6
<1>. QED BY <1>4, <1>5, <1>7, <1>10, <1>11, <1>12, Zenon

(* The next file of an include. *)
LEMMA IncludeNextStep ==
  ASSUME ConfigInv, IncludeNext PROVE ConfigInv'
<1>0. /\ frames # <<>> /\ Running.within /\ Running.todo # <<>>
      /\ tree' = tree /\ host' = host /\ options' = options /\ cwd' = cwd /\ asked' = asked
  BY Zenon DEF IncludeNext
<1>t. tree \in ConfigTrees /\ tree' \in ConfigTrees BY <1>0, Zenon DEF ConfigInv
<1>f. CASE OpenFails BY <1>t, <1>f, ThrownStep, Zenon
<1>o. CASE ~OpenFails
  <2>1. PICK c : c = Running OBVIOUS
  <2>2. PICK d : d = [c EXCEPT !.todo = Tail(@)] OBVIOUS
  <2>3. PICK e : e = Call(Head(c.todo)) OBVIOUS
  <2>4. /\ Resolve(cwd, Head(c.todo)) \in DOMAIN tree /\ Len(frames) < MaxOpen
        /\ frames' = Front(frames) \o <<d, e>> /\ outcome' = outcome
    BY <1>o, <2>1, <2>2, <2>3, Zenon DEF IncludeNext, Opens
  <2>5. PICK new : new = frames' OBVIOUS
  <2>6. Pushes(new, frames, d, e) BY <2>4, <2>5, Zenon DEF Pushes
  <2>7. PICK dir : dir = asked.dir OBVIOUS
  <2>8. PICK base : base = Base(dir, frames, Len(frames)) OBVIOUS
  <2>9. CallOK(tree, c, 0, base) /\ IsList(frames) /\ c = frames[Len(frames)] /\ Len(frames) \in 1 .. MaxOpen
    BY <1>0, <2>1, <2>7, <2>8, Top, Zenon
  <2>10. MaxOpen \in Nat BY ConfigAssumption
  <2>11. /\ DOMAIN d = DOMAIN c /\ d.path = c.path /\ d.file = c.file /\ d.at = c.at /\ d.within = c.within
         /\ d.section = c.section /\ d.tmp = c.tmp /\ d.todo = Tail(c.todo)
    BY <2>2, <2>9 DEF CallOK
  <2>12. CallOK(tree, d, 1, base) BY <1>0, <2>1, <2>9, <2>11, Zenon DEF CallOK
  <2>13. cwd = c.file.dir BY <1>0, <2>1, Zenon DEF ConfigInv
  <2>14. PICK i \in 1 .. MaxOpen : i = Len(frames) + 1 BY <2>4, <2>9, <2>10
  <2>15. /\ CallOK(tree, e, 0, cwd) /\ ReadingOK(tree, e, 0) /\ ReadBy(tree, i, e, 0) = <<>>
         /\ e.file = Resolve(cwd, Head(c.todo)) /\ ~e.within
    BY <1>t, <2>3, <2>4, FreshCall, Zenon
  <2>16. CallOK(tree, e, 0, d.file.dir) BY <2>11, <2>13, <2>15, Zenon
  <2>17. CallsOK(tree, dir, frames) BY <2>7, Zenon DEF ConfigInv
  <2>18. d.file = frames[Len(frames)].file BY <2>9, <2>11, Zenon
  <2>19. CallOK(tree, d, 1, Base(dir, frames, Len(frames))) BY <2>8, <2>12, Zenon
  <2>20. CallsOK(tree, dir, new) /\ new[1].file = frames[1].file /\ Base(dir, new, Len(frames) + 1) = d.file.dir
    BY <1>0, <2>4, <2>6, <2>10, <2>16, <2>17, <2>18, <2>19, PushOK
  <2>21. Pushed(new, frames, d, e) BY <1>0, <2>6, <2>9, PushedTop, Zenon
  <2>22. Last(new) = e /\ Len(new) = Len(frames) + 1 /\ new # <<>> BY <2>21, Zenon DEF Pushed
  <2>23. outcome = "none" /\ frames[1].file = Resolve(asked.dir, asked.path) BY <1>0, Zenon DEF ConfigInv
  <2>24. Running' = e BY <2>5, <2>22, Zenon DEF Running
  <2>25. cwd' = IF Running'.within THEN Running'.file.dir ELSE Base(dir, new, Len(new))
    BY <1>0, <2>11, <2>13, <2>15, <2>20, <2>22, <2>24, Zenon
  <2>26. outcome' # "loaded" BY <2>4, <2>23
  <2>27. ASSUME host = "posix" PROVE CallsRead(tree, new) /\ options' = Over(<< >>, ReadSoFar(tree, new))
    <3>1. ReadingOK(tree, c, 0) /\ CallsRead(tree, frames) BY <1>0, <2>1, <2>27, Top, Zenon
    <3>2. PICK Y, names : names = Names(tree, c) /\ names \in Seq(Y) BY <1>t, MatchingFacts, Zenon DEF Names
    <3>3. names = Names(tree, d) BY <2>11, <3>2, Zenon DEF Names
    <3>4. PICK k : k = Opened(tree, c) OBVIOUS
    <3>5. k \in 0 .. Len(names) /\ c.todo = SubSeq(names, k + 1, Len(names)) /\ c.todo # <<>>
      BY <1>0, <2>1, <3>1, <3>2, <3>4, Zenon DEF ReadingOK
    <3>6. /\ k + 1 \in 1 .. Len(names) /\ Head(c.todo) = names[k + 1] /\ Len(names) - Len(Tail(c.todo)) = k + 1
          /\ Tail(c.todo) = SubSeq(names, k + 1 + 1, Len(names))
      BY <3>2, <3>5, RestOf, Zenon
    <3>7. Opened(tree, d) = k + 1 BY <2>11, <3>3, <3>6, Zenon DEF Opened
    <3>8. ReadingOK(tree, d, 1) BY <2>11, <3>1, <3>3, <3>6, <3>7, Zenon DEF ReadingOK
    <3>9. k + 1 - 1 = k - 0 BY <3>5
    <3>10. ReadBy(tree, Len(frames), d, 1) = ReadBy(tree, Len(frames), c, 0)
      <4>1. Opened(tree, d) - 1 = Opened(tree, c) - 0 BY <3>4, <3>5, <3>7
      <4>. QED BY <2>11, <3>2, <3>3, <4>1, Zenon DEF ReadBy
    <3>11. ReadBy(tree, Len(frames), d, 1) = ReadBy(tree, Len(frames), frames[Len(frames)], 0) BY <2>9, <3>10, Zenon
    <3>12. e.file = Resolve(d.file.dir, Names(tree, d)[Opened(tree, d)]) BY <2>11, <2>13, <2>15, <3>3, <3>6, <3>7, Zenon
    <3>13. ReadBy(tree, Len(frames) + 1, e, 0) = <<>> BY <2>14, <2>15, Zenon
    <3>14. ReadingOK(tree, e, 0) BY <2>15
    <3>15. CallsRead(tree, new) /\ ReadSoFar(tree, new) = ReadSoFar(tree, frames)
      BY <1>0, <1>t, <2>4, <2>6, <2>10, <2>16, <2>17, <2>18, <2>19, <3>1, <3>8, <3>11, <3>12, <3>13, <3>14, PushRead
    <3>16. options = Over(<< >>, ReadSoFar(tree, frames)) BY <1>0, <2>27, Zenon DEF ConfigInv
    <3>. QED BY <1>0, <3>15, <3>16, Zenon
  <2>. QED BY <1>0, <1>t, <2>4, <2>5, <2>7, <2>20, <2>22, <2>23, <2>25, <2>26, <2>27, Zenon DEF ConfigInv
<1>. QED BY <1>f, <1>o

(* The end of a file. *)
LEMMA EndStep ==
  ASSUME ConfigInv, EndOfFile PROVE ConfigInv'
<1>0. /\ frames # <<>> /\ ~Running.within /\ Running.at > Len(tree[Running.file])
      /\ frames' = Front(frames) /\ outcome' = IF Len(frames) = 1 THEN "loaded" ELSE outcome
      /\ tree' = tree /\ host' = host /\ options' = options /\ cwd' = cwd /\ asked' = asked
  BY Zenon DEF EndOfFile, Text
<1>t. tree \in ConfigTrees /\ tree' \in ConfigTrees BY <1>0, Zenon DEF ConfigInv
<1>1. PICK c : c = Running OBVIOUS
<1>2. PICK dir : dir = asked.dir OBVIOUS
<1>3. PICK n : n = Len(frames) OBVIOUS
<1>4. /\ CallOK(tree, c, 0, Base(dir, frames, n)) /\ IsList(frames) /\ c = frames[n] /\ n \in 1 .. MaxOpen
      /\ DOMAIN frames = 1 .. n
  BY <1>0, <1>1, <1>2, <1>3, Top, Zenon
<1>5. MaxOpen \in Nat BY ConfigAssumption
<1>6. PICK file \in DOMAIN tree : file = c.file BY <1>4, Zenon DEF CallOK
<1>7. c.at = Len(tree[c.file]) + 1
  <2>1. Len(tree[file]) \in Nat BY <1>t, TreeFacts, Zenon
  <2>2. c.at \in 1 .. (Len(tree[file]) + 1) /\ c.at > Len(tree[file]) BY <1>0, <1>1, <1>4, <1>6, Zenon DEF CallOK
  <2>3. c.at = Len(tree[file]) + 1 BY <2>1, <2>2
  <2>. QED BY <1>6, <2>3, Zenon
<1>8. cwd = Base(dir, frames, n) /\ outcome = "none" /\ frames[1].file = Resolve(asked.dir, asked.path)
  BY <1>0, <1>2, <1>3, Zenon DEF ConfigInv
<1>9. CASE n = 1
  <2>1. frames' = <<>>
    <3>1. Front(frames) = SubSeq(frames, 1, 1 - 1) BY <1>3, <1>9, Zenon DEF Front
    <3>2. PICK Y : frames \in Seq(Y) BY <1>4, Zenon DEF IsList
    <3>3. SubSeq(frames, 1, 1 - 1) = <<>> BY <3>2
    <3>. QED BY <1>0, <3>1, <3>3, Zenon
  <2>2. cwd' = asked'.dir BY <1>0, <1>2, <1>8, <1>9, Zenon DEF Base
  <2>3. ASSUME host = "posix" PROVE options' = Said /\ Resolve(asked.dir, asked.path) \in DOMAIN tree
    <3>1. /\ options = Over(<< >>, ReadBelow(tree, frames, n - 1) \o ReadBy(tree, n, c, 0))
          /\ ReadBy(tree, n, c, 0) \in Seq(Entries) /\ CallsRead(tree, frames)
      BY <1>0, <1>1, <1>3, <2>3, Top, Zenon
    <3>2. c.file = Resolve(asked.dir, asked.path) BY <1>4, <1>8, <1>9, Zenon
    <3>3. ReadBy(tree, n, c, 0) = Says(tree)[MaxOpen - n][c.file] BY <1>0, <1>1, <1>t, <1>4, <1>6, <1>7, CompleteFile, Zenon
    <3>4. ReadBelow(tree, frames, n - 1) = <<>>
      <4>1. n - 1 = 0 BY <1>9
      <4>2. CallsOK(tree, dir, frames) BY <1>2, Zenon DEF ConfigInv
      <4>3. Reads(tree, frames) \in Seq(Seq(Entries)) BY <1>t, <3>1, <4>2, ReadsFacts, Zenon
      <4>4. Joined(Reads(tree, frames), 0) = <<>> BY <4>3, JoinedFacts, Zenon
      <4>. QED BY <4>1, <4>4, Zenon DEF ReadBelow
    <3>5. \A s \in Seq(Entries) : <<>> \o s = s OBVIOUS
    <3>6. options = Over(<< >>, Says(tree)[MaxOpen - n][c.file]) BY <3>1, <3>3, <3>4, <3>5, Zenon
    <3>7. options = Said BY <1>9, <3>2, <3>6, Zenon DEF Said
    <3>. QED BY <1>0, <1>6, <3>2, <3>7, Zenon
  <2>4. Said' = Said BY <1>0, Zenon DEF Said
  <2>5. host' = "posix" => (outcome' = "loaded" => options' = Said' /\ Resolve(asked.dir, asked.path)' \in DOMAIN tree')
    BY <1>0, <2>3, <2>4, Zenon
  <2>. QED BY <1>t, <2>1, <2>2, <2>5, IdleStep, Zenon
<1>10. CASE n # 1
  <2>1. PICK new : new = Front(frames) OBVIOUS
  <2>2. CallsOK(tree, dir, frames) BY <1>2, Zenon DEF ConfigInv
  <2>3. /\ CallsOK(tree, dir, new) /\ new # <<>> /\ new[1] = frames[1]
        /\ Last(new).within /\ Last(new).file.dir = Base(dir, frames, Len(frames))
    <3>1. Len(frames) # 1 BY <1>3, <1>10
    <3>. QED BY <1>0, <1>5, <2>1, <2>2, <3>1, PopOK
  <2>4. Running' = Last(new) BY <1>0, <2>1, Zenon DEF Running
  <2>5. cwd' = IF Running'.within THEN Running'.file.dir ELSE Base(asked.dir, new, Len(new))
    BY <1>0, <1>3, <1>8, <2>3, <2>4, Zenon
  <2>6. outcome' = "none" /\ outcome' # "loaded"
    <3>1. outcome' = outcome BY <1>0, <1>3, <1>10, Zenon
    <3>2. "none" # "loaded" OBVIOUS
    <3>. QED BY <1>8, <3>1, <3>2, Zenon
  <2>7. ASSUME host = "posix" PROVE CallsRead(tree, new) /\ options' = Over(<< >>, ReadSoFar(tree, new))
    <3>1. CallsRead(tree, frames) /\ options = Over(<< >>, ReadSoFar(tree, frames)) BY <1>0, <2>7, Zenon DEF ConfigInv
    <3>2. ~frames[Len(frames)].within /\ frames[Len(frames)].at = Len(tree[frames[Len(frames)].file]) + 1
      BY <1>0, <1>1, <1>3, <1>4, <1>7, Zenon
    <3>3. Len(frames) # 1 BY <1>3, <1>10
    <3>4. CallsRead(tree, Front(frames)) /\ ReadSoFar(tree, Front(frames)) = ReadSoFar(tree, frames)
      BY <1>0, <1>t, <2>2, <3>1, <3>2, <3>3, PopRead, Zenon
    <3>. QED BY <1>0, <2>1, <3>1, <3>4, Zenon
  <2>. QED BY <1>0, <1>t, <1>2, <1>8, <2>1, <2>3, <2>5, <2>6, <2>7, Zenon DEF ConfigInv
<1>. QED BY <1>9, <1>10

(* load_from_file(). *)
LEMMA LoadStep ==
  ASSUME ConfigInv, NEW path, load_from_file(path) PROVE ConfigInv'
<1>0. /\ frames = <<>> /\ options' = << >> /\ asked' = [dir |-> cwd, path |-> path]
      /\ (IF Opens(path) THEN frames' = <<Call(path)>> /\ outcome' = "none" ELSE OpenFails)
      /\ tree' = tree /\ host' = host /\ cwd' = cwd
  BY Zenon DEF load_from_file
<1>t. tree \in ConfigTrees /\ tree' \in ConfigTrees BY <1>0, Zenon DEF ConfigInv
<1>1. CASE ~Opens(path) BY <1>0, <1>t, <1>1, ThrownStep, Zenon
<1>2. CASE Opens(path)
  <2>1. PICK c : c = Call(path) OBVIOUS
  <2>2. PICK new : new = <<c>> OBVIOUS
  <2>3. frames' = new /\ outcome' = "none" BY <1>0, <1>2, <2>1, <2>2, Zenon
  <2>4. asked'.dir = cwd /\ asked'.path = path BY <1>0
  <2>5. Resolve(cwd, path) \in DOMAIN tree BY <1>2, Zenon DEF Opens
  <2>m. MaxOpen \in Nat /\ MaxOpen # 0 BY ConfigAssumption
  <2>6. 1 \in 1 .. MaxOpen /\ 1 <= MaxOpen BY <2>m
  <2>7. /\ CallOK(tree, c, 0, cwd) /\ ReadingOK(tree, c, 0) /\ ReadBy(tree, 1, c, 0) = <<>>
        /\ c.file = Resolve(cwd, path) /\ ~c.within
    BY <1>t, <2>1, <2>5, <2>6, FreshCall, Zenon
  <2>8. IsList(new) /\ Len(new) = 1 /\ DOMAIN new = {1} /\ new[1] = c /\ new # <<>> /\ 1 .. (Len(new) - 1) = {}
    <3>1. new \in Seq({c}) /\ Len(new) = 1 /\ new[1] = c /\ new # <<>> BY <2>2
    <3>2. DOMAIN new = {1} /\ 1 .. (Len(new) - 1) = {} BY <3>1
    <3>. QED BY <3>1, <3>2, OwnElements, Zenon
  <2>9. Busy(new, 1) = 0 /\ Base(cwd, new, 1) = cwd BY <2>8 DEF Busy, Base
  <2>10. CallsOK(tree, cwd, new) BY <2>6, <2>7, <2>8, <2>9, Zenon DEF CallsOK
  <2>11. CallsRead(tree, new) BY <2>7, <2>8, <2>9, Zenon DEF CallsRead
  <2>12. ReadSoFar(tree, new) = <<>>
    <3>1. ReadSoFar(tree, new) = ReadBelow(tree, new, 1) BY <2>8, Zenon DEF ReadSoFar, ReadBelow, Reads
    <3>2. 1 \in 1 .. Len(new) BY <2>8
    <3>3. ReadBelow(tree, new, 1) = ReadBelow(tree, new, 1 - 1) \o ReadBy(tree, 1, new[1], Busy(new, 1))
      BY <1>t, <2>10, <2>11, <3>2, ReadTop, Zenon
    <3>4. Reads(tree, new) \in Seq(Seq(Entries)) BY <1>t, <2>10, <2>11, ReadsFacts, Zenon
    <3>5. Joined(Reads(tree, new), 0) = <<>> BY <3>4, JoinedFacts, Zenon
    <3>6. 1 - 1 = 0 /\ <<>> \o <<>> = <<>> OBVIOUS
    <3>7. ReadBelow(tree, new, 1 - 1) = <<>> BY <3>5, <3>6, Zenon DEF ReadBelow
    <3>. QED BY <2>7, <2>8, <2>9, <3>1, <3>3, <3>6, <3>7, Zenon
  <2>13. options' = Over(<< >>, ReadSoFar(tree, new)) BY <1>0, <2>12, OverNone, Zenon
  <2>14. Running' = c BY <2>3, <2>8, Zenon DEF Running, Last
  <2>15. cwd' = IF Running'.within THEN Running'.file.dir ELSE Base(asked'.dir, new, Len(new))
    BY <1>0, <2>4, <2>7, <2>8, <2>9, <2>14, Zenon
  <2>16. outcome' # "loaded" BY <2>3
  <2>17. new[1].file = Resolve(asked'.dir, asked'.path) BY <2>4, <2>7, <2>8, Zenon
  <2>. QED BY <1>0, <1>t, <2>3, <2>4, <2>8, <2>10, <2>11, <2>13, <2>15, <2>16, <2>17, Zenon DEF ConfigInv
<1>. QED BY <1>1, <1>2

(* The invariant holds initially. *)
LEMMA ConfigStarts == ConfigInit => ConfigInv
<1>1. SUFFICES ASSUME ConfigInit PROVE ConfigInv OBVIOUS
<1>2. tree \in ConfigTrees /\ frames = <<>> /\ outcome = "none" BY <1>1 DEF ConfigInit
<1>3. outcome # "loaded" BY <1>2
<1>4. CallsOK(tree, asked.dir, frames)
  <2>1. IsList(<<>>) BY DEF IsList
  <2>a. MaxOpen \in Nat BY ConfigAssumption
  <2>b. Len(<<>>) = 0 /\ DOMAIN <<>> = {} OBVIOUS
  <2>2. Len(<<>>) <= MaxOpen BY <2>a, <2>b
  <2>. QED BY <1>2, <2>1, <2>2, <2>b, Zenon DEF CallsOK
<1>5. CallsRead(tree, frames)
  <2>1. DOMAIN <<>> = {} /\ 1 .. (Len(<<>>) - 1) = {} OBVIOUS
  <2>. QED BY <1>2, <2>1, Zenon DEF CallsRead
<1>. QED BY <1>2, <1>3, <1>4, <1>5, Zenon DEF ConfigInv

(* Every step preserves the invariant. *)
LEMMA ConfigStep == ConfigInv /\ [ConfigNext]_cfgVars => ConfigInv'
<1>1. SUFFICES ASSUME ConfigInv, [ConfigNext]_cfgVars PROVE ConfigInv' OBVIOUS
<1>2. CASE UNCHANGED cfgVars
  <2>1. /\ tree' = tree /\ host' = host /\ options' = options /\ cwd' = cwd /\ asked' = asked
        /\ frames' = frames /\ outcome' = outcome
    BY <1>2, Zenon DEF cfgVars
  <2>2. Running' = Running /\ Said' = Said BY <2>1, Zenon DEF Running, Said
  <2>. QED BY <1>1, <2>1, <2>2, Zenon DEF ConfigInv
<1>3. CASE \E path \in ConfigNames : load_from_file(path) BY <1>1, <1>3, LoadStep, Zenon
<1>4. CASE Edit BY <1>1, <1>4, EditStep, Zenon
<1>5. CASE SkipLine BY <1>1, <1>5, SkipStep, Zenon
<1>6. CASE SectionLine BY <1>1, <1>6, SectionLineStep, Zenon
<1>7. CASE OptionLine BY <1>1, <1>7, OptionLineStep, Zenon
<1>8. CASE IncludeLine BY <1>1, <1>8, IncludeLineStep, Zenon
<1>9. CASE IncludeNext BY <1>1, <1>9, IncludeNextStep, Zenon
<1>10. CASE IncludeDone BY <1>1, <1>10, IncludeDoneStep, Zenon
<1>11. CASE EndOfFile BY <1>1, <1>11, EndStep, Zenon
<1>. QED BY <1>1, <1>2, <1>3, <1>4, <1>5, <1>6, <1>7, <1>8, <1>9, <1>10, <1>11, Zenon DEF ConfigNext

(* Keys are pairs of a section and a name. *)
LEMMA SaidKeys ==
  ASSUME ConfigInv, Resolve(asked.dir, asked.path) \in DOMAIN tree, NEW key \in DOMAIN Said
  PROVE  key = <<key[1], key[2]>>
<1>1. PICK file \in DOMAIN tree : file = Resolve(asked.dir, asked.path) OBVIOUS
<1>2. PICK d \in 0 .. MaxOpen : d = MaxOpen - 1
  <2>1. MaxOpen \in Nat /\ MaxOpen # 0 BY ConfigAssumption
  <2>. QED BY <2>1
<1>3. tree \in ConfigTrees BY Zenon DEF ConfigInv
<1>4. Says(tree)[d] \in [DOMAIN tree -> Seq(Entries)] BY <1>3, SaysFacts, Zenon
<1>5. PICK s \in Seq(Entries) : s = Says(tree)[d][file] BY <1>4
<1>6. DOMAIN Said = DOMAIN << >> \cup Keys(s) BY <1>1, <1>2, <1>5, Zenon DEF Said, Over
<1>7. DOMAIN << >> = {} OBVIOUS
<1>8. PICK i \in DOMAIN s : key = s[i].key BY <1>6, <1>7, Zenon DEF Keys
<1>9. s[i] \in Entries OBVIOUS
<1>10. key \in ConfigWords \X ConfigWords BY <1>8, <1>9 DEF Entries
<1>. QED BY <1>10

(* app_config::load_from_file(), for every file system, name and bound on
   open files: a call that returns is back in the directory it was made in and,
   on POSIX, the queries answer by exactly what the file and its includes say. *)
THEOREM ConfigSafe == ConfigSpec => []ConfigMeaning
<1>1. ConfigInv => ConfigMeaning
  <2>1. SUFFICES ASSUME ConfigInv, outcome = "loaded" PROVE
           /\ cwd = asked.dir
           /\ host = "posix" =>
                \A key \in DOMAIN Said \cup DOMAIN options :
                  /\ key \in DOMAIN Said
                  /\ key \in section_options(key[1])
                  /\ value_string(key[1], key[2], "default") = Said[key]
                  /\ value_bool(key[1], key[2], TRUE) = (Said[key] \in {"YES", "ON", "TRUE", "1"})
    BY Zenon DEF ConfigMeaning
  <2>2. cwd = asked.dir BY <2>1, Zenon DEF ConfigInv
  <2>3. ASSUME host = "posix", NEW key \in DOMAIN Said \cup DOMAIN options
        PROVE  /\ key \in DOMAIN Said
               /\ key \in section_options(key[1])
               /\ value_string(key[1], key[2], "default") = Said[key]
               /\ value_bool(key[1], key[2], TRUE) = (Said[key] \in {"YES", "ON", "TRUE", "1"})
    <3>1. options = Said /\ Resolve(asked.dir, asked.path) \in DOMAIN tree BY <2>1, <2>3, Zenon DEF ConfigInv
    <3>2. key \in DOMAIN Said /\ key \in DOMAIN options BY <3>1
    <3>3. key = <<key[1], key[2]>> BY <2>1, <3>1, <3>2, SaidKeys, Zenon
    <3>4. key \in section_options(key[1]) BY <3>2, Zenon DEF section_options
    <3>5. \A def : value_string(key[1], key[2], def) = Said[key] BY <3>1, <3>2, <3>3, Zenon DEF value_string
    <3>6. value_bool(key[1], key[2], TRUE) = (Said[key] \in {"YES", "ON", "TRUE", "1"}) BY <3>5, Zenon DEF value_bool
    <3>. QED BY <3>2, <3>4, <3>5, <3>6, Zenon
  <2>. QED BY <2>2, <2>3, Zenon
<1>. QED BY <1>1, ConfigStarts, ConfigStep, PTL DEF ConfigSpec
-----------------------------------------------------------------------------
(***************************************************************************)
(* encoder_md5: the blocks that are transformed are those of the padded      *)
(* message.  A context that has taken in the sequence s holds it (Digested):  *)
(* its whole blocks are in the chain, what is left over is at the head of     *)
(* the buffer and the two words count its bits.  MD5Update keeps that, reads  *)
(* of any length after one another; MD5Final completes the last block.        *)
(***************************************************************************)

(* Quotient and remainder of a natural number. *)
LEMMA Division ==
  ASSUME NEW a \in Nat, NEW d \in Nat \ {0}
  PROVE  /\ a \div d \in Nat /\ a % d \in 0 .. (d - 1)
         /\ a = d * (a \div d) + (a % d)
  OBVIOUS

(* Two multiples of a number are that number apart. *)
LEMMA Multiples ==
  ASSUME NEW d \in Nat, NEW p \in Nat, NEW q \in Nat, p < q
  PROVE  d * p \in Nat /\ d * q \in Nat /\ d * p + d <= d * q
<1>1. PICK k \in Nat : q = p + 1 + k BY q - p - 1 \in Nat
<1>2. d * q = d * p + d + d * k BY <1>1
<1>3. d * k \in Nat /\ d * p \in Nat /\ d * q \in Nat OBVIOUS
<1>. QED BY <1>2, <1>3

(* Quotient and remainder are the only such pair. *)
LEMMA QuotientIs ==
  ASSUME NEW d \in Nat \ {0}, NEW x \in Nat, NEW q \in Nat, NEW r \in 0 .. (d - 1), x = d * q + r
  PROVE  x \div d = q /\ x % d = r
<1>2. PICK p \in Nat : p = x \div d BY Division
<1>3. PICK s \in 0 .. (d - 1) : s = x % d BY Division
<1>4. d * q + r = d * p + s BY <1>2, <1>3, Division
<1>5. ~(p < q) BY <1>4, Multiples
<1>6. ~(q < p) BY <1>4, Multiples
<1>7. p = q BY <1>5, <1>6
<1>8. s = r BY <1>4, <1>7
<1>. QED BY <1>2, <1>3, <1>7, <1>8

(* A remainder may be taken before an addition. *)
LEMMA SumRemainder ==
  ASSUME NEW d \in Nat \ {0}, NEW h \in Nat, NEW m \in Nat
  PROVE  ((h % d) + m) % d = (h + m) % d
<1>1. PICK k \in Nat : h = d * k + (h % d) BY Division
<1>2. h % d \in Nat BY Division
<1>3. PICK x \in Nat : x = (h % d) + m BY <1>2
<1>4. PICK j \in Nat, r \in 0 .. (d - 1) : x = d * j + r /\ r = x % d
  <2>1. x \div d \in Nat /\ x % d \in 0 .. (d - 1) /\ x = d * (x \div d) + (x % d) BY Division
  <2>. QED BY <2>1
<1>5. h + m = d * k + x BY <1>1, <1>2, <1>3
<1>6. PICK y \in Nat, w \in Nat : y = h + m /\ w = k + j OBVIOUS
<1>7. y = d * w + r
  <2>1. d * k \in Nat /\ d * j \in Nat /\ d * w = d * k + d * j BY <1>6
  <2>. QED BY <1>4, <1>5, <1>6, <2>1
<1>8. (h + m) % d = r
  <2>1. y % d = r BY <1>7, QuotientIs
  <2>. QED BY <1>6, <2>1
<1>. QED BY <1>3, <1>4, <1>8

(* The count of bits tells how far the block is filled.                    *)
LEMMA CountFills ==
  ASSUME NEW r \in Nat
  PROVE  LowBits(r) \in Nat /\ HighBits(r) \in Nat /\ (LowBits(r) \div 8) % BlockBytes = r % BlockBytes
<1>1. /\ BlockBytes \in Nat \ {0} /\ CounterMod \in Nat \ {0} /\ CounterMod % (8 * BlockBytes) = 0
      /\ 8 * BlockBytes \in Nat \ {0} /\ 8 * r \in Nat
  BY MD5Assumption DEF LengthWords
<1>2. PICK q \in Nat : CounterMod = (8 * BlockBytes) * q
  <2>1. CounterMod = (8 * BlockBytes) * (CounterMod \div (8 * BlockBytes)) + (CounterMod % (8 * BlockBytes))
    BY <1>1, Division
  <2>2. CounterMod \div (8 * BlockBytes) \in Nat BY <1>1, Division
  <2>. QED BY <1>1, <2>1, <2>2
<1>3. PICK k \in Nat, lo \in 0 .. (CounterMod - 1) : 8 * r = CounterMod * k + lo /\ lo = (8 * r) % CounterMod
  <2>1. (8 * r) \div CounterMod \in Nat /\ (8 * r) % CounterMod \in 0 .. (CounterMod - 1)
        /\ 8 * r = CounterMod * ((8 * r) \div CounterMod) + ((8 * r) % CounterMod)
    BY <1>1, Division
  <2>. QED BY <2>1
<1>4. PICK m \in Nat : m = BlockBytes * (q * k)
  <2>1. q * k \in Nat OBVIOUS
  <2>. QED BY <1>1, <2>1
<1>5. CounterMod * k = 8 * m BY <1>1, <1>2, <1>4
<1>6. PICK x \in Nat : lo = 8 * x /\ r = m + x
  <2>1. 8 * r = 8 * m + lo BY <1>3, <1>5
  <2>2. lo = 8 * (r - m) /\ r - m \in Nat BY <2>1
  <2>. QED BY <2>2
<1>7. lo \div 8 = x BY <1>6
<1>8. PICK j \in Nat, f \in 0 .. (BlockBytes - 1) : x = BlockBytes * j + f /\ f = x % BlockBytes
  <2>1. x \div BlockBytes \in Nat /\ x % BlockBytes \in 0 .. (BlockBytes - 1)
        /\ x = BlockBytes * (x \div BlockBytes) + (x % BlockBytes)
    BY <1>1, Division
  <2>. QED BY <2>1
<1>9. PICK w \in Nat : r = BlockBytes * w + f
  <2>1. PICK v \in Nat : v = q * k OBVIOUS
  <2>2. PICK w \in Nat : w = v + j OBVIOUS
  <2>3. BlockBytes * w = BlockBytes * v + BlockBytes * j /\ BlockBytes * v = m BY <1>1, <1>4, <2>1, <2>2
  <2>4. BlockBytes * j \in Nat BY <1>1
  <2>5. r = BlockBytes * w + f BY <1>6, <1>8, <2>3, <2>4
  <2>. QED BY <2>5
<1>10. r % BlockBytes = f BY <1>1, <1>9, QuotientIs
<1>11. LowBits(r) = lo /\ lo \in Nat BY <1>3 DEF LowBits
<1>12. HighBits(r) \in Nat
  <2>1. (8 * r) \div CounterMod \in Nat BY <1>1, Division
  <2>2. ((8 * r) \div CounterMod) % CounterMod \in 0 .. (CounterMod - 1) BY <1>1, <2>1, Division
  <2>. QED BY <2>2 DEF HighBits
<1>. QED BY <1>7, <1>8, <1>10, <1>11, <1>12

(* The bits of a buffer are added with their carry.                        *)
LEMMA CountAdds ==
  ASSUME NEW r \in Nat, NEW len \in Nat, NEW ctx \in Contexts, ctx.lo = LowBits(r), ctx.hi = HighBits(r)
  PROVE  /\ Counted(ctx, len) \in Contexts
         /\ Counted(ctx, len).in = ctx.in /\ Counted(ctx, len).chain = ctx.chain
         /\ Counted(ctx, len).lo = LowBits(r + len) /\ Counted(ctx, len).hi = HighBits(r + len)
<1>1. CounterMod \in Nat \ {0} /\ 8 * r \in Nat /\ 8 * len \in Nat BY MD5Assumption
<1>2. PICK h \in Nat, lo \in 0 .. (CounterMod - 1) :
        8 * r = CounterMod * h + lo /\ lo = (8 * r) % CounterMod /\ h = (8 * r) \div CounterMod
  <2>1. (8 * r) \div CounterMod \in Nat /\ (8 * r) % CounterMod \in 0 .. (CounterMod - 1)
        /\ 8 * r = CounterMod * ((8 * r) \div CounterMod) + ((8 * r) % CounterMod)
    BY <1>1, Division
  <2>. QED BY <2>1
<1>3. PICK a \in Nat, b \in 0 .. (CounterMod - 1) :
        8 * len = CounterMod * a + b /\ a = (8 * len) \div CounterMod
  <2>1. (8 * len) \div CounterMod \in Nat /\ (8 * len) % CounterMod \in 0 .. (CounterMod - 1)
        /\ 8 * len = CounterMod * ((8 * len) \div CounterMod) + ((8 * len) % CounterMod)
    BY <1>1, Division
  <2>. QED BY <2>1
<1>4. PICK c \in {0, 1}, new \in 0 .. (CounterMod - 1) :
        lo + b = CounterMod * c + new /\ (new < lo <=> c = 1)
  <2>1. CASE lo + b < CounterMod
    <3>1. lo + b \in 0 .. (CounterMod - 1) /\ lo + b = CounterMod * 0 + (lo + b) /\ ~(lo + b < lo) BY <1>1, <2>1
    <3>. QED BY <3>1
  <2>2. CASE ~(lo + b < CounterMod)
    <3>1. PICK new \in 0 .. (CounterMod - 1) : lo + b = CounterMod + new /\ new < lo
      <4>1. lo + b - CounterMod \in 0 .. (CounterMod - 1) /\ lo + b - CounterMod < lo BY <1>1, <2>2
      <4>. QED BY <1>1, <4>1
    <3>2. CounterMod * 1 = CounterMod BY <1>1
    <3>. QED BY <3>1, <3>2
  <2>. QED BY <2>1, <2>2
<1>5. PICK e \in Nat, g \in Nat : e = a + c /\ g = h + e OBVIOUS
<1>6. c \in Nat /\ new \in Nat /\ CounterMod * e = CounterMod * a + CounterMod * c BY <1>1, <1>5
<1>7. CounterMod * g = CounterMod * h + CounterMod * e BY <1>1, <1>5
<1>8. CounterMod * a \in Nat /\ CounterMod * h \in Nat /\ CounterMod * c \in Nat /\ CounterMod * e \in Nat
  BY <1>1, <1>5, <1>6
<1>9. PICK x \in Nat : x = lo + 8 * len /\ x = CounterMod * e + new BY <1>1, <1>3, <1>4, <1>6, <1>8
<1>10. PICK y \in Nat : y = 8 * (r + len) /\ y = CounterMod * g + new
  <2>1. 8 * (r + len) \in Nat /\ 8 * (r + len) = 8 * r + 8 * len OBVIOUS
  <2>. QED BY <1>1, <1>2, <1>6, <1>7, <1>8, <1>9, <2>1
<1>11. x % CounterMod = new BY <1>1, <1>9, QuotientIs
<1>12. y % CounterMod = new /\ y \div CounterMod = g BY <1>1, <1>10, QuotientIs
<1>13. ctx.lo = lo /\ ctx.hi = h % CounterMod BY <1>2 DEF LowBits, HighBits
<1>14. h % CounterMod \in Nat BY <1>1, Division
<1>15. PICK carry : carry = IF new < ctx.lo THEN 1 ELSE 0 OBVIOUS
<1>16. carry = c BY <1>4, <1>13, <1>15
<1>17. (ctx.hi + carry + (8 * len) \div CounterMod) % CounterMod = g % CounterMod
  <2>1. ctx.hi + carry + (8 * len) \div CounterMod = (h % CounterMod) + e
    BY <1>3, <1>5, <1>6, <1>13, <1>14, <1>16
  <2>2. ((h % CounterMod) + e) % CounterMod = (h + e) % CounterMod BY <1>1, SumRemainder
  <2>. QED BY <1>5, <2>1, <2>2
<1>18. PICK hi \in Nat : hi = g % CounterMod
  <2>1. g % CounterMod \in Nat BY <1>1, Division
  <2>. QED BY <2>1
<1>19. Counted(ctx, len) = [ctx EXCEPT !.lo = new, !.hi = hi]
  <2>1. (ctx.lo + 8 * len) % CounterMod = new BY <1>9, <1>11, <1>13
  <2>. QED BY <1>15, <1>17, <1>18, <2>1, Zenon DEF Counted
<1>20. LowBits(r + len) = new /\ HighBits(r + len) = hi BY <1>10, <1>12, <1>18, Zenon DEF LowBits, HighBits
<1>21. [ctx EXCEPT !.lo = new, !.hi = hi] \in Contexts BY <1>6 DEF Contexts
<1>22. /\ [ctx EXCEPT !.lo = new, !.hi = hi].in = ctx.in /\ [ctx EXCEPT !.lo = new, !.hi = hi].chain = ctx.chain
       /\ [ctx EXCEPT !.lo = new, !.hi = hi].lo = new /\ [ctx EXCEPT !.lo = new, !.hi = hi].hi = hi
  BY DEF Contexts
<1>. QED BY <1>19, <1>20, <1>21, <1>22, Zenon

(* A block has room for the length and one place more. *)
LEMMA BlockSize == BlockBytes \in Nat \ {0, 1, 2}
BY MD5Assumption DEF LengthWords

(* Where the block b of n blocks lies. *)
LEMMA BlockPlaces ==
  ASSUME NEW n \in Nat, NEW b \in 1 .. n
  PROVE  BlockBytes * (b - 1) \in Nat /\ BlockBytes * n \in Nat /\ BlockBytes * (b - 1) + BlockBytes <= BlockBytes * n
         /\ BlockBytes * b = BlockBytes * (b - 1) + BlockBytes
<1>1. PICK p \in Nat : p = b - 1 /\ p < n OBVIOUS
<1>2. BlockBytes * p + BlockBytes <= BlockBytes * n /\ BlockBytes * p \in Nat /\ BlockBytes * n \in Nat
  BY <1>1, BlockSize, Multiples
<1>3. BlockBytes * (p + 1) = BlockBytes * p + BlockBytes BY BlockSize
<1>4. b = p + 1 BY <1>1
<1>. QED BY <1>1, <1>2, <1>3, <1>4

(* A block that lies within a sequence. *)
LEMMA BlockFacts ==
  ASSUME NEW s \in Seq(Int), NEW n \in Nat, BlockBytes * n <= Len(s), NEW b \in 1 .. n
  PROVE  /\ Block(s, b) \in Seq(Int) /\ Len(Block(s, b)) = BlockBytes
         /\ \A i \in 1 .. BlockBytes : Block(s, b)[i] = s[BlockBytes * (b - 1) + i]
<1>1. PICK lo \in Nat : lo = BlockBytes * (b - 1) /\ BlockBytes * b = lo + BlockBytes /\ lo + BlockBytes <= Len(s)
  BY BlockPlaces, BlockSize
<1>2. Block(s, b) = SubSeq(s, lo + 1, lo + BlockBytes) BY <1>1 DEF Block
<1>3. SubSeq(s, lo + 1, lo + BlockBytes) \in Seq(Int) /\ Len(SubSeq(s, lo + 1, lo + BlockBytes)) = BlockBytes
      /\ \A i \in 1 .. BlockBytes : SubSeq(s, lo + 1, lo + BlockBytes)[i] = s[lo + i]
  BY <1>1, BlockSize
<1>. QED BY <1>1, <1>2, <1>3

(* Appending to a sequence leaves its whole blocks as they are. *)
LEMMA BlockSame ==
  ASSUME NEW s \in Seq(Int), NEW u \in Seq(Int), NEW n \in Nat, BlockBytes * n <= Len(s), NEW b \in 1 .. n
  PROVE  Block(s \o u, b) = Block(s, b)
<1>1. s \o u \in Seq(Int) /\ Len(s \o u) = Len(s) + Len(u) OBVIOUS
<1>2. BlockBytes * n <= Len(s \o u)
  <2>1. BlockBytes * n \in Nat BY BlockSize
  <2>. QED BY <1>1, <2>1
<1>3. PICK x \in Seq(Int) : /\ x = Block(s \o u, b) /\ Len(x) = BlockBytes
                            /\ \A i \in 1 .. BlockBytes : x[i] = (s \o u)[BlockBytes * (b - 1) + i]
  BY <1>1, <1>2, BlockFacts
<1>4. PICK y \in Seq(Int) : /\ y = Block(s, b) /\ Len(y) = BlockBytes
                            /\ \A i \in 1 .. BlockBytes : y[i] = s[BlockBytes * (b - 1) + i]
  BY BlockFacts
<1>5. ASSUME NEW i \in 1 .. BlockBytes PROVE x[i] = y[i]
  <2>1. PICK lo \in Nat : lo = BlockBytes * (b - 1) BY BlockPlaces
  <2>2. PICK m \in Nat : m = BlockBytes * n /\ lo + BlockBytes <= m BY <2>1, BlockPlaces, Zenon
  <2>5. Len(s) \in Nat /\ m <= Len(s) BY <2>2
  <2>4. lo + i \in 1 .. Len(s)
    <3>1. lo + BlockBytes <= m BY <2>2
    <3>. QED BY <2>5, <3>1, BlockSize
  <2>3. (s \o u)[lo + i] = s[lo + i] BY <2>4
  <2>. QED BY <1>3, <1>4, <2>1, <2>3
<1>6. x = y BY <1>3, <1>4, <1>5, BlockSize, SeqEqual
<1>. QED BY <1>3, <1>4, <1>6

(* memcpy() appends to what a context holds.                               *)
LEMMA PutHeld ==
  ASSUME NEW ctx \in Contexts, NEW s \in Seq(Int), NEW u \in Seq(Int), NEW n \in Nat, NEW fill \in Nat,
         Held(ctx, s, n, fill), fill + Len(u) <= BlockBytes
  PROVE  /\ Put(ctx, fill, u) \in Contexts /\ Held(Put(ctx, fill, u), s \o u, n, fill + Len(u))
         /\ Put(ctx, fill, u).lo = ctx.lo /\ Put(ctx, fill, u).hi = ctx.hi
<1>1. PICK m \in Nat : m = BlockBytes * n BY BlockSize
<1>2. Len(u) \in Nat /\ Len(s) \in Nat /\ s \o u \in Seq(Int) /\ Len(s \o u) = Len(s) + Len(u) OBVIOUS
<1>3. PICK block \in [1 .. BlockBytes -> Int] :
        block = [i \in 1 .. BlockBytes |-> IF i - fill \in 1 .. Len(u) THEN u[i - fill] ELSE ctx.in[i]]
  <2>1. \A i \in 1 .. BlockBytes : (IF i - fill \in 1 .. Len(u) THEN u[i - fill] ELSE ctx.in[i]) \in Int
    <3>1. \A i \in 1 .. BlockBytes : ctx.in[i] \in Int BY DEF Contexts
    <3>2. \A j \in 1 .. Len(u) : u[j] \in Int OBVIOUS
    <3>. QED BY <3>1, <3>2
  <2>. QED BY <2>1
<1>4. PICK c \in Contexts : c = Put(ctx, fill, u) /\ c = [ctx EXCEPT !.in = block]
  <2>1. Put(ctx, fill, u) = [ctx EXCEPT !.in = block] BY <1>3, Zenon DEF Put
  <2>2. [ctx EXCEPT !.in = block] \in Contexts BY DEF Contexts
  <2>. QED BY <2>1, <2>2
<1>5. c.in = block /\ c.chain = ctx.chain /\ c.lo = ctx.lo /\ c.hi = ctx.hi BY <1>4 DEF Contexts
<1>6. Held(c, s \o u, n, fill + Len(u))
  <2>1. Len(s) = m + fill /\ Len(ctx.chain) = n /\ \A b \in 1 .. n : ctx.chain[b] = Block(s, b)
    BY <1>1 DEF Held
  <2>2. Len(s \o u) = m + (fill + Len(u)) BY <1>2, <2>1
  <2>3. \A b \in 1 .. n : c.chain[b] = Block(s \o u, b)
    <3>1. BlockBytes * n <= Len(s) BY <1>1, <2>1
    <3>. QED BY <1>5, <2>1, <3>1, BlockSame
  <2>4. ASSUME NEW i \in 1 .. (fill + Len(u)) PROVE c.in[i] = (s \o u)[m + i]
    <3>1. i \in 1 .. BlockBytes BY <1>2, BlockSize
    <3>2. CASE i <= fill
      <4>1. i - fill \notin 1 .. Len(u) /\ i \in 1 .. fill BY <3>2, <1>2
      <4>2. block[i] = ctx.in[i] BY <1>3, <3>1, <4>1
      <4>3. ctx.in[i] = s[m + i] BY <1>1, <4>1 DEF Held
      <4>4. m + i \in 1 .. Len(s) BY <2>1, <3>2
      <4>. QED BY <1>5, <4>2, <4>3, <4>4
    <3>3. CASE i > fill
      <4>1. PICK j \in 1 .. Len(u) : j = i - fill BY <1>2, <3>3
      <4>2. block[i] = u[j] BY <1>3, <3>1, <4>1
      <4>3. m + i = Len(s) + j BY <2>1, <4>1
      <4>4. (s \o u)[Len(s) + j] = u[j] BY <1>2, SMTT(30)
      <4>. QED BY <1>5, <4>2, <4>3, <4>4
    <3>4. i <= fill \/ i > fill BY <1>2
    <3>. QED BY <3>2, <3>3, <3>4, Zenon
  <2>. QED BY <1>1, <1>5, <2>1, <2>2, <2>3, <2>4 DEF Held
<1>. QED BY <1>4, <1>5, <1>6

(* MD5Transform takes a full block.                                        *)
LEMMA TransformHeld ==
  ASSUME NEW ctx \in Contexts, NEW s \in Seq(Int), NEW n \in Nat, Held(ctx, s, n, BlockBytes)
  PROVE  /\ MD5Transform(ctx) \in Contexts /\ Held(MD5Transform(ctx), s, n + 1, 0)
         /\ MD5Transform(ctx).lo = ctx.lo /\ MD5Transform(ctx).hi = ctx.hi
<1>1. PICK m \in Nat : m = BlockBytes * n /\ BlockBytes * (n + 1) = m + BlockBytes /\ BlockBytes * (n + 1 - 1) = m
  <2>1. n + 1 \in 1 .. (n + 1) /\ n + 1 - 1 = n OBVIOUS
  <2>2. BlockBytes * n \in Nat /\ BlockBytes * (n + 1) = BlockBytes * n + BlockBytes BY BlockSize
  <2>. QED BY <2>1, <2>2
<1>2. PICK block \in Seq(Int) : block = ctx.in /\ Len(block) = BlockBytes
  <2>1. ctx.in \in [1 .. BlockBytes -> Int] BY DEF Contexts
  <2>2. ctx.in = [i \in 1 .. BlockBytes |-> ctx.in[i]] /\ \A i \in 1 .. BlockBytes : ctx.in[i] \in Int BY <2>1
  <2>3. PICK block : block = [i \in 1 .. BlockBytes |-> ctx.in[i]] OBVIOUS
  <2>4. block \in Seq(Int) /\ Len(block) = BlockBytes BY <2>2, <2>3, BlockSize
  <2>. QED BY <2>2, <2>3, <2>4
<1>3. Len(s) = m + BlockBytes /\ Len(ctx.chain) = n /\ \A b \in 1 .. n : ctx.chain[b] = Block(s, b)
  BY <1>1 DEF Held
<1>4. block = Block(s, n + 1)
  <2>1. PICK x \in Seq(Int) : x = Block(s, n + 1) /\ Len(x) = BlockBytes /\ \A i \in 1 .. BlockBytes : x[i] = s[m + i]
    <3>1. n + 1 \in Nat /\ n + 1 \in 1 .. (n + 1) /\ BlockBytes * (n + 1) <= Len(s) BY <1>1, <1>3, BlockSize
    <3>2. /\ Block(s, n + 1) \in Seq(Int) /\ Len(Block(s, n + 1)) = BlockBytes
          /\ \A i \in 1 .. BlockBytes : Block(s, n + 1)[i] = s[BlockBytes * (n + 1 - 1) + i]
      BY <3>1, BlockFacts
    <3>. QED BY <1>1, <3>2
  <2>2. \A i \in 1 .. BlockBytes : block[i] = s[m + i] BY <1>1, <1>2 DEF Held
  <2>3. block = x BY <1>2, <2>1, <2>2, BlockSize, SeqEqual
  <2>. QED BY <2>1, <2>3
<1>5. PICK chain \in Seq(Seq(Int)) : /\ chain = Append(ctx.chain, ctx.in) /\ Len(chain) = n + 1
                                     /\ chain[n + 1] = block /\ \A b \in 1 .. n : chain[b] = ctx.chain[b]
  <2>1. ctx.chain \in Seq(Seq(Int)) BY DEF Contexts
  <2>2. PICK old \in Seq(Seq(Int)) : old = ctx.chain /\ Len(old) = n BY <1>3, <2>1
  <2>3. /\ Append(old, block) \in Seq(Seq(Int)) /\ Len(Append(old, block)) = n + 1
        /\ Append(old, block)[n + 1] = block /\ \A b \in 1 .. n : Append(old, block)[b] = old[b]
    BY <2>2
  <2>. QED BY <1>2, <2>2, <2>3
<1>6. PICK c \in Contexts : c = MD5Transform(ctx) /\ c = [ctx EXCEPT !.chain = chain]
  <2>1. MD5Transform(ctx) = [ctx EXCEPT !.chain = chain] BY <1>5 DEF MD5Transform, Contexts
  <2>2. [ctx EXCEPT !.chain = chain] \in Contexts BY DEF Contexts
  <2>. QED BY <2>1, <2>2
<1>7. c.chain = chain /\ c.lo = ctx.lo /\ c.hi = ctx.hi BY <1>6 DEF Contexts
<1>8. Held(c, s, n + 1, 0)
  <2>1. Len(s) = BlockBytes * (n + 1) + 0 BY <1>1, <1>3, BlockSize
  <2>2. \A b \in 1 .. (n + 1) : c.chain[b] = Block(s, b)
    <3>1. ASSUME NEW b \in 1 .. (n + 1) PROVE c.chain[b] = Block(s, b)
      <4>1. CASE b = n + 1 BY <1>4, <1>5, <1>7, <4>1
      <4>2. CASE b # n + 1
        <5>1. b \in 1 .. n BY <4>2
        <5>. QED BY <1>3, <1>5, <1>7, <5>1
      <4>. QED BY <4>1, <4>2
    <3>. QED BY <3>1
  <2>. QED BY <1>5, <1>7, <2>1, <2>2 DEF Held
<1>. QED BY <1>6, <1>7, <1>8

(* memcpy() keeps a context one. *)
LEMMA PutType ==
  ASSUME NEW ctx \in Contexts, NEW at \in Nat, NEW u \in Seq(Int)
  PROVE  Put(ctx, at, u) \in Contexts
<1>1. \A i \in 1 .. BlockBytes : (IF i - at \in 1 .. Len(u) THEN u[i - at] ELSE ctx.in[i]) \in Int
  <2>1. \A i \in 1 .. BlockBytes : ctx.in[i] \in Int BY DEF Contexts
  <2>2. \A j \in 1 .. Len(u) : u[j] \in Int OBVIOUS
  <2>. QED BY <2>1, <2>2
<1>2. PICK block \in [1 .. BlockBytes -> Int] :
        block = [i \in 1 .. BlockBytes |-> IF i - at \in 1 .. Len(u) THEN u[i - at] ELSE ctx.in[i]]
  BY <1>1
<1>3. Put(ctx, at, u) = [ctx EXCEPT !.in = block] BY <1>2, Zenon DEF Put
<1>. QED BY <1>3 DEF Contexts

(* So does MD5Transform. *)
LEMMA TransformType == ASSUME NEW ctx \in Contexts PROVE MD5Transform(ctx) \in Contexts
<1>1. ctx.in \in [1 .. BlockBytes -> Int] /\ ctx.chain \in Seq(Seq(Int)) BY DEF Contexts
<1>2. ctx.in = [i \in 1 .. BlockBytes |-> ctx.in[i]] /\ \A i \in 1 .. BlockBytes : ctx.in[i] \in Int BY <1>1
<1>3. PICK block : block = [i \in 1 .. BlockBytes |-> ctx.in[i]] OBVIOUS
<1>4. block \in Seq(Int) BY <1>2, <1>3, BlockSize
<1>5. PICK old \in Seq(Seq(Int)) : old = ctx.chain BY <1>1
<1>6. PICK chain \in Seq(Seq(Int)) : chain = Append(old, block)
  <2>1. Append(old, block) \in Seq(Seq(Int)) BY <1>4
  <2>. QED BY <2>1, Zenon
<1>7. MD5Transform(ctx) = [ctx EXCEPT !.chain = chain]
  BY <1>2, <1>3, <1>5, <1>6 DEF MD5Transform, Contexts
<1>. QED BY <1>7 DEF Contexts

(* Sequences of integers with the same elements are equal. *)
LEMMA SameSequence ==
  ASSUME NEW x \in Seq(Int), NEW y \in Seq(Int), Len(x) = Len(y), \A i \in 1 .. Len(x) : x[i] = y[i]
  PROVE  x = y
BY SeqEqual

Assoc(x, y, z) == (x \o y) \o z = x \o (y \o z)
(* Concatenation is associative. *)
LEMMA Associative ==
  ASSUME NEW X, NEW x \in Seq(X), NEW y \in Seq(X), NEW z \in Seq(X)
  PROVE  Assoc(x, y, z)
BY ConcatAssociative DEF Assoc

(* A prefix and the piece behind it.                                       *)
CutsAt(s, u, a, e) ==
  /\ (s \o SubSeq(u, 1, a)) \o SubSeq(u, a + 1, e) = s \o SubSeq(u, 1, e)
  /\ SubSeq(u, 1, a) \in Seq(Int) /\ Len(SubSeq(u, 1, a)) = a
  /\ SubSeq(u, a + 1, e) \in Seq(Int) /\ Len(SubSeq(u, a + 1, e)) = e - a
(* A prefix cut in two is that prefix. *)
LEMMA CutOnce ==
  ASSUME NEW s \in Seq(Int), NEW u \in Seq(Int), NEW a \in Nat, NEW e \in Nat, a <= e, e <= Len(u)
  PROVE  CutsAt(s, u, a, e)
<1>1. PICK x \in Seq(Int) : x = SubSeq(u, 1, a) /\ Len(x) = a /\ \A i \in 1 .. a : x[i] = u[i]
  <2>1. /\ SubSeq(u, 1, a) \in Seq(Int) /\ Len(SubSeq(u, 1, a)) = a
        /\ \A i \in 1 .. a : SubSeq(u, 1, a)[i] = u[i]
    OBVIOUS
  <2>. QED BY <2>1, Zenon
<1>2. PICK y \in Seq(Int) : y = SubSeq(u, a + 1, e) /\ Len(y) = e - a /\ \A i \in 1 .. (e - a) : y[i] = u[a + i]
  <2>1. /\ SubSeq(u, a + 1, e) \in Seq(Int) /\ Len(SubSeq(u, a + 1, e)) = e - a
        /\ \A i \in 1 .. (e - a) : SubSeq(u, a + 1, e)[i] = u[a + i]
    OBVIOUS
  <2>. QED BY <2>1, Zenon
<1>3. PICK z \in Seq(Int) : z = SubSeq(u, 1, e) /\ Len(z) = e /\ \A i \in 1 .. e : z[i] = u[i]
  <2>1. /\ SubSeq(u, 1, e) \in Seq(Int) /\ Len(SubSeq(u, 1, e)) = e
        /\ \A i \in 1 .. e : SubSeq(u, 1, e)[i] = u[i]
    OBVIOUS
  <2>. QED BY <2>1, Zenon
<1>4. PICK w \in Seq(Int) : w = x \o y /\ Len(w) = e /\ \A i \in 1 .. e : w[i] = IF i <= a THEN x[i] ELSE y[i - a]
  <2>1. Len(x) = a /\ Len(y) = e - a BY <1>1, <1>2
  <2>2. x \o y \in Seq(Int) /\ Len(x \o y) = e
    <3>1. x \o y \in Seq(Int) /\ Len(x \o y) = Len(x) + Len(y) OBVIOUS
    <3>. QED BY <2>1, <3>1
  <2>3. ASSUME NEW i \in 1 .. e PROVE (x \o y)[i] = IF i <= a THEN x[i] ELSE y[i - a]
    <3>1. i \in 1 .. (Len(x) + Len(y)) BY <2>1
    <3>2. (x \o y)[i] = IF i <= Len(x) THEN x[i] ELSE y[i - Len(x)] BY <3>1
    <3>. QED BY <2>1, <3>2
  <2>. QED BY <2>2, <2>3, Zenon
<1>5. ASSUME NEW i \in 1 .. e PROVE w[i] = z[i]
  <2>1. CASE i <= a
    <3>1. i \in 1 .. a BY <2>1
    <3>. QED BY <1>1, <1>3, <1>4, <2>1, <3>1
  <2>2. CASE ~(i <= a)
    <3>1. PICK j \in 1 .. (e - a) : j = i - a /\ a + j = i BY <2>2
    <3>. QED BY <1>2, <1>3, <1>4, <2>2, <3>1
  <2>. QED BY <2>1, <2>2
<1>6. w = z
  <2>1. Len(w) = Len(z) /\ \A i \in 1 .. Len(w) : w[i] = z[i] BY <1>3, <1>4, <1>5, Zenon
  <2>. QED BY <2>1, SameSequence, Zenon
<1>7. Assoc(s, x, y) BY Associative, Zenon
<1>8. (s \o x) \o y = s \o w BY <1>4, <1>7, Zenon DEF Assoc
<1>. QED BY <1>1, <1>2, <1>3, <1>6, <1>8, Zenon DEF CutsAt

(* The prefix of full length is the sequence. *)
LEMMA WholeSequence == ASSUME NEW u \in Seq(Int) PROVE SubSeq(u, 1, Len(u)) = u
OBVIOUS

(* What a context holds is its sequence cut at its last whole block.       *)
LEMMA HeldPlaces ==
  ASSUME NEW ctx, NEW s \in Seq(Int), NEW n \in Nat, NEW fill \in 0 .. (BlockBytes - 1), Held(ctx, s, n, fill)
  PROVE  n = Len(s) \div BlockBytes /\ fill = Len(s) % BlockBytes
<1>1. Len(s) \in Nat /\ Len(s) = BlockBytes * n + fill BY DEF Held
<1>2. BlockBytes \in Nat \ {0} BY BlockSize
<1>. QED BY <1>1, <1>2, QuotientIs

(* The loop over whole blocks.                                             *)
Loop(ctx, buf, j) ==
  /\ j[0] = ctx
  /\ \A k \in 1 .. (Len(buf) \div BlockBytes) : j[k] = MD5Transform(Put(j[k - 1], 0, Block(buf, k)))
(* The recursive function of Chunks satisfies its equations. *)
LEMMA LoopExists ==
  ASSUME NEW ctx \in Contexts, NEW buf \in Seq(Int)
  PROVE  \E j : /\ Loop(ctx, buf, j)
                /\ Chunks(ctx, buf) = Put(j[Len(buf) \div BlockBytes], 0,
                                          SubSeq(buf, BlockBytes * (Len(buf) \div BlockBytes) + 1, Len(buf)))
<1>. DEFINE whole == Len(buf) \div BlockBytes
            Eq(j) == j = [n \in 0 .. whole |-> IF n = 0 THEN ctx ELSE MD5Transform(Put(j[n - 1], 0, Block(buf, n)))]
<1>0. whole \in Nat /\ BlockBytes * whole <= Len(buf)
  <2>1. Len(buf) \in Nat /\ BlockBytes \in Nat \ {0} BY BlockSize
  <2>5. Len(buf) \div BlockBytes \in Nat /\ Len(buf) % BlockBytes \in 0 .. (BlockBytes - 1)
        /\ Len(buf) = BlockBytes * (Len(buf) \div BlockBytes) + (Len(buf) % BlockBytes)
    BY <2>1, Division
  <2>2. whole \in Nat /\ Len(buf) = BlockBytes * whole + (Len(buf) % BlockBytes) BY <2>5, Zenon
  <2>. HIDE DEF whole
  <2>3. PICK m \in Nat : m = BlockBytes * whole BY <2>1, <2>2
  <2>4. m <= Len(buf) BY <2>1, <2>2, <2>3, <2>5
  <2>. QED BY <2>2, <2>3, <2>4
<1>1. Chunks(ctx, buf) = Put((CHOOSE j : Eq(j))[whole], 0, SubSeq(buf, BlockBytes * whole + 1, Len(buf)))
  BY Zenon DEF Chunks
<1>. HIDE DEF whole
<1>2. PICK F : F = [n \in Nat |-> [x \in Contexts |->
                     IF n + 1 \in 1 .. whole THEN MD5Transform(Put(x, 0, Block(buf, n + 1))) ELSE x]]
  OBVIOUS
<1>3. F \in [Nat -> [Contexts -> Contexts]]
  <2>1. ASSUME NEW n \in Nat, NEW x \in Contexts
        PROVE  (IF n + 1 \in 1 .. whole THEN MD5Transform(Put(x, 0, Block(buf, n + 1))) ELSE x) \in Contexts
    <3>1. CASE n + 1 \in 1 .. whole
      <4>1. Block(buf, n + 1) \in Seq(Int) BY <1>0, <3>1, BlockFacts
      <4>2. 0 \in Nat OBVIOUS
      <4>3. Put(x, 0, Block(buf, n + 1)) \in Contexts BY <4>1, <4>2, PutType, Zenon
      <4>4. MD5Transform(Put(x, 0, Block(buf, n + 1))) \in Contexts BY <4>3, TransformType, Zenon
      <4>. QED BY <3>1, <4>4, Zenon
    <3>. QED BY <3>1, Zenon
  <2>. QED BY <1>2, <2>1, Zenon
<1>5. Iterable(Contexts, ctx, F) BY <1>3, Iteration, Zenon
<1>6. PICK g \in [Nat -> Contexts] : g[0] = ctx /\ \A n \in Nat : g[n + 1] = F[n][g[n]]
  BY <1>5, Zenon DEF Iterable
<1>7. PICK h : h = [k \in 0 .. whole |-> g[k]] OBVIOUS
<1>8. Eq(h)
  <2>1. ASSUME NEW k \in 0 .. whole
        PROVE  g[k] = IF k = 0 THEN ctx ELSE MD5Transform(Put(h[k - 1], 0, Block(buf, k)))
    <3>1. CASE k = 0 BY <1>6, <3>1, Zenon
    <3>2. CASE k # 0
      <4>1. k - 1 \in Nat /\ k - 1 + 1 = k /\ k - 1 \in 0 .. whole /\ k \in 1 .. whole BY <1>0, <3>2
      <4>2. h[k - 1] = g[k - 1] BY <1>7, <4>1, Zenon
      <4>3. g[k] = F[k - 1][g[k - 1]] BY <1>6, <4>1, Zenon
      <4>4. g[k - 1] \in Contexts BY <4>1, Zenon
      <4>5. F[k - 1][g[k - 1]] = MD5Transform(Put(g[k - 1], 0, Block(buf, k))) BY <1>2, <4>1, <4>4, Zenon
      <4>. QED BY <3>2, <4>2, <4>3, <4>5, Zenon
    <3>. QED BY <3>1, <3>2, Zenon
  <2>. QED BY <1>7, <2>1, Zenon
<1>9. PICK j : j = (CHOOSE q : Eq(q)) OBVIOUS
<1>10. Eq(j) BY <1>8, <1>9, Zenon
<1>11. \A k \in 0 .. whole : j[k] = IF k = 0 THEN ctx ELSE MD5Transform(Put(j[k - 1], 0, Block(buf, k)))
  BY <1>10, Zenon
<1>12. 0 \in 0 .. whole /\ \A k \in 1 .. whole : k \in 0 .. whole /\ k # 0 BY <1>0
<1>13. Loop(ctx, buf, j)
  <2>1. j[0] = ctx BY <1>11, <1>12, Zenon
  <2>2. \A k \in 1 .. whole : j[k] = MD5Transform(Put(j[k - 1], 0, Block(buf, k))) BY <1>11, <1>12, Zenon
  <2>. QED BY <2>1, <2>2, Zenon DEF Loop, whole
<1>14. Chunks(ctx, buf) = Put(j[whole], 0, SubSeq(buf, BlockBytes * whole + 1, Len(buf))) BY <1>1, <1>9, Zenon
<1>. QED BY <1>13, <1>14, Zenon DEF whole

(* The loop over whole blocks takes the buffer in. *)
LEMMA ChunksHeld ==
  ASSUME NEW ctx \in Contexts, NEW s \in Seq(Int), NEW u \in Seq(Int), NEW n \in Nat, Held(ctx, s, n, 0)
  PROVE  /\ Chunks(ctx, u) \in Contexts /\ Chunks(ctx, u).lo = ctx.lo /\ Chunks(ctx, u).hi = ctx.hi
         /\ \E m \in Nat, f \in 0 .. (BlockBytes - 1) : Held(Chunks(ctx, u), s \o u, m, f)
<1>1. PICK whole \in Nat, rest \in 0 .. (BlockBytes - 1) :
        whole = Len(u) \div BlockBytes /\ Len(u) = BlockBytes * whole + rest
  <2>1. Len(u) \in Nat /\ BlockBytes \in Nat \ {0} BY BlockSize
  <2>2. Len(u) \div BlockBytes \in Nat /\ Len(u) % BlockBytes \in 0 .. (BlockBytes - 1)
        /\ Len(u) = BlockBytes * (Len(u) \div BlockBytes) + (Len(u) % BlockBytes)
    BY <2>1, Division
  <2>. QED BY <2>2, Zenon
<1>2. PICK j : /\ Loop(ctx, u, j)
               /\ Chunks(ctx, u) = Put(j[whole], 0, SubSeq(u, BlockBytes * whole + 1, Len(u)))
  BY <1>1, LoopExists, Zenon
<1>3. j[0] = ctx /\ \A k \in 1 .. whole : j[k] = MD5Transform(Put(j[k - 1], 0, Block(u, k)))
  BY <1>1, <1>2, Zenon DEF Loop
<1>4. PICK end \in Nat : end = BlockBytes * whole /\ Len(u) = end + rest /\ end <= Len(u)
  <2>1. BlockBytes * whole \in Nat BY BlockSize
  <2>2. PICK end \in Nat : end = BlockBytes * whole BY <2>1, Zenon
  <2>3. Len(u) = end + rest BY <1>1, <2>2, Zenon
  <2>4. end <= Len(u) BY <2>3
  <2>. QED BY <2>2, <2>3, <2>4
<1>. DEFINE Good(k) == /\ j[k] \in Contexts /\ j[k].lo = ctx.lo /\ j[k].hi = ctx.hi
                       /\ Held(j[k], s \o SubSeq(u, 1, BlockBytes * k), n + k, 0)
            Goods == {k \in Nat : k <= whole => Good(k)}
<1>5. 0 \in Goods
  <2>1. BlockBytes * 0 = 0 /\ n + 0 = n BY BlockSize
  <2>2. SubSeq(u, 1, 0) = <<>> /\ s \o <<>> = s OBVIOUS
  <2>3. Good(0) BY <1>3, <2>1, <2>2, Zenon
  <2>. QED BY <2>3
<1>6. ASSUME NEW k \in Nat, k \in Goods PROVE k + 1 \in Goods
  <2>1. SUFFICES ASSUME k + 1 <= whole PROVE Good(k + 1) OBVIOUS
  <2>2. Good(k) BY <1>6, <2>1
  <2>3. PICK l \in Nat : l = k + 1 /\ l \in 1 .. whole /\ l - 1 = k /\ n + l = n + k + 1 BY <2>1
  <2>4. PICK a \in Nat : a = BlockBytes * k /\ BlockBytes * l = a + BlockBytes /\ a + BlockBytes <= end
    <3>1. BlockBytes * (l - 1) \in Nat /\ BlockBytes * whole \in Nat
          /\ BlockBytes * (l - 1) + BlockBytes <= BlockBytes * whole
          /\ BlockBytes * l = BlockBytes * (l - 1) + BlockBytes
      BY <2>3, BlockPlaces
    <3>. QED BY <1>4, <2>3, <3>1, Zenon
  <2>5. a <= a + BlockBytes /\ a + BlockBytes \in Nat /\ a + BlockBytes <= Len(u) /\ (a + BlockBytes) - a = BlockBytes
    BY <1>4, <2>4, BlockSize
  <2>e. PICK e \in Nat : e = a + BlockBytes /\ a <= e /\ e <= Len(u) /\ e - a = BlockBytes BY <2>5, Zenon
  <2>6. CutsAt(s, u, a, e) BY <2>e, CutOnce, Zenon
  <2>w. PICK w \in Seq(Int) : w = s \o SubSeq(u, 1, a)
    <3>1. PICK x \in Seq(Int) : x = SubSeq(u, 1, a) BY <2>6, Zenon DEF CutsAt
    <3>2. s \o x \in Seq(Int) OBVIOUS
    <3>. QED BY <3>1, <3>2, Zenon
  <2>7. PICK b \in Seq(Int) : b = Block(u, l) /\ Len(b) = BlockBytes /\ w \o b = s \o SubSeq(u, 1, BlockBytes * l)
    <3>1. Block(u, l) = SubSeq(u, a + 1, e) BY <2>3, <2>4, <2>e, Zenon DEF Block
    <3>2. /\ (s \o SubSeq(u, 1, a)) \o SubSeq(u, a + 1, e) = s \o SubSeq(u, 1, e)
          /\ SubSeq(u, a + 1, e) \in Seq(Int) /\ Len(SubSeq(u, a + 1, e)) = e - a
      BY <2>6, Zenon DEF CutsAt
    <3>. QED BY <2>4, <2>e, <2>w, <3>1, <3>2, Zenon
  <2>8. PICK p \in Contexts : p = j[k] /\ Held(p, w, n + k, 0) BY <2>2, <2>4, <2>w, Zenon
  <2>9. PICK q \in Contexts : /\ q = Put(p, 0, b) /\ Held(q, w \o b, n + k, BlockBytes)
                              /\ q.lo = p.lo /\ q.hi = p.hi
    <3>1. n + k \in Nat /\ 0 \in Nat /\ 0 + Len(b) = BlockBytes /\ 0 + Len(b) <= BlockBytes BY <2>7, BlockSize
    <3>2. /\ Put(p, 0, b) \in Contexts /\ Held(Put(p, 0, b), w \o b, n + k, 0 + Len(b))
          /\ Put(p, 0, b).lo = p.lo /\ Put(p, 0, b).hi = p.hi
      BY <2>8, <3>1, PutHeld
    <3>. QED BY <3>1, <3>2, Zenon
  <2>10. /\ MD5Transform(q) \in Contexts /\ Held(MD5Transform(q), w \o b, n + k + 1, 0)
         /\ MD5Transform(q).lo = q.lo /\ MD5Transform(q).hi = q.hi
    <3>1. n + k \in Nat /\ w \o b \in Seq(Int) BY ConcatProperties
    <3>. QED BY <2>9, <3>1, TransformHeld, Zenon
  <2>11. j[l] = MD5Transform(q) BY <1>3, <2>3, <2>7, <2>8, <2>9, Zenon
  <2>12. Good(l) BY <2>2, <2>3, <2>7, <2>8, <2>9, <2>10, <2>11, Zenon
  <2>. QED BY <2>3, <2>12, Zenon
<1>. HIDE DEF Goods
<1>7. whole \in Goods BY <1>5, <1>6, Induction
<1>8. Good(whole) BY <1>7 DEF Goods
<1>c. CutsAt(s, u, end, Len(u)) /\ Len(u) - end = rest
  <2>1. Len(u) \in Nat /\ Len(u) <= Len(u) /\ Len(u) - end = rest BY <1>4
  <2>. QED BY <1>4, <2>1, CutOnce, Zenon
<1>9. PICK w \in Seq(Int) : w = s \o SubSeq(u, 1, end)
  <2>1. PICK x \in Seq(Int) : x = SubSeq(u, 1, end) BY <1>c, Zenon DEF CutsAt
  <2>2. s \o x \in Seq(Int) OBVIOUS
  <2>. QED BY <2>1, <2>2, Zenon
<1>10. PICK b \in Seq(Int) : b = SubSeq(u, end + 1, Len(u)) /\ Len(b) = rest /\ w \o b = s \o u
  <2>1. SubSeq(u, 1, Len(u)) = u BY WholeSequence
  <2>. QED BY <1>9, <1>c, <2>1, Zenon DEF CutsAt
<1>11. PICK p \in Contexts : p = j[whole] /\ Held(p, w, n + whole, 0) /\ p.lo = ctx.lo /\ p.hi = ctx.hi
  BY <1>4, <1>8, <1>9, Zenon
<1>12. Chunks(ctx, u) = Put(p, 0, b) BY <1>2, <1>4, <1>10, <1>11, Zenon
<1>13. n + whole \in Nat /\ 0 \in Nat /\ 0 + Len(b) = rest /\ 0 + Len(b) <= BlockBytes BY <1>10, BlockSize
<1>14. /\ Put(p, 0, b) \in Contexts /\ Held(Put(p, 0, b), w \o b, n + whole, 0 + Len(b))
       /\ Put(p, 0, b).lo = p.lo /\ Put(p, 0, b).hi = p.hi
  BY <1>11, <1>13, PutHeld
<1>. QED BY <1>10, <1>11, <1>12, <1>13, <1>14, Zenon

(* A context after a message of so many bytes.                             *)
Counts(ctx, r) == ctx.lo = LowBits(r) /\ ctx.hi = HighBits(r)
Digested(ctx, s) ==
  /\ ctx \in Contexts /\ Counts(ctx, Len(s))
  /\ Held(ctx, s, Len(s) \div BlockBytes, Len(s) % BlockBytes)

(* Whole blocks and a rest shorter than one are the quotient and the
   remainder. *)
LEMMA HeldMeans ==
  ASSUME NEW ctx \in Contexts, NEW s \in Seq(Int), Counts(ctx, Len(s)),
         \E m \in Nat, f \in 0 .. (BlockBytes - 1) : Held(ctx, s, m, f)
  PROVE  Digested(ctx, s)
<1>1. PICK m \in Nat, f \in 0 .. (BlockBytes - 1) : Held(ctx, s, m, f) OBVIOUS
<1>2. m = Len(s) \div BlockBytes /\ f = Len(s) % BlockBytes BY <1>1, HeldPlaces
<1>. QED BY <1>1, <1>2, Zenon DEF Digested

(* MD5Update takes its buffer in, whatever the context held before. *)
LEMMA UpdateHeld ==
  ASSUME NEW ctx, NEW s \in Seq(Int), NEW u \in Seq(Int), Digested(ctx, s)
  PROVE  Digested(MD5Update(ctx, u), s \o u)
<1>1. PICK r \in Nat, len \in Nat : r = Len(s) /\ len = Len(u) /\ Len(s \o u) = r + len /\ s \o u \in Seq(Int)
  <2>1. Len(s) \in Nat /\ Len(u) \in Nat /\ Len(s \o u) = Len(s) + Len(u) /\ s \o u \in Seq(Int) OBVIOUS
  <2>. QED BY <2>1, Zenon
<1>2. PICK n \in Nat, t \in 0 .. (BlockBytes - 1) : n = r \div BlockBytes /\ t = r % BlockBytes
  <2>1. BlockBytes \in Nat \ {0} BY BlockSize
  <2>2. r \div BlockBytes \in Nat /\ r % BlockBytes \in 0 .. (BlockBytes - 1) BY <2>1, Division
  <2>. QED BY <2>2, Zenon
<1>3. ctx \in Contexts /\ ctx.lo = LowBits(r) /\ ctx.hi = HighBits(r) /\ Held(ctx, s, n, t)
  BY <1>1, <1>2, Zenon DEF Digested, Counts
<1>4. PICK c \in Contexts : /\ c = Counted(ctx, len) /\ c.in = ctx.in /\ c.chain = ctx.chain
                            /\ c.lo = LowBits(r + len) /\ c.hi = HighBits(r + len)
  BY <1>3, CountAdds, Zenon
<1>5. Held(c, s, n, t) BY <1>3, <1>4, Zenon DEF Held
<1>6. (ctx.lo \div 8) % BlockBytes = t BY <1>2, <1>3, CountFills, Zenon
<1>7. PICK room \in Nat : room = BlockBytes - t /\ t + room = BlockBytes /\ room > 0 BY BlockSize
<1>8. MD5Update(ctx, u) = IF t = 0 THEN Chunks(c, u)
                          ELSE IF len < room THEN Put(c, t, u)
                          ELSE Chunks(MD5Transform(Put(c, t, SubSeq(u, 1, room))), SubSeq(u, room + 1, len))
  BY <1>1, <1>4, <1>6, <1>7, Zenon DEF MD5Update
<1>9. \A d : d \in Contexts /\ d.lo = c.lo /\ d.hi = c.hi
              /\ (\E m \in Nat, f \in 0 .. (BlockBytes - 1) : Held(d, s \o u, m, f)) => Digested(d, s \o u)
  BY <1>1, <1>4, HeldMeans, Zenon DEF Counts
<1>10. CASE t = 0
  <2>1. /\ Chunks(c, u) \in Contexts /\ Chunks(c, u).lo = c.lo /\ Chunks(c, u).hi = c.hi
        /\ \E m \in Nat, f \in 0 .. (BlockBytes - 1) : Held(Chunks(c, u), s \o u, m, f)
    BY <1>5, <1>10, ChunksHeld, Zenon
  <2>2. Digested(Chunks(c, u), s \o u) BY <1>9, <2>1, Zenon
  <2>. QED BY <1>8, <1>10, <2>2, Zenon
<1>11. CASE t # 0 /\ len < room
  <2>0. t \in Nat /\ t + len <= BlockBytes /\ t + len \in 0 .. (BlockBytes - 1) BY <1>7, <1>11, BlockSize
  <2>1. /\ Put(c, t, u) \in Contexts /\ Held(Put(c, t, u), s \o u, n, t + Len(u))
        /\ Put(c, t, u).lo = c.lo /\ Put(c, t, u).hi = c.hi
    BY <1>1, <1>5, <2>0, PutHeld
  <2>2. Digested(Put(c, t, u), s \o u) BY <1>1, <1>9, <2>0, <2>1, Zenon
  <2>. QED BY <1>8, <1>11, <2>2, Zenon
<1>12. CASE t # 0 /\ ~(len < room)
  <2>1. room <= len /\ room <= Len(u) /\ Len(u) \in Nat /\ Len(u) <= Len(u) BY <1>1, <1>12
  <2>2. CutsAt(s, u, room, Len(u)) BY <2>1, CutOnce, Zenon
  <2>3. PICK x \in Seq(Int), y \in Seq(Int) :
          /\ x = SubSeq(u, 1, room) /\ Len(x) = room /\ y = SubSeq(u, room + 1, len) /\ (s \o x) \o y = s \o u
    <3>1. SubSeq(u, 1, Len(u)) = u BY WholeSequence
    <3>. QED BY <1>1, <2>2, <3>1, Zenon DEF CutsAt
  <2>4. PICK w \in Seq(Int) : w = s \o x
    <3>1. s \o x \in Seq(Int) OBVIOUS
    <3>. QED BY <3>1, Zenon
  <2>5. PICK p \in Contexts : /\ p = Put(c, t, x) /\ Held(p, w, n, BlockBytes)
                              /\ p.lo = c.lo /\ p.hi = c.hi
    <3>1. t \in Nat /\ t + Len(x) = BlockBytes /\ t + Len(x) <= BlockBytes BY <1>7, <2>3, BlockSize
    <3>2. /\ Put(c, t, x) \in Contexts /\ Held(Put(c, t, x), s \o x, n, t + Len(x))
          /\ Put(c, t, x).lo = c.lo /\ Put(c, t, x).hi = c.hi
      BY <1>5, <3>1, PutHeld
    <3>. QED BY <2>4, <3>1, <3>2, Zenon
  <2>6. PICK q \in Contexts : q = MD5Transform(p) /\ Held(q, w, n + 1, 0) /\ q.lo = p.lo /\ q.hi = p.hi
    BY <2>5, TransformHeld, Zenon
  <2>7. n + 1 \in Nat OBVIOUS
  <2>8. /\ Chunks(q, y) \in Contexts /\ Chunks(q, y).lo = q.lo /\ Chunks(q, y).hi = q.hi
        /\ \E m \in Nat, f \in 0 .. (BlockBytes - 1) : Held(Chunks(q, y), w \o y, m, f)
    BY <2>6, <2>7, ChunksHeld, Zenon
  <2>9. Digested(Chunks(q, y), s \o u) BY <1>9, <2>3, <2>4, <2>5, <2>6, <2>8, Zenon
  <2>. QED BY <1>8, <1>12, <2>3, <2>5, <2>6, <2>9, Zenon
<1>. QED BY <1>10, <1>11, <1>12, Zenon

(* Zeros are a sequence. *)
LEMMA ZerosType == ASSUME NEW n \in Nat PROVE Zeros(n) \in Seq(Int) /\ Len(Zeros(n)) = n
BY DEF Zeros

(* Zeros after zeros are zeros. *)
LEMMA ZerosJoin ==
  ASSUME NEW a \in Nat, NEW b \in Nat
  PROVE  Zeros(a) \o Zeros(b) = Zeros(a + b)
<1>1. PICK x \in Seq(Int) : x = Zeros(a) /\ Len(x) = a /\ \A i \in 1 .. a : x[i] = 0
  <2>1. \A i \in 1 .. a : Zeros(a)[i] = 0 BY DEF Zeros
  <2>. QED BY <2>1, ZerosType, Zenon
<1>2. PICK y \in Seq(Int) : y = Zeros(b) /\ Len(y) = b /\ \A i \in 1 .. b : y[i] = 0
  <2>1. \A i \in 1 .. b : Zeros(b)[i] = 0 BY DEF Zeros
  <2>. QED BY <2>1, ZerosType, Zenon
<1>3. PICK z \in Seq(Int) : z = Zeros(a + b) /\ Len(z) = a + b /\ \A i \in 1 .. (a + b) : z[i] = 0
  <2>1. a + b \in Nat OBVIOUS
  <2>2. \A i \in 1 .. (a + b) : Zeros(a + b)[i] = 0 BY DEF Zeros
  <2>. QED BY <2>1, <2>2, ZerosType, Zenon
<1>4. PICK w \in Seq(Int) : w = x \o y /\ Len(w) = a + b
  <2>1. x \o y \in Seq(Int) /\ Len(x \o y) = Len(x) + Len(y) OBVIOUS
  <2>. QED BY <1>1, <1>2, <2>1, Zenon
<1>5. ASSUME NEW i \in 1 .. (a + b) PROVE w[i] = z[i]
  <2>1. Len(x) = a /\ Len(y) = b BY <1>1, <1>2
  <2>2. i \in 1 .. (Len(x) + Len(y)) BY <2>1
  <2>3. (x \o y)[i] = IF i <= Len(x) THEN x[i] ELSE y[i - Len(x)] BY <2>2
  <2>4. CASE i <= a
    <3>1. i \in 1 .. a BY <2>4
    <3>. QED BY <1>1, <1>3, <1>4, <2>1, <2>3, <2>4, <3>1, Zenon
  <2>5. CASE ~(i <= a)
    <3>1. i - a \in 1 .. b BY <2>5
    <3>. QED BY <1>2, <1>3, <1>4, <2>1, <2>3, <2>5, <3>1, Zenon
  <2>. QED BY <2>4, <2>5, Zenon
<1>6. Len(w) = Len(z) /\ \A i \in 1 .. Len(w) : w[i] = z[i] BY <1>3, <1>4, <1>5, Zenon
<1>. QED BY <1>1, <1>2, <1>3, <1>4, <1>6, SameSequence, Zenon

(* The padding is the only one that fills the last block. *)
LEMMA PaddingIs ==
  ASSUME NEW r \in Nat, NEW z \in 0 .. (BlockBytes - 1), NEW k \in Nat, r + 1 + z + 2 = BlockBytes * k
  PROVE  Padding(r) = z /\ (r + 1 + z + 2) % BlockBytes = 0
<1>0. BlockBytes \in Nat \ {0} BY BlockSize
<1>1. PICK x \in Nat : x = r + 1 + z + LengthWords /\ x = BlockBytes * k + 0
  <2>1. BlockBytes * k \in Nat BY <1>0
  <2>2. PICK m \in Nat : m = BlockBytes * k BY <2>1, Zenon
  <2>3. m = m + 0 OBVIOUS
  <2>4. m = r + 1 + z + 2 BY <2>2, Zenon
  <2>. QED BY <2>2, <2>3, <2>4, Zenon DEF LengthWords
<1>2. x % BlockBytes = 0
  <2>1. 0 \in 0 .. (BlockBytes - 1) BY <1>0
  <2>. QED BY <1>0, <1>1, <2>1, QuotientIs, Zenon
<1>3. ASSUME NEW y \in 0 .. (BlockBytes - 1), (r + 1 + y + LengthWords) % BlockBytes = 0 PROVE y = z
  <2>1. PICK v \in Nat : v = r + 1 + y + LengthWords BY <1>0 DEF LengthWords
  <2>2. PICK l \in Nat : v = BlockBytes * l
    <3>1. v \div BlockBytes \in Nat /\ v = BlockBytes * (v \div BlockBytes) + (v % BlockBytes) BY <1>0, Division
    <3>2. v % BlockBytes = 0 BY <1>3, <2>1, Zenon
    <3>3. PICK l \in Nat : l = v \div BlockBytes BY <3>1, Zenon
    <3>4. PICK m \in Nat : m = BlockBytes * l BY <1>0
    <3>5. v = m + 0 BY <3>1, <3>2, <3>3, <3>4, Zenon
    <3>6. v = m BY <3>5
    <3>. QED BY <3>4, <3>6, Zenon
  <2>3. x = r + 3 + z /\ v = r + 3 + y BY <1>0, <1>1, <2>1 DEF LengthWords
  <2>4. ~(k < l)
    <3>1. SUFFICES ASSUME k < l PROVE FALSE OBVIOUS
    <3>2. PICK p \in Nat, q \in Nat : p = BlockBytes * k /\ q = BlockBytes * l /\ p + BlockBytes <= q
      BY <1>0, <3>1, Multiples
    <3>3. x = p /\ v = q BY <1>1, <2>2, <3>2
    <3>. QED BY <1>0, <2>3, <3>2, <3>3
  <2>5. ~(l < k)
    <3>1. SUFFICES ASSUME l < k PROVE FALSE OBVIOUS
    <3>2. PICK p \in Nat, q \in Nat : p = BlockBytes * k /\ q = BlockBytes * l /\ q + BlockBytes <= p
      BY <1>0, <3>1, Multiples
    <3>3. x = p /\ v = q BY <1>1, <2>2, <3>2
    <3>. QED BY <1>0, <2>3, <3>2, <3>3
  <2>6. k = l BY <2>4, <2>5
  <2>7. x = v BY <1>1, <2>2, <2>6
  <2>. QED BY <1>0, <2>3, <2>7
<1>4. Padding(r) = z
  <2>1. z \in 0 .. (BlockBytes - 1) /\ (r + 1 + z + LengthWords) % BlockBytes = 0 BY <1>1, <1>2, Zenon
  <2>. QED BY <1>3, <2>1, Zenon DEF Padding
<1>. QED BY <1>1, <1>2, <1>4, Zenon DEF LengthWords

(* The first part of MD5Final: all but the length is in place.              *)
LEMMA PaddedHeld ==
  ASSUME NEW ctx, NEW s \in Seq(Int), Digested(ctx, s)
  PROVE  \E c \in Contexts, z \in 0 .. (BlockBytes - 1), n \in Nat :
           /\ c.lo = ctx.lo /\ c.hi = ctx.hi
           /\ Held(c, (s \o <<128>>) \o Zeros(z), n, BlockBytes - LengthWords)
           /\ MD5Final(ctx) = MD5Transform(Put(c, BlockBytes - LengthWords, <<ctx.lo, ctx.hi>>))
<1>1. PICK r \in Nat : r = Len(s)
  <2>1. Len(s) \in Nat OBVIOUS
  <2>. QED BY <2>1, Zenon
<1>2. PICK n \in Nat, count \in 0 .. (BlockBytes - 1) : n = r \div BlockBytes /\ count = r % BlockBytes
  <2>1. BlockBytes \in Nat \ {0} BY BlockSize
  <2>2. r \div BlockBytes \in Nat /\ r % BlockBytes \in 0 .. (BlockBytes - 1) BY <2>1, Division
  <2>. QED BY <2>2, Zenon
<1>3. ctx \in Contexts /\ ctx.lo = LowBits(r) /\ ctx.hi = HighBits(r) /\ Held(ctx, s, n, count)
  BY <1>1, <1>2, Zenon DEF Digested, Counts
<1>4. (ctx.lo \div 8) % BlockBytes = count BY <1>2, <1>3, CountFills, Zenon
<1>5. PICK left \in Nat, head \in Nat, body \in Nat :
        /\ left = BlockBytes - 1 - count /\ head = count + 1 /\ body = BlockBytes - LengthWords
        /\ head + left = BlockBytes /\ body + 2 = BlockBytes
  <2>1. /\ BlockBytes - 1 - count \in Nat /\ count + 1 \in Nat /\ BlockBytes - 2 \in Nat
        /\ (count + 1) + (BlockBytes - 1 - count) = BlockBytes /\ (BlockBytes - 2) + 2 = BlockBytes
    BY BlockSize
  <2>. QED BY <2>1, Zenon DEF LengthWords
<1>6. PICK one \in Seq(Int) : one = <<128>> /\ Len(one) = 1
  <2>1. <<128>> \in Seq(Int) /\ Len(<<128>>) = 1 OBVIOUS
  <2>. QED BY <2>1, Zenon
<1>7. PICK w \in Seq(Int) : w = s \o one
  <2>1. s \o one \in Seq(Int) OBVIOUS
  <2>. QED BY <2>1, Zenon
<1>8. PICK p \in Contexts : p = Put(ctx, count, one) /\ Held(p, w, n, head) /\ p.lo = ctx.lo /\ p.hi = ctx.hi
  <2>1. count \in Nat /\ count + Len(one) <= BlockBytes /\ count + Len(one) = head BY <1>5, <1>6, BlockSize
  <2>2. /\ Put(ctx, count, one) \in Contexts /\ Held(Put(ctx, count, one), s \o one, n, count + Len(one))
        /\ Put(ctx, count, one).lo = ctx.lo /\ Put(ctx, count, one).hi = ctx.hi
    BY <1>3, <2>1, PutHeld
  <2>. QED BY <1>7, <2>1, <2>2, Zenon
<1>9. LengthWords = 2 /\ MD5Final(ctx) =
        MD5Transform(Put(IF left < 2 THEN Put(MD5Transform(Put(p, head, Zeros(left))), 0, Zeros(body))
                         ELSE Put(p, head, Zeros(left - 2)), body, <<ctx.lo, ctx.hi>>))
  BY <1>4, <1>5, <1>6, <1>8, Zenon DEF MD5Final, LengthWords
<1>10. CASE left < 2
  <2>1. PICK x \in Seq(Int) : x = Zeros(left) /\ Len(x) = left BY ZerosType, Zenon
  <2>2. PICK y \in Seq(Int) : y = Zeros(body) /\ Len(y) = body BY ZerosType, Zenon
  <2>3. PICK v \in Seq(Int) : v = w \o x
    <3>1. w \o x \in Seq(Int) OBVIOUS
    <3>. QED BY <3>1, Zenon
  <2>4. PICK q \in Contexts : q = Put(p, head, x) /\ Held(q, v, n, BlockBytes) /\ q.lo = p.lo /\ q.hi = p.hi
    <3>1. head + Len(x) = BlockBytes /\ head + Len(x) <= BlockBytes BY <1>5, <2>1, BlockSize
    <3>2. /\ Put(p, head, x) \in Contexts /\ Held(Put(p, head, x), w \o x, n, head + Len(x))
          /\ Put(p, head, x).lo = p.lo /\ Put(p, head, x).hi = p.hi
      BY <1>8, <3>1, PutHeld
    <3>. QED BY <2>3, <3>1, <3>2, Zenon
  <2>5. PICK k \in Nat : k = n + 1 OBVIOUS
  <2>6. PICK t \in Contexts : t = MD5Transform(q) /\ Held(t, v, k, 0) /\ t.lo = q.lo /\ t.hi = q.hi
    BY <2>4, <2>5, TransformHeld, Zenon
  <2>7. PICK c \in Contexts : c = Put(t, 0, y) /\ Held(c, v \o y, k, body) /\ c.lo = t.lo /\ c.hi = t.hi
    <3>1. 0 \in Nat /\ 0 + Len(y) = body /\ 0 + Len(y) <= BlockBytes BY <1>5, <2>2, BlockSize
    <3>2. /\ Put(t, 0, y) \in Contexts /\ Held(Put(t, 0, y), v \o y, k, 0 + Len(y))
          /\ Put(t, 0, y).lo = t.lo /\ Put(t, 0, y).hi = t.hi
      BY <2>6, <3>1, PutHeld
    <3>. QED BY <3>1, <3>2, Zenon
  <2>8. PICK z \in 0 .. (BlockBytes - 1) : z = left + body
    <3>1. left + body \in 0 .. (BlockBytes - 1) BY <1>5, <1>10, BlockSize
    <3>. QED BY <3>1, Zenon
  <2>9. v \o y = w \o Zeros(z)
    <3>1. Assoc(w, x, y) BY Associative, Zenon
    <3>2. x \o y = Zeros(z) BY <2>1, <2>2, <2>8, ZerosJoin, Zenon
    <3>. QED BY <2>3, <3>1, <3>2, Zenon DEF Assoc
  <2>10. MD5Final(ctx) = MD5Transform(Put(c, body, <<ctx.lo, ctx.hi>>))
    BY <1>9, <1>10, <2>1, <2>2, <2>4, <2>6, <2>7, Zenon
  <2>11. c.lo = ctx.lo /\ c.hi = ctx.hi BY <1>8, <2>4, <2>6, <2>7, Zenon
  <2>12. Held(c, (s \o <<128>>) \o Zeros(z), k, body) BY <1>6, <1>7, <2>7, <2>9, Zenon
  <2>. QED BY <1>5, <2>10, <2>11, <2>12, Zenon
<1>11. CASE ~(left < 2)
  <2>1. PICK z \in 0 .. (BlockBytes - 1) : z = left - 2 /\ z \in Nat /\ head + z = body
    <3>0. /\ left = (BlockBytes - 1) - count /\ head = count + 1 /\ body + 2 = BlockBytes
          /\ head + left = BlockBytes /\ BlockBytes \in Nat
      BY <1>5, BlockSize
    <3>1. left - 2 \in 0 .. (BlockBytes - 1) /\ left - 2 \in Nat /\ head + (left - 2) = body
      BY <1>11, <3>0
    <3>. QED BY <3>1, Zenon
  <2>2. PICK x \in Seq(Int) : x = Zeros(z) /\ Len(x) = z BY <2>1, ZerosType, Zenon
  <2>3. PICK c \in Contexts : c = Put(p, head, x) /\ Held(c, w \o x, n, body) /\ c.lo = p.lo /\ c.hi = p.hi
    <3>0. body <= BlockBytes BY <1>5, BlockSize
    <3>1. head + Len(x) = body /\ head + Len(x) <= BlockBytes BY <2>1, <2>2, <3>0, Zenon
    <3>2. /\ Put(p, head, x) \in Contexts /\ Held(Put(p, head, x), w \o x, n, head + Len(x))
          /\ Put(p, head, x).lo = p.lo /\ Put(p, head, x).hi = p.hi
      BY <1>8, <3>1, PutHeld
    <3>. QED BY <3>1, <3>2, Zenon
  <2>4. MD5Final(ctx) = MD5Transform(Put(c, body, <<ctx.lo, ctx.hi>>))
    BY <1>9, <1>11, <2>1, <2>2, <2>3, Zenon
  <2>5. c.lo = ctx.lo /\ c.hi = ctx.hi BY <1>8, <2>3, Zenon
  <2>6. Held(c, (s \o <<128>>) \o Zeros(z), n, body) BY <1>6, <1>7, <2>2, <2>3, Zenon
  <2>. QED BY <1>5, <2>1, <2>4, <2>5, <2>6, ZenonT(60)
<1>. QED BY <1>10, <1>11, Zenon

(* MD5Final transforms the rest of the padded message. *)
LEMMA FinalHeld ==
  ASSUME NEW ctx, NEW s \in Seq(Int), Digested(ctx, s)
  PROVE  /\ MD5Final(ctx) \in Contexts
         /\ Len(Padded(s)) % BlockBytes = 0 /\ MD5Final(ctx).chain = Blocks(Padded(s))
<1>1. PICK c \in Contexts, z \in 0 .. (BlockBytes - 1), n \in Nat :
        /\ c.lo = ctx.lo /\ c.hi = ctx.hi
        /\ Held(c, (s \o <<128>>) \o Zeros(z), n, BlockBytes - LengthWords)
        /\ MD5Final(ctx) = MD5Transform(Put(c, BlockBytes - LengthWords, <<ctx.lo, ctx.hi>>))
  BY PaddedHeld, Zenon
<1>2. PICK r \in Nat : r = Len(s)
  <2>1. Len(s) \in Nat OBVIOUS
  <2>. QED BY <2>1, Zenon
<1>3. PICK body \in Nat, k \in Nat : body = BlockBytes - LengthWords /\ body + 2 = BlockBytes /\ k = n + 1
  <2>1. BlockBytes - 2 \in Nat /\ (BlockBytes - 2) + 2 = BlockBytes /\ n + 1 \in Nat BY BlockSize
  <2>. QED BY <2>1, Zenon DEF LengthWords
<1>4. PICK v \in Seq(Int) : v = (s \o <<128>>) \o Zeros(z) /\ Len(v) = r + 1 + z
  <2>1. z \in Nat BY BlockSize
  <2>2. PICK o \in Seq(Int) : o = Zeros(z) /\ Len(o) = z BY <2>1, ZerosType, Zenon
  <2>3. PICK one \in Seq(Int) : one = <<128>> /\ Len(one) = 1
    <3>1. <<128>> \in Seq(Int) /\ Len(<<128>>) = 1 OBVIOUS
    <3>. QED BY <3>1, Zenon
  <2>4. PICK w \in Seq(Int) : w = s \o one /\ Len(w) = Len(s) + Len(one)
    <3>1. s \o one \in Seq(Int) /\ Len(s \o one) = Len(s) + Len(one) OBVIOUS
    <3>. QED BY <3>1, Zenon
  <2>5. w \o o \in Seq(Int) /\ Len(w \o o) = Len(w) + Len(o) OBVIOUS
  <2>. QED BY <1>2, <2>2, <2>3, <2>4, <2>5, Zenon
<1>5. PICK ends \in Seq(Int) : ends = <<ctx.lo, ctx.hi>> /\ Len(ends) = 2
  <2>1. PICK lo \in Nat, hi \in Nat : lo = ctx.lo /\ hi = ctx.hi BY Zenon, <1>2, CountFills DEF Digested, Counts
  <2>2. <<lo, hi>> \in Seq(Int) /\ Len(<<lo, hi>>) = 2 OBVIOUS
  <2>. QED BY <2>1, <2>2, Zenon
<1>6. PICK full \in Seq(Int) : full = v \o ends /\ Len(full) = r + 1 + z + 2
  <2>1. v \o ends \in Seq(Int) /\ Len(v \o ends) = Len(v) + Len(ends) OBVIOUS
  <2>. QED BY <1>4, <1>5, <2>1, Zenon
<1>7. PICK d \in Contexts : d = Put(c, body, ends) /\ Held(d, full, n, BlockBytes)
  <2>1. body + Len(ends) = BlockBytes /\ body + Len(ends) <= BlockBytes BY <1>3, <1>5, BlockSize
  <2>2. Held(c, v, n, body) BY <1>1, <1>3, <1>4, Zenon
  <2>3. Put(c, body, ends) \in Contexts /\ Held(Put(c, body, ends), v \o ends, n, body + Len(ends))
    BY <2>1, <2>2, PutHeld
  <2>. QED BY <1>6, <2>1, <2>3, Zenon
<1>8. PICK e \in Contexts : e = MD5Final(ctx) /\ Held(e, full, k, 0)
  BY <1>1, <1>3, <1>5, <1>7, TransformHeld, Zenon
<1>9. Len(full) = BlockBytes * k
  <2>1. Len(full) = BlockBytes * k + 0 BY <1>8 DEF Held
  <2>2. BlockBytes * k \in Nat BY BlockSize
  <2>. QED BY <2>1, <2>2
<1>10. Padding(r) = z /\ (r + 1 + z + 2) % BlockBytes = 0 BY <1>6, <1>9, PaddingIs, Zenon
<1>11. Padded(s) = full
  <2>1. ctx.lo = LowBits(r) /\ ctx.hi = HighBits(r) BY <1>2, Zenon DEF Digested, Counts
  <2>. QED BY <1>2, <1>4, <1>5, <1>6, <1>10, <2>1, Zenon DEF Padded
<1>12. Len(full) \div BlockBytes = k
  <2>1. BlockBytes \in Nat \ {0} /\ 0 \in 0 .. (BlockBytes - 1) BY BlockSize
  <2>2. PICK m \in Nat : m = Len(full) OBVIOUS
  <2>3. m = BlockBytes * k + 0 BY <1>8, <2>2, Zenon DEF Held
  <2>4. m \div BlockBytes = k BY <2>1, <2>3, QuotientIs
  <2>. QED BY <2>2, <2>4, Zenon
<1>13. e.chain = Blocks(full)
  <2>1. e.chain \in Seq(Seq(Int)) BY DEF Contexts
  <2>2. PICK chain \in Seq(Seq(Int)) : chain = e.chain /\ Len(chain) = k /\ \A b \in 1 .. k : chain[b] = Block(full, b)
    BY <1>8, <2>1, Zenon DEF Held
  <2>3. chain = [b \in 1 .. k |-> chain[b]] BY <2>2
  <2>4. Blocks(full) = [b \in 1 .. k |-> Block(full, b)] BY <1>12, Zenon DEF Blocks
  <2>. QED BY <2>2, <2>3, <2>4, Zenon
<1>. QED BY <1>6, <1>8, <1>10, <1>11, <1>13, Zenon

(* What the invariant says of a context that is not finished yet.          *)
TakenIn(in, read, ctx) ==
  /\ read <= Len(in)
  /\ ctx.lo = LowBits(read) /\ ctx.hi = HighBits(read)
  /\ Held(ctx, SubSeq(in, 1, read), read \div BlockBytes, read % BlockBytes)
Encodings == [in : Messages, size : ReadSizes, read : Nat, ctx : Contexts, at : {"read", "final", "done"}]

(* A sequence over a set is one over a larger set. *)
LEMMA WiderSequence == ASSUME NEW S, NEW T, S \subseteq T, NEW s \in Seq(S) PROVE s \in Seq(T) /\ Len(s) \in Nat
OBVIOUS

(* A message is a sequence of integers. *)
LEMMA MessageType == ASSUME NEW in \in Messages PROVE in \in Seq(Int) /\ Len(in) \in Nat
<1>1. in \in Seq(0 .. 255) BY MD5Assumption, Zenon
<1>2. 0 .. 255 \subseteq Int OBVIOUS
<1>. QED BY <1>1, <1>2, WiderSequence, Zenon

(* The invariant says that the context holds what was read. *)
LEMMA ReadMeans ==
  ASSUME NEW in \in Messages, NEW read \in Nat, read <= Len(in), NEW ctx \in Contexts
  PROVE  TakenIn(in, read, ctx) <=> Digested(ctx, SubSeq(in, 1, read))
<1>1. in \in Seq(Int) BY MessageType
<1>2. Len(SubSeq(in, 1, read)) = read BY <1>1
<1>. QED BY <1>2, Zenon DEF TakenIn, Digested, Counts

(* MD5Init() holds the empty message. *)
LEMMA DigestStarts == md5 \in MD5Starts => DigestInv
<1>1. SUFFICES ASSUME md5 \in MD5Starts PROVE DigestInv OBVIOUS
<1>2. md5.in \in Messages /\ md5.size \in ReadSizes /\ md5.read = 0 /\ md5.ctx = MD5Init /\ md5.at = "read"
  BY <1>1 DEF MD5Starts
<1>3. MD5Init \in Contexts /\ MD5Init.lo = 0 /\ MD5Init.hi = 0 /\ MD5Init.chain = <<>> BY DEF MD5Init, Contexts, Garbage
<1>4. md5 \in Encodings
  <2>1. md5 \in MD5Starts /\ MD5Starts \subseteq Encodings BY <1>1, <1>3 DEF MD5Starts, Encodings
  <2>. QED BY <2>1
<1>5. Digested(MD5Init, <<>>)
  <2>1. CounterMod \in Nat \ {0} BY MD5Assumption
  <2>2. 0 % CounterMod = 0 /\ 0 \div CounterMod = 0
    <3>1. 0 \in Nat /\ 0 \in 0 .. (CounterMod - 1) /\ 0 = CounterMod * 0 + 0 BY <2>1
    <3>. QED BY <2>1, <3>1, QuotientIs, Zenon
  <2>3. 8 * 0 = 0 OBVIOUS
  <2>4. Counts(MD5Init, 0) BY <1>3, <2>2, <2>3, Zenon DEF Counts, LowBits, HighBits
  <2>5. <<>> \in Seq(Int) /\ Len(<<>>) = 0 OBVIOUS
  <2>6. Held(MD5Init, <<>>, 0, 0)
    <3>1. 0 = BlockBytes * 0 + 0 /\ 1 .. 0 = {} BY BlockSize
    <3>. QED BY <1>3, <2>5, <3>1, Zenon DEF Held
  <2>7. 0 \in Nat /\ 0 \in 0 .. (BlockBytes - 1) BY BlockSize
  <2>. QED BY <1>3, <2>4, <2>5, <2>6, <2>7, HeldMeans, Zenon
<1>6. TakenIn(md5.in, md5.read, md5.ctx)
  <2>1. 0 \in Nat /\ 0 <= Len(md5.in) /\ SubSeq(md5.in, 1, 0) = <<>> BY <1>2, MessageType
  <2>. QED BY <1>2, <1>3, <1>5, <2>1, ReadMeans, Zenon
<1>. QED BY <1>2, <1>4, <1>6, Zenon DEF DigestInv, TakenIn, Encodings, DigestOfMessage

(* One pass of the loop of encode() keeps the invariant. *)
LEMMA ReadStep == DigestInv /\ EncodeRead => DigestInv'
<1>1. SUFFICES ASSUME DigestInv, EncodeRead PROVE DigestInv' OBVIOUS
<1>2. PICK in \in Messages, size \in ReadSizes, read \in Nat, ctx \in Contexts :
        /\ in = md5.in /\ size = md5.size /\ read = md5.read /\ ctx = md5.ctx
  BY <1>1 DEF DigestInv
<1>3. in \in Seq(Int) /\ Len(in) \in Nat /\ size \in Nat \ {0}
  <2>1. size \in Nat \ {0} BY MD5Assumption, Zenon
  <2>. QED BY <2>1, MessageType, Zenon
<1>4. md5.at = "read" BY <1>1 DEF EncodeRead
<1>5. TakenIn(in, read, ctx)
  <2>1. md5.at # "done" BY <1>4
  <2>. QED BY <1>1, <1>2, <2>1, Zenon DEF DigestInv, TakenIn
<1>6. read <= Len(in) BY <1>5, Zenon DEF TakenIn
<1>7. PICK rest \in Nat : rest = Len(in) - read BY <1>3, <1>6
<1>8. PICK n \in Nat : n = IF size < rest THEN size ELSE rest BY <1>3
<1>9. PICK to \in Nat : to = read + n OBVIOUS
<1>10. to <= Len(in) /\ read <= to /\ (n < size => to = Len(in)) BY <1>3, <1>6, <1>7, <1>8, <1>9
<1>11. PICK at \in {"read", "final"} : at = IF n < size THEN "final" ELSE "read" OBVIOUS
<1>12. PICK u \in Seq(Int), s \in Seq(Int) :
         /\ u = SubSeq(in, read + 1, to) /\ s = SubSeq(in, 1, read) /\ s \o u = SubSeq(in, 1, to)
  <2>1. <<>> \in Seq(Int) OBVIOUS
  <2>2. CutsAt(<<>>, in, read, to) BY <1>3, <1>10, <2>1, CutOnce, Zenon
  <2>3. PICK u \in Seq(Int), s \in Seq(Int) : u = SubSeq(in, read + 1, to) /\ s = SubSeq(in, 1, read)
    BY <2>2, Zenon DEF CutsAt
  <2>4. PICK z \in Seq(Int) : z = SubSeq(in, 1, to)
    <3>1. SubSeq(in, 1, to) \in Seq(Int) BY <1>3, <1>10
    <3>. QED BY <3>1, Zenon
  <2>5. <<>> \o s = s /\ <<>> \o z = z OBVIOUS
  <2>6. (<<>> \o s) \o u = <<>> \o z BY <2>2, <2>3, <2>4, Zenon DEF CutsAt
  <2>. QED BY <2>3, <2>4, <2>5, <2>6, Zenon
<1>13. Digested(ctx, s) BY <1>5, <1>6, <1>12, ReadMeans, Zenon
<1>14. PICK new \in Contexts : new = MD5Update(ctx, u) /\ Digested(new, s \o u)
  BY <1>13, UpdateHeld, Zenon DEF Digested
<1>15. TakenIn(in, to, new) BY <1>10, <1>12, <1>14, ReadMeans, Zenon
<1>16. md5' = [md5 EXCEPT !.read = to, !.ctx = new, !.at = at]
  BY <1>1, <1>2, <1>7, <1>8, <1>9, <1>11, <1>12, <1>14, Zenon DEF EncodeRead
<1>17. md5 \in Encodings BY <1>1, Zenon DEF DigestInv, Encodings
<1>18. md5' \in Encodings /\ md5'.in = in /\ md5'.read = to /\ md5'.ctx = new /\ md5'.at = at
  BY <1>2, <1>16, <1>17 DEF Encodings
<1>19. md5'.at # "done" /\ (md5'.at = "final" => to = Len(in)) BY <1>10, <1>11, <1>18
<1>. QED BY <1>15, <1>18, <1>19, Zenon DEF DigestInv, TakenIn, Encodings, DigestOfMessage

(* So does its call of MD5Final. *)
LEMMA FinalStep == DigestInv /\ EncodeFinal => DigestInv'
<1>1. SUFFICES ASSUME DigestInv, EncodeFinal PROVE DigestInv' OBVIOUS
<1>2. PICK in \in Messages, ctx \in Contexts : in = md5.in /\ ctx = md5.ctx BY <1>1 DEF DigestInv
<1>3. in \in Seq(Int) /\ Len(in) \in Nat BY MessageType, Zenon
<1>4. md5.at = "final" BY <1>1 DEF EncodeFinal
<1>5. md5.read = Len(in) /\ TakenIn(in, Len(in), ctx)
  <2>1. md5.at # "done" BY <1>4
  <2>. QED BY <1>1, <1>2, <1>4, <2>1, Zenon DEF DigestInv, TakenIn
<1>6. Digested(ctx, in)
  <2>1. Len(in) <= Len(in) BY <1>3
  <2>2. SubSeq(in, 1, Len(in)) = in BY <1>3, WholeSequence
  <2>. QED BY <1>3, <1>5, <2>1, <2>2, ReadMeans, Zenon
<1>7. PICK new \in Contexts : new = MD5Final(ctx) /\ Len(Padded(in)) % BlockBytes = 0 /\ new.chain = Blocks(Padded(in))
  BY <1>3, <1>6, FinalHeld, Zenon
<1>8. md5' = [md5 EXCEPT !.ctx = new, !.at = "done"] BY <1>1, <1>2, <1>7, Zenon DEF EncodeFinal
<1>9. md5 \in Encodings BY <1>1, Zenon DEF DigestInv, Encodings
<1>10. md5' \in Encodings /\ md5'.in = in /\ md5'.ctx = new /\ md5'.at = "done" BY <1>2, <1>8, <1>9 DEF Encodings
<1>11. md5'.at # "final" BY <1>10
<1>. QED BY <1>7, <1>10, <1>11, Zenon DEF DigestInv, Encodings, DigestOfMessage

(* encoder_md5::encode() transforms the blocks of the padded message and no
   other, for a stream of any length, read in pieces of any size, and for
   blocks and counter words of any width that fit together.                 *)
THEOREM DigestSafe == MD5Spec => []DigestOfMessage
<1>1. DigestInv /\ UNCHANGED md5 => DigestInv' BY DEF DigestInv, DigestOfMessage
<1>2. DigestInv /\ [MD5Next]_md5 => DigestInv' BY <1>1, ReadStep, FinalStep, Zenon DEF MD5Next
<1>3. DigestInv => DigestOfMessage BY Zenon DEF DigestInv
<1>. QED BY DigestStarts, <1>2, <1>3, PTL DEF MD5Spec
=============================================================================
