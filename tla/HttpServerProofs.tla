-------------------------- MODULE HttpServerProofs --------------------------
(***************************************************************************)
(* Proofs about HttpServer, for every set of connections, descriptors and  *)
(* addresses: who has which request, whatever the clients send, in         *)
(* whatever segments; the life cycle of tcp_server; and that on_request is *)
(* given whole requests, when every client sends one, cut inside lines.    *)
(***************************************************************************)
EXTENDS HttpServer, SequenceTheorems, WellFoundedInduction, TLAPS

-----------------------------------------------------------------------------
(* The read buffer.                                                        *)

(* A stream of a client, read up to a place in it.                         *)
Streams ==
  { s \in [txt : Seq(Symbols), g : Nat, eof : BOOLEAN, fail : BOOLEAN] :
      s.g \in 0..Len(s.txt) }

(* A set of natural numbers has a least one.                               *)
LEMMA LeastNumber ==
  ASSUME NEW S \in SUBSET Nat, S # {}
  PROVE  Min(S) \in S /\ \A k \in S : Min(S) <= k
  <1>1. PICK R : IsWellFoundedOn(R, Nat) /\ \A k, m \in Nat : k < m => <<k, m>> \in R
    <2>1. \A k, m \in Nat : k < m => <<k, m>> \in OpToRel(<, Nat)
      BY DEF OpToRel
    <2>. QED BY <2>1, NatLessThanWellFounded
  <1>2. IsWellFoundedOn(R, Nat)
    BY <1>1
  <1>3. PICK m \in S : \A k \in S : ~ (<<k, m>> \in R)
    BY <1>2, WFMin
  <1>4. m \in Nat /\ \A k \in S : k \in Nat /\ ~ (k < m)
    BY <1>1, <1>3
  <1>5. \A k \in S : m <= k
    BY <1>4
  <1>. QED BY <1>3, <1>5 DEF Min

(* What is unread of a stream.                                             *)
LEMMA UnreadPart ==
  ASSUME NEW s \in Streams
  PROVE  /\ Unread(s) \in Seq(Symbols)
         /\ Len(Unread(s)) = Len(s.txt) - s.g
         /\ Len(s.txt) \in Nat /\ s.g \in Nat /\ s.g <= Len(s.txt)
         /\ s.txt \in Seq(Symbols) /\ s.eof \in BOOLEAN /\ s.fail \in BOOLEAN
  <1>1. /\ s.txt \in Seq(Symbols) /\ s.g \in 0..Len(s.txt)
        /\ s.eof \in BOOLEAN /\ s.fail \in BOOLEAN
    BY DEF Streams
  <1>2. Len(s.txt) \in Nat
    BY <1>1, LenProperties
  <1>3. \A i \in (s.g + 1)..Len(s.txt) : s.txt[i] \in Symbols
    BY <1>1, <1>2, ElementOfSeq
  <1>4. /\ Unread(s) \in Seq(Symbols)
        /\ Len(Unread(s)) = IF s.g + 1 <= Len(s.txt) THEN Len(s.txt) - (s.g + 1) + 1 ELSE 0
    BY <1>1, <1>2, <1>3, SubSeqProperties DEF Unread
  <1>. QED BY <1>1, <1>2, <1>4

(* A stream whose place, text and bits are in order.                       *)
LEMMA StreamIs ==
  ASSUME NEW s \in [txt : Seq(Symbols), g : Nat, eof : BOOLEAN, fail : BOOLEAN],
         s.g <= Len(s.txt)
  PROVE  s \in Streams
  <1>1. Len(s.txt) \in Nat /\ s.g \in Nat
    BY LenProperties
  <1>. QED BY <1>1 DEF Streams

(* A client's segment arrives.                                             *)
LEMMA SegmentStream ==
  ASSUME NEW s \in Streams, NEW x \in Seq(Symbols)
  PROVE  Received(s, x) \in Streams
  <1>. DEFINE r == Received(s, x)
  <1>1. s.txt \o x \in Seq(Symbols) /\ Len(s.txt \o x) = Len(s.txt) + Len(x)
    BY UnreadPart, ConcatProperties
  <1>2. Len(x) \in Nat
    BY LenProperties
  <1>3. /\ r \in [txt : Seq(Symbols), g : Nat, eof : BOOLEAN, fail : BOOLEAN]
        /\ r.txt = s.txt \o x /\ r.g = s.g
    BY <1>1 DEF Streams, Received
  <1>4. s.g <= Len(s.txt \o x)
    BY <1>1, <1>2, UnreadPart
  <1>. HIDE DEF r
  <1>5. r \in Streams
    BY <1>3, <1>4, StreamIs
  <1>. QED BY <1>5 DEF r

(* getline() has put the place back.                                       *)
LEMMA RewoundStream ==
  ASSUME NEW s \in Streams
  PROVE  Rewound(s) \in Streams
  <1>1. (~Good(s) \/ Unread(s) = <<>>) \in BOOLEAN
    OBVIOUS
  <1>2. /\ Rewound(s) \in [txt : Seq(Symbols), g : Nat, eof : BOOLEAN, fail : BOOLEAN]
        /\ Rewound(s).txt = s.txt /\ Rewound(s).g = s.g
    BY <1>1 DEF Rewound, Streams
  <1>. QED BY <1>2, UnreadPart, StreamIs

(* getline() has taken a line that is there: the place stays in the text.  *)
LEMMA SkippedStream ==
  ASSUME NEW s \in Streams, ~HitsEnd(s)
  PROVE  Skipped(s) \in Streams
  <1>1. CASE ~Good(s)
    BY <1>1 DEF Skipped
  <1>2. CASE Good(s)
    <2>. DEFINE I == {i \in 1..Len(Unread(s)) : Unread(s)[i] = "nl"}
    <2>1. I # {} /\ I \in SUBSET Nat
      BY <1>2, UnreadPart DEF HitsEnd, Contains
    <2>2. LineLen(s) = Min(I) - 1
      BY <1>2, <2>1 DEF LineLen, SelectInSeq
    <2>3. Min(I) \in I
      BY <2>1, LeastNumber
    <2>4. Min(I) \in 1..(Len(s.txt) - s.g)
      BY <2>3, UnreadPart
    <2>. HIDE DEF I
    <2>5. s.g + LineLen(s) + 1 \in Nat /\ s.g + LineLen(s) + 1 <= Len(s.txt)
      BY <2>2, <2>4, UnreadPart
    <2>6. /\ Skipped(s) \in [txt : Seq(Symbols), g : Nat, eof : BOOLEAN, fail : BOOLEAN]
          /\ Skipped(s).txt = s.txt /\ Skipped(s).g = s.g + LineLen(s) + 1
      BY <1>2, <2>5 DEF Skipped, Streams
    <2>. QED BY <2>5, <2>6, StreamIs
  <1>. QED BY <1>1, <1>2

(* add_content() has taken all there is.                                   *)
LEMMA ConsumedStream ==
  ASSUME NEW s \in Streams
  PROVE  Consumed(s) \in Streams
  <1>1. CASE Good(s) /\ Unread(s) # <<>>
    <2>1. /\ Consumed(s) \in [txt : Seq(Symbols), g : Nat, eof : BOOLEAN, fail : BOOLEAN]
          /\ Consumed(s).txt = s.txt /\ Consumed(s).g = Len(s.txt)
      BY <1>1, UnreadPart DEF Consumed, Streams
    <2>. QED BY <2>1, UnreadPart, StreamIs
  <1>2. CASE ~(Good(s) /\ Unread(s) # <<>>)
    <2>1. /\ Consumed(s) \in [txt : Seq(Symbols), g : Nat, eof : BOOLEAN, fail : BOOLEAN]
          /\ Consumed(s).txt = s.txt /\ Consumed(s).g = s.g
      BY <1>2 DEF Consumed, Streams
    <2>. QED BY <2>1, UnreadPart, StreamIs
  <1>. QED BY <1>1, <1>2

(* connection_read() is done with the buffer.                              *)
LEMMA DiscardedStream ==
  ASSUME NEW s \in Streams
  PROVE  Discarded(s) \in Streams
  <1>. DEFINE r == [s EXCEPT !.txt = <<>>, !.g = 0]
  <1>1. <<>> \in Seq(Symbols) /\ Len(<<>>) = 0
    BY EmptySeq
  <1>2. /\ r \in [txt : Seq(Symbols), g : Nat, eof : BOOLEAN, fail : BOOLEAN]
        /\ r.txt = <<>> /\ r.g = 0
    BY <1>1 DEF Streams
  <1>. HIDE DEF r
  <1>3. r \in Streams
    BY <1>1, <1>2, StreamIs
  <1>. QED BY <1>3 DEF Discarded, r


-----------------------------------------------------------------------------
(* Types.  They are proved in two parts, the connections' and the parser's. *)
ConnTypes ==
  /\ owner \in [Conns -> {"none", "io", "queue", "worker", "lost", "gone"}]
  /\ closing \in SUBSET Conns
  /\ fd \in [Conns -> Fds \cup {None}]
  /\ peer \in [Conns -> {None, "open", "closed", "reset"}]
  /\ wbuf \in [Conns -> {"eof", "empty", "full"}]
  /\ call \in [Conns -> Objs \cup {None, Lookup}]
  /\ script \in [Conns -> Seq(Seq(Symbols))]
  /\ rbuf \in [Conns -> Streams]

ParserTypes ==
  /\ reqs \in [Fds -> Objs \cup {None}]
  /\ heap \in [Objs -> Request]
  /\ \A c \in Conns : answered[c] \in Seq(Request)

(* These are TypeOK and StreamTypes.                                       *)
LEMMA TypeParts == TypeOK /\ StreamTypes <=> ConnTypes /\ ParserTypes
  <1>1. rbuf \in [Conns -> Streams]
        <=> /\ rbuf \in [Conns -> [txt : Seq(Symbols), g : Nat, eof : BOOLEAN, fail : BOOLEAN]]
            /\ \A c \in Conns : rbuf[c].g \in 0..Len(rbuf[c].txt)
    BY DEF Streams
  <1>. QED BY <1>1 DEF TypeOK, StreamTypes, ConnTypes, ParserTypes

(* A call returns with stream s.                                           *)
LEMMA ReturnTypes ==
  ASSUME ConnTypes, NEW c \in Conns, NEW s \in Streams, NEW rslt, Return(c, s, rslt)
  PROVE  ConnTypes'
  <1>1. rbuf' \in [Conns -> Streams]
    <2>1. (IF owner[c] = "io" THEN Discarded(s) ELSE s) \in Streams
      BY DiscardedStream
    <2>. QED BY <2>1 DEF ConnTypes, Return
  <1>2. closing' \in SUBSET Conns
    BY DEF ConnTypes, Return
  <1>3. owner' \in [Conns -> {"none", "io", "queue", "worker", "lost", "gone"}]
    BY DEF ConnTypes, Return
  <1>. QED BY <1>1, <1>2, <1>3 DEF ConnTypes, Return

(* The connections' part, in steps outside the parser.                     *)
LEMMA ServerTypes ==
  ASSUME ConnTypes, NEW c \in Conns,
         Accept(c) \/ Server(c) \/ ClientCloses(c) \/ ClientResets(c)
  PROVE  ConnTypes' /\ UNCHANGED <<reqs, heap, answered>>
  <1>1. CASE Accept(c)
    BY <1>1 DEF Accept, ConnTypes
  <1>2. CASE IoEvent(c)
    BY <1>2 DEF IoEvent, ConnTypes, Written
  <1>3. CASE IoFlush(c)
    BY <1>3 DEF IoFlush, ConnTypes, Written
  <1>4. CASE IoRead(c)
    <2>1. /\ script[c] \in Seq(Seq(Symbols)) /\ script[c] # <<>> /\ rbuf[c] \in Streams
      BY <1>4 DEF IoRead, ConnTypes
    <2>2. Head(script[c]) \in Seq(Symbols) /\ Tail(script[c]) \in Seq(Seq(Symbols))
      BY <2>1, HeadTailProperties
    <2>3. rbuf' \in [Conns -> Streams]
      <3>1. Received(rbuf[c], Head(script[c])) \in Streams
        BY <2>1, <2>2, SegmentStream
      <3>. QED BY <1>4, <3>1 DEF IoRead, ConnTypes
    <2>4. script' \in [Conns -> Seq(Seq(Symbols))]
      BY <1>4, <2>2 DEF IoRead, ConnTypes
    <2>5. wbuf' \in [Conns -> {"eof", "empty", "full"}]
      BY <1>4 DEF IoRead, ConnTypes
    <2>6. call' \in [Conns -> Objs \cup {None, Lookup}]
      BY <1>4 DEF IoRead, ConnTypes
    <2>7. UNCHANGED <<owner, closing, fd, peer, reqs, heap, answered>>
      BY <1>4 DEF IoRead
    <2>. QED BY <2>3, <2>4, <2>5, <2>6, <2>7 DEF ConnTypes
  <1>5. CASE IoReadFails(c)
    BY <1>5 DEF IoReadFails, ConnTypes
  <1>6. CASE Disconnect(c)
    BY <1>6 DEF Disconnect, ConnTypes
  <1>7. CASE WorkerTakes(c)
    BY <1>7 DEF WorkerTakes, ConnTypes
  <1>8. CASE ClientCloses(c) \/ ClientResets(c)
    BY <1>8 DEF ClientCloses, ClientResets, ConnTypes
  <1>. QED BY <1>1, <1>2, <1>3, <1>4, <1>5, <1>6, <1>7, <1>8 DEF Server

(* A number of bytes, as a size_t.                                         *)
LEMMA Wrapped ==
  ASSUME NEW n \in Int
  PROVE  n % SizeMod \in 0..(SizeMod - 1)
  BY HttpServerAssumption

(* New and freed requests are requests.                                    *)
LEMMA NewIsRequest ==
  /\ NewRequest \in Request /\ Free \in Request
  /\ NewRequest # Free /\ NewRequest.state = "WAIT_COMMAND" /\ Free.state = "free"
  <1>1. NewRequest \in Request
    BY HttpServerAssumption DEF NewRequest, Request
  <1>2. Free \in Request /\ Free.state = "free"
    BY <1>1 DEF Free, Request
  <1>3. NewRequest.state = "WAIT_COMMAND"
    BY DEF NewRequest
  <1>. QED BY <1>1, <1>2, <1>3


(* A call works on a request with stream s: what At() means.               *)
LEMMA Working ==
  ASSUME ConnTypes, ParserTypes, NEW c \in Conns, NEW st, At(c, st)
  PROVE  /\ call[c] \in Objs /\ heap[call[c]] \in Request /\ heap[call[c]].state = st
         /\ rbuf[c] \in Streams
  BY DEF ConnTypes, ParserTypes, At

(* The request of a call is replaced: all types stay.                      *)
LEMMA ContinueTypes ==
  ASSUME ConnTypes, ParserTypes, NEW c \in Conns, call[c] \in Objs,
         NEW r \in Request, NEW s \in Streams, Continue(c, r, s)
  PROVE  ConnTypes' /\ ParserTypes'
  <1>1. heap' \in [Objs -> Request]
    BY DEF Continue, ParserTypes
  <1>2. rbuf' \in [Conns -> Streams]
    BY DEF Continue, ConnTypes
  <1>. QED BY <1>1, <1>2 DEF Continue, connVars, ConnTypes, ParserTypes

(* A call waits for more data.                                             *)
LEMMA WaitTypes ==
  ASSUME ConnTypes, ParserTypes, NEW c \in Conns, call[c] \in Objs,
         NEW s \in Streams, WaitForMore(c, s)
  PROVE  ConnTypes' /\ ParserTypes'
  <1>1. ConnTypes'
    BY ReturnTypes DEF WaitForMore
  <1>2. reqs' \in [Fds -> Objs \cup {None}]
    BY DEF WaitForMore, ParserTypes
  <1>. QED BY <1>1, <1>2 DEF WaitForMore, ParserTypes

(* What the request of a call becomes in ReadCommand.                      *)
LEMMA CommandRequest ==
  ASSUME NEW c \in Conns, NEW r \in Request, NEW s
  PROVE  LET q == [r EXCEPT !.state = "WAIT_HEADER",
                            !.cmd = Contains(Line(s), "cmd"),
                            !.from = IF Good(s) THEN @ \cup {c} ELSE @]
         IN  q \in Request /\ q.state = "WAIT_HEADER"
  <1>1. Contains(Line(s), "cmd") \in BOOLEAN
    BY DEF Contains
  <1>2. (IF Good(s) THEN r.from \cup {c} ELSE r.from) \in SUBSET Conns
    BY DEF Request
  <1>. QED BY <1>1, <1>2 DEF Request

(* What it becomes in ReadHeader.                                          *)
LEMMA HeaderRequest ==
  ASSUME NEW c \in Conns, NEW r \in Request, NEW s \in Streams, NEW l,
         r.state = "WAIT_HEADER"
  PROVE  LET h == [r EXCEPT !.keep = @ \/ Contains(l, "keep"),
                            !.data_size = IF Contains(l, "len") THEN BodySize ELSE @,
                            !.from = IF Good(s) THEN @ \cup {c} ELSE @]
             q == [h EXCEPT !.state = "RECEIVING_DATA", !.blank = Good(s)]
         IN  /\ h \in Request /\ h.state = "WAIT_HEADER"
             /\ q \in Request /\ q.state = "RECEIVING_DATA"
  <1>. DEFINE h == [r EXCEPT !.keep = @ \/ Contains(l, "keep"),
                             !.data_size = IF Contains(l, "len") THEN BodySize ELSE @,
                             !.from = IF Good(s) THEN @ \cup {c} ELSE @]
  <1>1. (r.keep \/ Contains(l, "keep")) \in BOOLEAN /\ Good(s) \in BOOLEAN
    BY DEF Contains, Good
  <1>2. (IF Good(s) THEN r.from \cup {c} ELSE r.from) \in SUBSET Conns
    BY DEF Request
  <1>3. (IF Contains(l, "len") THEN BodySize ELSE r.data_size) \in {0, BodySize}
    BY DEF Request
  <1>4. h \in Request /\ h.state = "WAIT_HEADER"
    BY <1>1, <1>2, <1>3 DEF Request
  <1>. HIDE DEF h
  <1>5. [h EXCEPT !.state = "RECEIVING_DATA", !.blank = Good(s)] \in Request
        /\ [h EXCEPT !.state = "RECEIVING_DATA", !.blank = Good(s)].state = "RECEIVING_DATA"
    BY <1>1, <1>4 DEF Request
  <1>. QED BY <1>4, <1>5 DEF h

(* What it becomes in ReceiveData, when n bytes were read by then.         *)
WithData(c, r, s, n) ==
  [r EXCEPT !.data_readed = n,
            !.body = @ + (IF Good(s) THEN Len(Unread(s)) ELSE 0),
            !.from = IF Good(s) /\ Unread(s) # <<>> THEN @ \cup {c} ELSE @]

(* It is a request.                                                        *)
LEMMA DataRequest ==
  ASSUME NEW c \in Conns, NEW r \in Request, NEW s \in Streams, NEW n \in 0..(SizeMod - 1),
         r.state = "RECEIVING_DATA"
  PROVE  /\ WithData(c, r, s, n) \in Request
         /\ WithData(c, r, s, n).state = "RECEIVING_DATA"
         /\ [WithData(c, r, s, n) EXCEPT !.state = "PROCESS_REQUEST"] \in Request
         /\ [WithData(c, r, s, n) EXCEPT !.state = "PROCESS_REQUEST"].state = "PROCESS_REQUEST"
  <1>. DEFINE d == WithData(c, r, s, n)
  <1>1. r.body + (IF Good(s) THEN Len(Unread(s)) ELSE 0) \in Nat
    BY UnreadPart DEF Request
  <1>2. (IF Good(s) /\ Unread(s) # <<>> THEN r.from \cup {c} ELSE r.from) \in SUBSET Conns
    BY DEF Request
  <1>3. d \in Request /\ d.state = "RECEIVING_DATA"
    BY <1>1, <1>2 DEF Request, WithData
  <1>. HIDE DEF d
  <1>4. [d EXCEPT !.state = "PROCESS_REQUEST"] \in Request
        /\ [d EXCEPT !.state = "PROCESS_REQUEST"].state = "PROCESS_REQUEST"
    BY <1>3 DEF Request
  <1>. QED BY <1>3, <1>4 DEF d

(* What the three states that read do: they wait with a stream, or go on   *)
(* with a request that is not free.                                        *)
Reads(c) ==
  \/ \E s \in Streams : WaitForMore(c, s)
  \/ \E s \in Streams, r \in Request : Continue(c, r, s) /\ r.state # "free"

(* The three steps that read from the stream. *)
LEMMA ReadSteps ==
  ASSUME ConnTypes, ParserTypes, NEW c \in Conns,
         ReadCommand(c) \/ ReadHeader(c) \/ ReceiveData(c)
  PROVE  call[c] \in Objs /\ Reads(c)
  <1>1. CASE ReadCommand(c)
    <2>1. /\ call[c] \in Objs /\ heap[call[c]] \in Request /\ rbuf[c] \in Streams
      BY <1>1, Working DEF ReadCommand
    <2>2. CASE HitsEnd(rbuf[c])
      BY <1>1, <2>1, <2>2, RewoundStream DEF ReadCommand, Reads
    <2>3. CASE ~HitsEnd(rbuf[c])
      BY <1>1, <2>1, <2>3, SkippedStream, CommandRequest DEF ReadCommand, Reads
    <2>. QED BY <2>1, <2>2, <2>3
  <1>2. CASE ReadHeader(c)
    <2>1. /\ call[c] \in Objs /\ heap[call[c]] \in Request /\ rbuf[c] \in Streams
          /\ heap[call[c]].state = "WAIT_HEADER"
      BY <1>2, Working DEF ReadHeader
    <2>2. CASE HitsEnd(rbuf[c])
      BY <1>2, <2>1, <2>2, RewoundStream DEF ReadHeader, Reads
    <2>3. CASE ~HitsEnd(rbuf[c])
      <3>. DEFINE r == heap[call[c]]
                  s == rbuf[c]
                  l == Line(s)
                  h == [r EXCEPT !.keep = @ \/ Contains(l, "keep"),
                             !.data_size = IF Contains(l, "len") THEN BodySize ELSE @,
                             !.from = IF Good(s) THEN @ \cup {c} ELSE @]
                  q == [h EXCEPT !.state = "RECEIVING_DATA", !.blank = Good(s)]
      <3>1. h \in Request /\ h.state # "free" /\ q \in Request /\ q.state # "free"
        BY <2>1, HeaderRequest, ZenonT(60)
      <3>2. Continue(c, IF l = <<>> THEN q ELSE h, Skipped(s))
        BY <1>2, <2>3 DEF ReadHeader
      <3>. HIDE DEF h, q
      <3>. QED BY <2>1, <2>3, <3>1, <3>2, SkippedStream DEF Reads
    <2>. QED BY <2>1, <2>2, <2>3
  <1>3. CASE ReceiveData(c)
    <2>1. /\ call[c] \in Objs /\ heap[call[c]] \in Request /\ rbuf[c] \in Streams
          /\ heap[call[c]].state = "RECEIVING_DATA"
      BY <1>3, Working DEF ReceiveData
    <2>. DEFINE r == heap[call[c]]
                s == rbuf[c]
                n == (r.data_readed + Tellg(Consumed(s)) - Tellg(s)) % SizeMod
    <2>2. CASE r.data_size = 0
      <3>1. /\ [r EXCEPT !.state = "PROCESS_REQUEST"] \in Request
            /\ [r EXCEPT !.state = "PROCESS_REQUEST"].state = "PROCESS_REQUEST"
        BY <2>1 DEF Request
      <3>. QED BY <1>3, <2>1, <2>2, <3>1 DEF ReceiveData, Reads
    <2>3. CASE r.data_size # 0 /\ s.eof
      BY <1>3, <2>1, <2>3 DEF ReceiveData, Reads
    <2>4. CASE r.data_size # 0 /\ ~s.eof
      <3>1. Tellg(Consumed(s)) \in Int /\ Tellg(s) \in Int /\ r.data_readed \in Int
        BY <2>1, UnreadPart, ConsumedStream DEF Tellg, Request
      <3>2. n \in 0..(SizeMod - 1)
        BY <3>1, Wrapped
      <3>3. PICK m : m = n
        OBVIOUS
      <3>. HIDE DEF n
      <3>. DEFINE d == WithData(c, r, s, m)
                  q == [d EXCEPT !.state = "PROCESS_REQUEST"]
      <3>4. d \in Request /\ d.state # "free" /\ q \in Request /\ q.state # "free"
        BY <2>1, <3>2, <3>3, DataRequest
      <3>5. Continue(c, IF m >= r.data_size THEN q ELSE d, Consumed(s))
        BY <1>3, <2>4, <3>3 DEF ReceiveData, n, WithData
      <3>. HIDE DEF d, q
      <3>. QED BY <2>1, <3>4, <3>5, ConsumedStream DEF Reads
    <2>. QED BY <2>1, <2>2, <2>3, <2>4
  <1>. QED BY <1>1, <1>2, <1>3


-----------------------------------------------------------------------------
(* Who has which request.                                                  *)
Ownership ==
  NoDanglingRequest /\ NoSharedRequest /\ NoLeak /\ DescriptorsOwn /\ CallPlaces

(* A call that works on a request is for a connection with a descriptor.   *)
LEMMA CallHasFd ==
  ASSUME ConnTypes, DescriptorsOwn, CallPlaces, NEW c \in Conns, call[c] # None
  PROVE  fd[c] \in Fds /\ fd[c] # None /\ owner[c] \in {"io", "worker"}
  <1>1. owner[c] \in {"io", "worker"}
    BY DEF CallPlaces, Calling
  <1>2. fd[c] # None
    BY <1>1 DEF DescriptorsOwn
  <1>. QED BY <1>1, <1>2 DEF ConnTypes

(* An address is not one of the special values.                            *)
LEMMA Addresses ==
  /\ \A o \in Objs : o # None /\ o # Lookup
  /\ \A f \in Fds : f # None
  /\ None # Lookup
  BY HttpServerAssumption DEF None, Lookup

(* Outside the parser no request changes hands; a call begins without one, *)
(* and a descriptor is closed or given out while no call uses it.          *)
LEMMA ServerOwnership ==
  ASSUME ConnTypes, ParserTypes, Ownership, NEW c \in Conns,
         Accept(c) \/ Server(c) \/ ClientCloses(c) \/ ClientResets(c)
  PROVE  Ownership'
  <1>1. UNCHANGED <<reqs, heap>>
    BY ServerTypes
  <1>2. ASSUME UNCHANGED call
        PROVE  NoDanglingRequest' /\ NoLeak'
    BY <1>1, <1>2 DEF Ownership, NoDanglingRequest, NoLeak
  <1>3. ASSUME UNCHANGED <<call, fd>> PROVE NoSharedRequest'
    BY <1>1, <1>3 DEF Ownership, NoSharedRequest
  <1>4. CASE UNCHANGED <<owner, fd, call>>
    <2>1. DescriptorsOwn' /\ CallPlaces'
      BY <1>1, <1>4 DEF Ownership, DescriptorsOwn, CallPlaces, Calling
    <2>. QED BY <1>2, <1>3, <1>4, <2>1 DEF Ownership
  <1>5. CASE Accept(c)
    <2>1. PICK f \in Fds \ {fd[d] : d \in Conns} : fd' = [fd EXCEPT ![c] = f]
      BY <1>5 DEF Accept
    <2>2. /\ owner[c] = "none" /\ owner' = [owner EXCEPT ![c] = "io"] /\ call' = call
      BY <1>5 DEF Accept
    <2>3. /\ fd'[c] = f /\ \A d \in Conns : d # c => fd'[d] = fd[d] /\ owner'[d] = owner[d]
          /\ owner'[c] = "io"
      BY <2>1, <2>2 DEF ConnTypes
    <2>4. call[c] = None
      BY <2>2 DEF Ownership, CallPlaces, Calling
    <2>5. DescriptorsOwn'
      BY <2>1, <2>3, Addresses DEF Ownership, DescriptorsOwn
    <2>6. CallPlaces'
      BY <1>1, <2>2, <2>3, <2>4, Addresses DEF Ownership, CallPlaces, Calling
    <2>7. NoSharedRequest'
      BY <1>1, <2>2, <2>3, <2>4, Addresses DEF Ownership, NoSharedRequest
    <2>. QED BY <1>2, <2>2, <2>5, <2>6, <2>7 DEF Ownership
  <1>6. CASE IoEvent(c)
    <2>1. /\ owner[c] = "io" /\ owner' = [owner EXCEPT ![c] = "queue"] /\ UNCHANGED <<fd, call>>
          /\ IoFree
      BY <1>6 DEF IoEvent
    <2>2. owner'[c] = "queue" /\ \A d \in Conns : d # c => owner'[d] = owner[d]
      BY <2>1 DEF ConnTypes
    <2>3. call[c] = None
      BY <2>1 DEF IoFree, Calling
    <2>4. DescriptorsOwn' /\ CallPlaces'
      BY <1>1, <2>1, <2>2, <2>3, Addresses DEF Ownership, DescriptorsOwn, CallPlaces, Calling
    <2>. QED BY <1>2, <1>3, <2>1, <2>4 DEF Ownership
  <1>7. CASE Disconnect(c)
    <2>1. /\ owner[c] = "io" /\ owner' = [owner EXCEPT ![c] = "gone"] /\ UNCHANGED call
          /\ fd' = [fd EXCEPT ![c] = None] /\ IoFree
      BY <1>7 DEF Disconnect
    <2>2. /\ owner'[c] = "gone" /\ fd'[c] = None
          /\ \A d \in Conns : d # c => owner'[d] = owner[d] /\ fd'[d] = fd[d]
      BY <2>1 DEF ConnTypes
    <2>3. call[c] = None
      BY <2>1 DEF IoFree, Calling
    <2>4. DescriptorsOwn'
      BY <2>2 DEF Ownership, DescriptorsOwn
    <2>5. CallPlaces'
      BY <1>1, <2>1, <2>2, <2>3, Addresses DEF Ownership, CallPlaces, Calling
    <2>6. NoSharedRequest'
      BY <1>1, <2>1, <2>2, <2>3, Addresses DEF Ownership, NoSharedRequest
    <2>. QED BY <1>2, <2>1, <2>4, <2>5, <2>6 DEF Ownership
  <1>8. CASE IoRead(c) \/ WorkerTakes(c)
    <2>1. /\ call' = [call EXCEPT ![c] = Lookup] /\ fd' = fd
          /\ owner[c] \in {"io", "queue"} /\ owner' \in {owner, [owner EXCEPT ![c] = "worker"]}
          /\ owner[c] = "io" => owner' = owner
          /\ owner[c] = "queue" => owner' = [owner EXCEPT ![c] = "worker"]
          /\ IoFree
      BY <1>8 DEF IoRead, WorkerTakes
    <2>2. /\ call'[c] = Lookup /\ \A d \in Conns : d # c => call'[d] = call[d] /\ owner'[d] = owner[d]
          /\ owner'[c] \in {"io", "worker"}
      BY <2>1 DEF ConnTypes
    <2>3. call[c] = None
      BY <2>1 DEF Ownership, CallPlaces, IoFree, Calling
    <2>4. DescriptorsOwn'
      BY <2>1, <2>2 DEF Ownership, DescriptorsOwn
    <2>5. CallPlaces'
      BY <1>1, <2>1, <2>2, Addresses DEF Ownership, CallPlaces, Calling
    <2>6. NoSharedRequest' /\ NoDanglingRequest'
      BY <1>1, <2>1, <2>2, Addresses DEF Ownership, NoSharedRequest, NoDanglingRequest
    <2>7. NoLeak'
      BY <1>1, <2>2, <2>3, Addresses DEF Ownership, NoLeak
    <2>. QED BY <2>4, <2>5, <2>6, <2>7 DEF Ownership
  <1>. QED
    BY <1>4, <1>5, <1>6, <1>7, <1>8
      DEF Server, IoFlush, IoReadFails, ClientCloses, ClientResets

(* process_data finds the request of its descriptor, or makes one at an    *)
(* address nobody has.                                                     *)
LEMMA FindOwnership ==
  ASSUME ConnTypes, ParserTypes, Ownership, NEW c \in Conns, FindRequest(c)
  PROVE  ConnTypes' /\ ParserTypes' /\ Ownership'
  <1>1. /\ call[c] = Lookup /\ UNCHANGED <<connVars, rbuf, reqs, answered>>
        /\ UNCHANGED <<owner, fd>>
    BY DEF FindRequest, connVars
  <1>2. fd[c] \in Fds /\ owner[c] \in {"io", "worker"}
    BY <1>1, CallHasFd, Addresses DEF Ownership
  <1>3. CASE reqs[fd[c]] # None
    <2>1. /\ call' = [call EXCEPT ![c] = reqs[fd[c]]] /\ heap' = heap /\ reqs[fd[c]] \in Objs
      BY <1>2, <1>3 DEF FindRequest, ParserTypes
    <2>2. call'[c] = reqs[fd[c]] /\ \A d \in Conns : d # c => call'[d] = call[d]
      BY <2>1 DEF ConnTypes
    <2>3. ConnTypes' /\ ParserTypes'
      BY <1>1, <2>1 DEF ConnTypes, ParserTypes, connVars
    <2>4. DescriptorsOwn' /\ CallPlaces'
      BY <1>1, <1>2, <2>1, <2>2 DEF Ownership, DescriptorsOwn, CallPlaces, Calling
    <2>5. NoDanglingRequest' /\ NoLeak'
      BY <1>1, <1>2, <2>1, <2>2, Addresses DEF Ownership, NoDanglingRequest, NoLeak
    <2>6. \A d \in Conns : d # c => call[d] # reqs[fd[c]]
      <3>1. \A d \in Conns : d # c => fd[d] # fd[c]
        BY <1>2, Addresses DEF Ownership, DescriptorsOwn
      <3>. QED BY <1>2, <2>1, <3>1 DEF Ownership, NoSharedRequest
    <2>7. NoSharedRequest'
      BY <1>1, <1>2, <2>1, <2>2, <2>6, Addresses DEF Ownership, NoSharedRequest
    <2>. QED BY <2>3, <2>4, <2>5, <2>7 DEF Ownership
  <1>4. CASE reqs[fd[c]] = None
    <2>1. PICK o \in Objs : heap[o] = Free /\ heap' = [heap EXCEPT ![o] = NewRequest]
                            /\ call' = [call EXCEPT ![c] = o]
      BY <1>4 DEF FindRequest
    <2>2. /\ call'[c] = o /\ \A d \in Conns : d # c => call'[d] = call[d]
          /\ heap'[o] = NewRequest /\ \A p \in Objs : p # o => heap'[p] = heap[p]
      BY <2>1 DEF ConnTypes, ParserTypes
    <2>3. ConnTypes' /\ ParserTypes'
      BY <1>1, <2>1, NewIsRequest DEF ConnTypes, ParserTypes, connVars
    <2>4. (\A f \in Fds : reqs[f] # o) /\ \A d \in Conns : call[d] # o
      BY <2>1, Addresses DEF Ownership, NoDanglingRequest
    <2>5. DescriptorsOwn' /\ CallPlaces'
      BY <1>1, <1>2, <1>4, <2>2 DEF Ownership, DescriptorsOwn, CallPlaces, Calling
    <2>6. NoDanglingRequest'
      BY <1>1, <2>1, <2>2, <2>4, NewIsRequest DEF Ownership, NoDanglingRequest, ParserTypes
    <2>7. NoSharedRequest'
      BY <1>1, <2>2, <2>4 DEF Ownership, NoSharedRequest
    <2>8. NoLeak'
      BY <1>1, <2>1, <2>2, Addresses DEF Ownership, NoLeak
    <2>. QED BY <2>3, <2>5, <2>6, <2>7, <2>8 DEF Ownership
  <1>. QED BY <1>3, <1>4


(* A call goes on with its request.                                        *)
LEMMA ContinueOwnership ==
  ASSUME ConnTypes, ParserTypes, Ownership, NEW c \in Conns, call[c] \in Objs,
         NEW r, r # Free, heap' = [heap EXCEPT ![call[c]] = r],
         UNCHANGED <<owner, fd, reqs, call>>
  PROVE  Ownership'
  <1>1. heap'[call[c]] = r /\ \A p \in Objs : p # call[c] => heap'[p] = heap[p]
    BY DEF ParserTypes
  <1>2. DescriptorsOwn' /\ CallPlaces' /\ NoSharedRequest'
    BY DEF Ownership, DescriptorsOwn, CallPlaces, Calling, NoSharedRequest
  <1>3. NoDanglingRequest'
    BY <1>1 DEF Ownership, NoDanglingRequest, ParserTypes
  <1>4. NoLeak'
    BY <1>1 DEF Ownership, NoLeak
  <1>. QED BY <1>2, <1>3, <1>4 DEF Ownership

(* A call that has a request returns: where its connection goes.           *)
LEMMA ReturnOwner ==
  ASSUME ConnTypes, NEW c \in Conns, NEW s, NEW rslt, Return(c, s, rslt),
         owner[c] \in {"io", "worker"}
  PROVE  /\ call'[c] = None /\ owner'[c] \in {"io", "queue"} /\ fd' = fd
         /\ \A d \in Conns : d # c => call'[d] = call[d] /\ owner'[d] = owner[d]
  BY DEF Return, ConnTypes

(* It waits for more data: the map keeps the request.                      *)
LEMMA WaitOwnership ==
  ASSUME ConnTypes, ParserTypes, Ownership, NEW c \in Conns, call[c] \in Objs,
         NEW s \in Streams, WaitForMore(c, s)
  PROVE  Ownership'
  <1>1. fd[c] \in Fds /\ fd[c] # None /\ owner[c] \in {"io", "worker"} /\ call[c] # None
    BY CallHasFd, Addresses DEF Ownership
  <1>2. /\ reqs' = [reqs EXCEPT ![fd[c]] = call[c]] /\ heap' = heap /\ Return(c, s, TRUE)
    BY DEF WaitForMore
  <1>3. /\ call'[c] = None /\ owner'[c] \in {"io", "queue"} /\ fd' = fd
        /\ \A d \in Conns : d # c => call'[d] = call[d] /\ owner'[d] = owner[d]
    BY <1>1, <1>2, ReturnOwner
  <1>4. /\ reqs'[fd[c]] = call[c] /\ \A f \in Fds : f # fd[c] => reqs'[f] = reqs[f]
        /\ reqs[fd[c]] \in {None, call[c]}
    BY <1>1, <1>2 DEF ParserTypes, Ownership, CallPlaces
  <1>5. \A d \in Conns : d # c => fd[d] # fd[c]
    BY <1>1 DEF Ownership, DescriptorsOwn
  <1>6. \A d \in Conns : d # c /\ call[d] \in Objs => fd[d] \in Fds
    BY CallHasFd, Addresses DEF Ownership
  <1>7. DescriptorsOwn'
    BY <1>1, <1>3 DEF Ownership, DescriptorsOwn
  <1>8. CallPlaces'
    BY <1>3, <1>4, <1>5, <1>6, Addresses DEF Ownership, CallPlaces, Calling
  <1>9. NoDanglingRequest'
    BY <1>2, <1>3, <1>4, Addresses DEF Ownership, NoDanglingRequest
  <1>10. NoSharedRequest'
    <2>1. \A d, e \in Conns : call'[d] \in Objs /\ call'[d] = call'[e] => d = e
      BY <1>3, Addresses DEF Ownership, NoSharedRequest
    <2>2. \A f \in Fds : reqs[f] = call[c] => f = fd[c]
      BY DEF Ownership, NoSharedRequest
    <2>3. \A f, g \in Fds : reqs'[f] # None /\ reqs'[f] = reqs'[g] => f = g
      BY <1>4, <2>2 DEF Ownership, NoSharedRequest
    <2>4. \A d \in Conns, f \in Fds : call'[d] \in Objs /\ reqs'[f] = call'[d] => f = fd[d]
      BY <1>3, <1>4, Addresses DEF Ownership, NoSharedRequest
    <2>. QED BY <1>3, <2>1, <2>3, <2>4 DEF NoSharedRequest
  <1>11. NoLeak'
    <2>. SUFFICES ASSUME NEW o \in Objs, heap[o] # Free
                  PROVE  \/ \E f \in Fds : reqs'[f] = o
                         \/ \E d \in Conns : call'[d] = o
                         \/ HandlerMayThrow /\ heap[o].state = "PROCESS_REQUEST"
      BY <1>2 DEF NoLeak
    <2>1. CASE o = call[c]
      BY <1>1, <1>4, <2>1
    <2>2. ASSUME NEW f \in Fds, reqs[f] = o, o # call[c] PROVE reqs'[f] = o
      BY <1>4, <2>2, Addresses
    <2>3. ASSUME NEW d \in Conns, call[d] = o, o # call[c] PROVE call'[d] = o
      BY <1>3, <2>3
    <2>. QED BY <2>1, <2>2, <2>3 DEF Ownership, NoLeak
  <1>. QED BY <1>7, <1>8, <1>9, <1>10, <1>11 DEF Ownership

(* It is deleted, and erased from the map.                                 *)
LEMMA CloseOwnership ==
  ASSUME ConnTypes, ParserTypes, Ownership, NEW c \in Conns, CloseRequest(c)
  PROVE  ConnTypes' /\ ParserTypes' /\ Ownership'
  <1>0. call[c] \in Objs /\ rbuf[c] \in Streams
    BY Working DEF CloseRequest
  <1>1. fd[c] \in Fds /\ fd[c] # None /\ owner[c] \in {"io", "worker"} /\ call[c] # None
    BY <1>0, CallHasFd, Addresses DEF Ownership
  <1>2. PICK rslt : Return(c, rbuf[c], rslt)
    BY DEF CloseRequest
  <1>3. /\ call'[c] = None /\ owner'[c] \in {"io", "queue"} /\ fd' = fd
        /\ \A d \in Conns : d # c => call'[d] = call[d] /\ owner'[d] = owner[d]
    BY <1>1, <1>2, ReturnOwner
  <1>4. /\ reqs' = [reqs EXCEPT ![fd[c]] = None] /\ heap' = [heap EXCEPT ![call[c]] = Free]
        /\ answered' = answered
    BY DEF CloseRequest
  <1>5. /\ reqs'[fd[c]] = None /\ \A f \in Fds : f # fd[c] => reqs'[f] = reqs[f]
        /\ heap'[call[c]] = Free /\ \A p \in Objs : p # call[c] => heap'[p] = heap[p]
        /\ reqs[fd[c]] \in {None, call[c]}
    BY <1>0, <1>1, <1>4 DEF ParserTypes, Ownership, CallPlaces
  <1>6. ConnTypes' /\ ParserTypes'
    <2>1. ConnTypes'
      BY <1>0, <1>2, ReturnTypes
    <2>2. ParserTypes'
      BY <1>4, NewIsRequest DEF ParserTypes
    <2>. QED BY <2>1, <2>2
  <1>7. /\ \A d \in Conns : d # c => fd[d] # fd[c] /\ call[d] # call[c]
        /\ \A f \in Fds : reqs[f] = call[c] => f = fd[c]
    BY <1>0, <1>1 DEF Ownership, DescriptorsOwn, NoSharedRequest
  <1>8. \A d \in Conns : d # c /\ call[d] \in Objs => fd[d] \in Fds
    BY CallHasFd, Addresses DEF Ownership
  <1>9. DescriptorsOwn'
    BY <1>1, <1>3 DEF Ownership, DescriptorsOwn
  <1>10. CallPlaces'
    BY <1>3, <1>5, <1>7, <1>8, Addresses DEF Ownership, CallPlaces, Calling
  <1>11. NoDanglingRequest'
    BY <1>3, <1>5, <1>7, Addresses DEF Ownership, NoDanglingRequest, ParserTypes
  <1>12. NoSharedRequest'
    BY <1>3, <1>5, Addresses DEF Ownership, NoSharedRequest
  <1>13. NoLeak'
    <2>. SUFFICES ASSUME NEW o \in Objs, heap'[o] # Free
                  PROVE  \/ \E f \in Fds : reqs'[f] = o
                         \/ \E d \in Conns : call'[d] = o
                         \/ HandlerMayThrow /\ heap'[o].state = "PROCESS_REQUEST"
      BY DEF NoLeak
    <2>1. o # call[c] /\ heap'[o] = heap[o]
      BY <1>5
    <2>2. ASSUME NEW f \in Fds, reqs[f] = o PROVE reqs'[f] = o
      BY <1>5, <2>1, <2>2, Addresses
    <2>3. ASSUME NEW d \in Conns, call[d] = o PROVE call'[d] = o
      BY <1>3, <2>1, <2>3
    <2>. QED BY <2>1, <2>2, <2>3 DEF Ownership, NoLeak
  <1>. QED BY <1>6, <1>9, <1>10, <1>11, <1>12, <1>13 DEF Ownership

(* on_request has thrown: the request stays where it is in the map, or is  *)
(* the one that is leaked.                                                 *)
LEMMA ThrowOwnership ==
  ASSUME ConnTypes, ParserTypes, Ownership, NEW c \in Conns, RequestThrows(c)
  PROVE  ConnTypes' /\ ParserTypes' /\ Ownership'
  <1>1. /\ HandlerMayThrow /\ call[c] \in Objs /\ heap[call[c]].state = "PROCESS_REQUEST"
        /\ call' = [call EXCEPT ![c] = None] /\ UNCHANGED <<fd, reqs, heap>>
        /\ owner' = [owner EXCEPT ![c] = IF @ = "io" THEN "io" ELSE "lost"]
    BY DEF RequestThrows, At
  <1>2. ConnTypes' /\ ParserTypes'
    BY <1>1 DEF RequestThrows, ConnTypes, ParserTypes
  <1>3. /\ call'[c] = None /\ owner'[c] \in {"io", "lost"}
        /\ \A d \in Conns : d # c => call'[d] = call[d] /\ owner'[d] = owner[d]
    BY <1>1 DEF ConnTypes
  <1>4. fd[c] # None
    BY <1>1, CallHasFd, Addresses DEF Ownership
  <1>5. DescriptorsOwn' /\ CallPlaces'
    BY <1>1, <1>3, <1>4, Addresses DEF Ownership, DescriptorsOwn, CallPlaces, Calling
  <1>6. NoDanglingRequest' /\ NoSharedRequest'
    BY <1>1, <1>3, Addresses DEF Ownership, NoDanglingRequest, NoSharedRequest
  <1>7. NoLeak'
    BY <1>1, <1>3 DEF Ownership, NoLeak
  <1>. QED BY <1>2, <1>5, <1>6, <1>7 DEF Ownership

(* on_request answers.                                                     *)
LEMMA ProcessOwnership ==
  ASSUME ConnTypes, ParserTypes, Ownership, NEW c \in Conns, ProcessRequest(c)
  PROVE  ConnTypes' /\ ParserTypes' /\ Ownership'
  <1>1. call[c] \in Objs /\ heap[call[c]] \in Request
    BY Working DEF ProcessRequest
  <1>. DEFINE r == [heap[call[c]] EXCEPT !.state = "CLOSING"]
  <1>2. r \in Request /\ r.state = "CLOSING"
    BY <1>1 DEF Request
  <1>3. heap' = [heap EXCEPT ![call[c]] = r]
    BY DEF ProcessRequest
  <1>. HIDE DEF r
  <1>4. ParserTypes'
    <2>1. heap' \in [Objs -> Request]
      BY <1>2, <1>3 DEF ParserTypes
    <2>2. \A d \in Conns : answered'[d] \in Seq(Request)
      BY <1>1, AppendProperties DEF ProcessRequest, ParserTypes
    <2>. QED BY <2>1, <2>2 DEF ProcessRequest, ParserTypes
  <1>5. ConnTypes'
    BY DEF ProcessRequest, ConnTypes
  <1>6. Ownership'
    BY <1>1, <1>2, <1>3, ContinueOwnership, NewIsRequest DEF ProcessRequest
  <1>. QED BY <1>4, <1>5, <1>6


-----------------------------------------------------------------------------
(* The invariant, by the parts in which it is proved.                      *)
Parts == ConnTypes /\ ParserTypes /\ Ownership

(* The invariant by its parts. *)
LEMMA InvParts == HttpInv <=> Parts
  BY TypeParts DEF HttpInv, RequestOwned, Ownership, Parts

(* Before the first connection.                                            *)
LEMMA InitParts == Init => Parts
  <1>. SUFFICES ASSUME Init PROVE Parts
    OBVIOUS
  <1>1. [EmptyStream EXCEPT !.eof = TRUE] \in Streams
    <2>1. <<>> \in Seq(Symbols) /\ Len(<<>>) = 0
      BY EmptySeq
    <2>2. EmptyStream \in [txt : Seq(Symbols), g : Nat, eof : BOOLEAN, fail : BOOLEAN]
          /\ EmptyStream.txt = <<>> /\ EmptyStream.g = 0
      BY <2>1 DEF EmptyStream
    <2>. DEFINE s == [EmptyStream EXCEPT !.eof = TRUE]
    <2>3. /\ s \in [txt : Seq(Symbols), g : Nat, eof : BOOLEAN, fail : BOOLEAN]
          /\ s.txt = <<>> /\ s.g = 0
      BY <2>2
    <2>. HIDE DEF s
    <2>4. s \in Streams
      BY <2>1, <2>3, StreamIs
    <2>. QED BY <2>4 DEF s
  <1>2. ConnTypes
    BY <1>1, HttpServerAssumption DEF Init, ConnTypes
  <1>3. ParserTypes
    BY NewIsRequest, EmptySeq DEF Init, ParserTypes
  <1>4. Ownership
    BY Addresses DEF Init, Ownership, NoDanglingRequest, NoSharedRequest, NoLeak,
                     DescriptorsOwn, CallPlaces, Calling
  <1>. QED BY <1>2, <1>3, <1>4 DEF Parts

(* Every step keeps it.                                                    *)
LEMMA NextParts ==
  ASSUME Parts, [Next]_vars
  PROVE  Parts'
  <1>0. ConnTypes /\ ParserTypes /\ Ownership
    BY DEF Parts
  <1>1. CASE UNCHANGED vars
    <2>1. ConnTypes' /\ ParserTypes'
      BY <1>0, <1>1 DEF vars, ConnTypes, ParserTypes
    <2>2. Ownership'
      BY <1>0, <1>1 DEF vars, Ownership, NoDanglingRequest, NoSharedRequest, NoLeak,
                        DescriptorsOwn, CallPlaces, Calling
    <2>. QED BY <2>1, <2>2 DEF Parts
  <1>2. ASSUME NEW c \in Conns,
               Accept(c) \/ Server(c) \/ ClientCloses(c) \/ ClientResets(c)
        PROVE  Parts'
    <2>1. ConnTypes' /\ UNCHANGED <<reqs, heap, answered>>
      BY <1>0, <1>2, ServerTypes
    <2>2. ParserTypes'
      BY <1>0, <2>1 DEF ParserTypes
    <2>3. Ownership'
      BY <1>0, <1>2, ServerOwnership
    <2>. QED BY <2>1, <2>2, <2>3 DEF Parts
  <1>3. ASSUME NEW c \in Conns, ReadCommand(c) \/ ReadHeader(c) \/ ReceiveData(c)
        PROVE  Parts'
    <2>1. call[c] \in Objs /\ Reads(c)
      BY <1>0, <1>3, ReadSteps
    <2>2. ASSUME NEW s \in Streams, WaitForMore(c, s) PROVE Parts'
      BY <1>0, <2>1, <2>2, WaitTypes, WaitOwnership DEF Parts
    <2>3. ASSUME NEW s \in Streams, NEW r \in Request, Continue(c, r, s), r.state # "free"
          PROVE  Parts'
      <3>1. ConnTypes' /\ ParserTypes'
        BY <1>0, <2>1, <2>3, ContinueTypes
      <3>2. r # Free
        BY <2>3, NewIsRequest
      <3>3. heap' = [heap EXCEPT ![call[c]] = r] /\ UNCHANGED <<owner, fd, reqs, call>>
        BY <2>3 DEF Continue, connVars
      <3>4. Ownership'
        BY <1>0, <2>1, <3>2, <3>3, ContinueOwnership
      <3>. QED BY <3>1, <3>4 DEF Parts
    <2>. QED BY <2>1, <2>2, <2>3 DEF Reads
  <1>4. ASSUME NEW c \in Conns,
               FindRequest(c) \/ ProcessRequest(c) \/ RequestThrows(c) \/ CloseRequest(c)
        PROVE  Parts'
    BY <1>0, <1>4, FindOwnership, ProcessOwnership, ThrowOwnership, CloseOwnership DEF Parts
  <1>. QED BY <1>1, <1>2, <1>3, <1>4 DEF Next, process_data

(* The inductive invariant holds.                                          *)
THEOREM HttpSafe == Spec => []HttpInv
  <1>1. Init => Parts
    BY InitParts
  <1>2. Parts /\ [Next]_vars => Parts'
    BY NextParts
  <1>. QED BY <1>1, <1>2, InvParts, PTL DEF Spec

(* The map, the calls under way and the heap agree about every request: no *)
(* call uses a deleted one, no two calls share one, none is leaked but the *)
(* one a handler threw for.                                                *)
THEOREM RequestsSafe == Spec => []RequestOwned
  <1>1. HttpInv => RequestOwned
    BY DEF HttpInv
  <1>. QED BY <1>1, HttpSafe, PTL

-----------------------------------------------------------------------------
(* Where a call that returns leaves its connection, in the life cycle.     *)
LEMMA ReturnRefines ==
  ASSUME ConnTypes, NEW c \in Conns, NEW s, NEW rslt, Return(c, s, rslt),
         owner[c] \in {"io", "worker"}
  PROVE  \/ Lifecycle!Enqueue(c) \/ Lifecycle!Close(c) \/ Lifecycle!GiveBack(c)
         \/ UNCHANGED Lifecycle!lifecycleVars
  <1>1. /\ closing' = IF rslt THEN closing ELSE closing \cup {c}
        /\ owner' = [owner EXCEPT ![c] = IF @ = "io" /\ c \notin closing'
                                           THEN "queue" ELSE "io"]
        /\ owner \in [Conns -> {"none", "io", "queue", "worker", "lost", "gone"}]
    BY DEF Return, ConnTypes
  <1>2. CASE owner[c] = "io" /\ c \notin closing'
    <2>1. closing' = closing /\ c \notin closing
      BY <1>1, <1>2
    <2>. QED BY <1>1, <1>2, <2>1 DEF Lifecycle!Enqueue, Lifecycle!Pass
  <1>3. CASE owner[c] = "io" /\ c \in closing'
    <2>1. owner' = owner
      BY <1>1, <1>3
    <2>. QED BY <1>1, <1>3, <2>1 DEF Lifecycle!Close, Lifecycle!lifecycleVars
  <1>4. CASE owner[c] = "worker"
    BY <1>1, <1>4 DEF Lifecycle!GiveBack, Lifecycle!Pass
  <1>. QED BY <1>2, <1>3, <1>4

(* Every step of the server and its parser is one of the life cycle.       *)
LEMMA StepRefines ==
  ASSUME Parts, Next
  PROVE  Lifecycle!LifecycleNext \/ UNCHANGED Lifecycle!lifecycleVars
  <1>0. ConnTypes /\ ParserTypes /\ Ownership
    BY DEF Parts
  <1>1. PICK c \in Conns :
          Accept(c) \/ Server(c) \/ process_data(c) \/ ClientCloses(c) \/ ClientResets(c)
    BY DEF Next
  <1>2. CASE UNCHANGED <<owner, closing>>
    BY <1>2 DEF Lifecycle!lifecycleVars
  <1>3. CASE Accept(c)
    BY <1>3 DEF Accept, Lifecycle!LifecycleNext, Lifecycle!Accept, Lifecycle!Pass
  <1>4. CASE IoEvent(c)
    BY <1>4 DEF IoEvent, Lifecycle!LifecycleNext, Lifecycle!Enqueue, Lifecycle!Pass
  <1>5. CASE IoReadFails(c)
    BY <1>5 DEF IoReadFails, Lifecycle!LifecycleNext, Lifecycle!Close
  <1>6. CASE WorkerTakes(c)
    BY <1>6 DEF WorkerTakes, Lifecycle!LifecycleNext, Lifecycle!Take, Lifecycle!Pass
  <1>7. CASE Disconnect(c)
    <2>1. Lifecycle!Disconnect({c})
      BY <1>0, <1>7 DEF Disconnect, Lifecycle!Disconnect, ConnTypes
    <2>. QED BY <2>1 DEF Lifecycle!LifecycleNext
  <1>8. CASE RequestThrows(c)
    <2>1. owner[c] \in {"io", "worker"}
      BY <1>0, <1>8, CallHasFd, Addresses DEF RequestThrows, At, Ownership
    <2>2. CASE owner[c] = "io"
      BY <1>0, <1>2, <1>8, <2>2 DEF RequestThrows, ConnTypes
    <2>3. CASE owner[c] = "worker"
      BY <1>8, <2>3 DEF RequestThrows, Lifecycle!LifecycleNext, Lifecycle!Lose, Lifecycle!Pass
    <2>. QED BY <2>1, <2>2, <2>3
  <1>9. ASSUME NEW s, NEW rslt, Return(c, s, rslt), call[c] \in Objs
        PROVE  Lifecycle!LifecycleNext \/ UNCHANGED Lifecycle!lifecycleVars
    <2>1. owner[c] \in {"io", "worker"}
      BY <1>0, <1>9, CallHasFd, Addresses DEF Ownership
    <2>. QED BY <1>0, <1>9, <2>1, ReturnRefines DEF Lifecycle!LifecycleNext
  <1>10. CASE CloseRequest(c)
    BY <1>9, <1>10 DEF CloseRequest, At
  <1>11. CASE ReadCommand(c) \/ ReadHeader(c) \/ ReceiveData(c)
    <2>1. call[c] \in Objs /\ Reads(c)
      BY <1>0, <1>11, ReadSteps
    <2>. QED BY <1>2, <1>9, <2>1 DEF Reads, WaitForMore, Continue, connVars
  <1>12. CASE IoFlush(c) \/ IoRead(c) \/ FindRequest(c) \/ ProcessRequest(c)
              \/ ClientCloses(c) \/ ClientResets(c)
    BY <1>2, <1>12 DEF IoFlush, IoRead, FindRequest, ProcessRequest, ClientCloses,
                       ClientResets, connVars
  <1>. QED
    BY <1>1, <1>3, <1>4, <1>5, <1>6, <1>7, <1>8, <1>10, <1>11, <1>12 DEF Server, process_data

(* The handler is called in the life cycle tcp_server promises: what is    *)
(* assumed of tcp_server here is what TcpServer implements.                *)
THEOREM HttpRefines == Spec => KeepsLifecycle
  <1>1. Init => Lifecycle!LifecycleInit
    BY DEF Init, Lifecycle!LifecycleInit
  <1>2. Parts /\ [Next]_vars => [Lifecycle!LifecycleNext]_(Lifecycle!lifecycleVars)
    BY StepRefines DEF vars, Lifecycle!lifecycleVars
  <1>3. Spec => []Parts
    BY HttpSafe, InvParts, PTL
  <1>. QED
    BY <1>1, <1>2, <1>3, PTL DEF Spec, KeepsLifecycle, Lifecycle!LifecycleSpec

-----------------------------------------------------------------------------
(* The text of a request and the segments it is sent in.                   *)

(* The next segment and what follows it.                                   *)
LEMMA NextSegment ==
  ASSUME NEW T \in Seq(Symbols), NEW e, NEW p \in 0..Len(T), NEW z \in Seq(Seq(Symbols)),
         z # <<>>, Splits(T, e, p, z)
  PROVE  \E q \in 1..Len(T) :
           p < q /\ CutAt(T, e, q) /\ Head(z) = SubSeq(T, p + 1, q) /\ Splits(T, e, q, Tail(z))
  <1>1. PICK n : n = Len(z)
    OBVIOUS
  <1>2. n \in Nat /\ n >= 1 /\ Len(T) \in Nat
    BY <1>1, LenProperties, EmptySeq
  <1>3. PICK cut \in [0..n -> 0..Len(T)] :
          /\ cut[0] = p /\ cut[n] = Len(T)
          /\ \A i \in 1..n :
               /\ cut[i - 1] < cut[i] /\ CutAt(T, e, cut[i])
               /\ z[i] = SubSeq(T, cut[i - 1] + 1, cut[i])
    BY <1>1 DEF Splits
  <1>4. PICK q : q = cut[1]
    OBVIOUS
  <1>5. /\ q \in 0..Len(T) /\ p < q /\ CutAt(T, e, q) /\ z[1] = SubSeq(T, p + 1, q)
    <2>1. 1 \in 1..n /\ 1 \in 0..n /\ 1 - 1 = 0
      BY <1>2
    <2>2. cut[1 - 1] < cut[1] /\ CutAt(T, e, cut[1]) /\ z[1] = SubSeq(T, cut[1 - 1] + 1, cut[1])
      BY <1>3, <2>1
    <2>3. cut[1] \in 0..Len(T)
      BY <1>3, <2>1
    <2>. QED BY <1>3, <1>4, <2>1, <2>2, <2>3
  <1>6. q \in 1..Len(T)
    BY <1>2, <1>5
  <1>7. Head(z) = z[1] /\ Len(Tail(z)) = n - 1 /\ \A i \in 1..(n - 1) : Tail(z)[i] = z[i + 1]
    BY <1>1, <1>2, HeadTailProperties
  <1>8. Splits(T, e, q, Tail(z))
    <2>. DEFINE nxt == [i \in 0..(n - 1) |-> cut[i + 1]]
    <2>1. nxt \in [0..(n - 1) -> 0..Len(T)]
      BY <1>2, <1>3, SMTT(30)
    <2>2. nxt[0] = q /\ nxt[n - 1] = Len(T)
      BY <1>2, <1>3, <1>4
    <2>3. ASSUME NEW i \in 1..(n - 1)
          PROVE  /\ nxt[i - 1] < nxt[i] /\ CutAt(T, e, nxt[i])
                 /\ Tail(z)[i] = SubSeq(T, nxt[i - 1] + 1, nxt[i])
      <3>1. nxt[i] = cut[i + 1] /\ nxt[i - 1] = cut[i] /\ i + 1 \in 1..n /\ (i + 1) - 1 = i
        BY <1>2, <2>3
      <3>2. PICK j \in 1..n : j = i + 1 /\ j - 1 = i
        BY <3>1
      <3>3. /\ cut[j - 1] < cut[j] /\ CutAt(T, e, cut[j])
            /\ z[j] = SubSeq(T, cut[j - 1] + 1, cut[j])
        BY <1>3, <3>2
      <3>4. Tail(z)[i] = z[j]
        BY <1>7, <2>3, <3>2
      <3>. QED BY <3>1, <3>2, <3>3, <3>4
    <2>. HIDE DEF nxt
    <2>. QED BY <1>7, <2>1, <2>2, <2>3 DEF Splits
  <1>. QED BY <1>5, <1>6, <1>7, <1>8

(* Nothing follows the whole text, and something follows nothing of it.    *)
LEMMA NoSegment ==
  ASSUME NEW T \in Seq(Symbols), NEW e, NEW z \in Seq(Seq(Symbols)), Splits(T, e, Len(T), z)
  PROVE  z = <<>>
  <1>1. SUFFICES ASSUME z # <<>> PROVE FALSE
    OBVIOUS
  <1>2. Len(T) \in Nat
    BY LenProperties
  <1>3. PICK p \in 0..Len(T) : p = Len(T)
    BY <1>2
  <1>4. Splits(T, e, p, z)
    BY <1>3
  <1>5. PICK q \in 1..Len(T) : p < q
    BY <1>1, <1>4, NextSegment
  <1>. QED BY <1>2, <1>3, <1>5

(* A text that is not empty has a segment. *)
LEMMA SomeSegment ==
  ASSUME NEW T \in Seq(Symbols), NEW e, NEW z \in Seq(Seq(Symbols)), Splits(T, e, 0, z),
         Len(T) > 0
  PROVE  z # <<>>
  <1>1. SUFFICES ASSUME z = <<>> PROVE FALSE
    OBVIOUS
  <1>2. Len(z) = 0
    BY <1>1, EmptySeq
  <1>3. Len(T) = 0
    BY <1>2 DEF Splits
  <1>. QED BY <1>3

(* A segment that arrives continues the text.                              *)
LEMMA TextGrows ==
  ASSUME NEW T \in Seq(Symbols), NEW p \in 0..Len(T), NEW q \in 0..Len(T), p <= q
  PROVE  SubSeq(T, 1, p) \o SubSeq(T, p + 1, q) = SubSeq(T, 1, q)
  <1>0. Len(T) \in Nat
    BY LenProperties
  <1>. DEFINE a == SubSeq(T, 1, p)
              b == SubSeq(T, p + 1, q)
              d == SubSeq(T, 1, q)
  <1>1. a \in Seq(Symbols) /\ Len(a) = p /\ \A i \in 1..p : a[i] = T[i]
    BY <1>0, SubSeqProperties
  <1>2. b \in Seq(Symbols) /\ Len(b) = q - p /\ \A i \in 1..(q - p) : b[i] = T[p + i]
    <2>1. /\ b \in Seq(Symbols)
          /\ Len(b) = IF p + 1 <= q THEN q - (p + 1) + 1 ELSE 0
          /\ \A i \in 1..(q - (p + 1) + 1) : b[i] = T[(p + 1) + i - 1]
      BY <1>0, SubSeqProperties
    <2>. HIDE DEF b
    <2>2. \A i \in 1..(q - p) : i \in 1..(q - (p + 1) + 1) /\ (p + 1) + i - 1 = p + i
      BY <1>0
    <2>3. Len(b) = q - p
      BY <1>0, <2>1
    <2>. QED BY <2>1, <2>2, <2>3
  <1>3. d \in Seq(Symbols) /\ Len(d) = q /\ \A i \in 1..q : d[i] = T[i]
    BY <1>0, SubSeqProperties
  <1>. HIDE DEF a, b, d
  <1>4. /\ a \o b \in Seq(Symbols) /\ Len(a \o b) = p + (q - p)
        /\ \A i \in 1..(p + (q - p)) : (a \o b)[i] = IF i <= p THEN a[i] ELSE b[i - p]
    BY <1>1, <1>2, ConcatProperties
  <1>5. Len(a \o b) = q
    BY <1>0, <1>4
  <1>6. ASSUME NEW i \in 1..q PROVE (a \o b)[i] = d[i]
    <2>1. (a \o b)[i] = IF i <= p THEN a[i] ELSE b[i - p]
      BY <1>0, <1>4, <1>6
    <2>2. CASE i <= p
      BY <1>0, <1>1, <1>3, <1>6, <2>1, <2>2
    <2>3. CASE ~(i <= p)
      <3>1. i - p \in 1..(q - p) /\ p + (i - p) = i
        BY <1>0, <1>6, <2>3
      <3>. QED BY <1>2, <1>3, <1>6, <2>1, <2>3, <3>1
    <2>. QED BY <2>2, <2>3
  <1>7. a \o b = d
    BY <1>3, <1>4, <1>5, <1>6, SeqEqual
  <1>. QED BY <1>7 DEF a, b, d
-----------------------------------------------------------------------------
(* A stream with the text up to place p, and the line that is next in it.  *)

(* What is unread of the text.                                             *)
LEMMA UnreadText ==
  ASSUME NEW T \in Seq(Symbols), NEW p \in 0..Len(T), NEW s \in Streams, s.txt = SubSeq(T, 1, p)
  PROVE  /\ s.g \in 0..p /\ Unread(s) \in Seq(Symbols) /\ Len(Unread(s)) = p - s.g
         /\ \A i \in 1..(p - s.g) : Unread(s)[i] = T[s.g + i]
  <1>0. Len(T) \in Nat
    BY LenProperties
  <1>1. Len(s.txt) = p /\ \A i \in 1..p : s.txt[i] = T[i]
    BY <1>0, SubSeqProperties
  <1>2. PICK g \in Nat : g = s.g /\ g <= p
    BY <1>1, UnreadPart
  <1>3. Unread(s) = SubSeq(s.txt, g + 1, p)
    BY <1>1, <1>2 DEF Unread
  <1>4. \A i \in (g + 1)..p : s.txt[i] \in Symbols
    BY <1>0, <1>1, <1>2, ElementOfSeq
  <1>5. \A i \in 1..(p - (g + 1) + 1) : SubSeq(s.txt, g + 1, p)[i] = s.txt[(g + 1) + i - 1]
    <2>1. PICK t : t = s.txt
      OBVIOUS
    <2>2. PICK k \in Int : k = g + 1
      BY <1>2
    <2>3. p \in Int
      BY <1>0
    <2>4. \A i \in k..p : t[i] \in Symbols
      BY <1>4, <2>1, <2>2
    <2>5. \A i \in 1..(p - k + 1) : SubSeq(t, k, p)[i] = t[k + i - 1]
      BY <2>2, <2>3, <2>4, SubSeqProperties
    <2>. QED BY <2>1, <2>2, <2>5
  <1>6. ASSUME NEW i \in 1..(p - g) PROVE Unread(s)[i] = T[g + i]
    <2>1. i \in 1..(p - (g + 1) + 1) /\ (g + 1) + i - 1 = g + i /\ g + i \in 1..p
      BY <1>2, <1>6
    <2>2. Unread(s)[i] = s.txt[g + i]
      BY <1>3, <1>5, <2>1
    <2>. QED BY <1>1, <2>1, <2>2
  <1>7. Len(Unread(s)) = p - g /\ Unread(s) \in Seq(Symbols)
    BY <1>1, <1>2, UnreadPart
  <1>8. s.g \in 0..p
    BY <1>2
  <1>. QED BY <1>2, <1>6, <1>7, <1>8

(* getline() meets the end when no line end has arrived.                   *)
LEMMA EndOfText ==
  ASSUME NEW T \in Seq(Symbols), NEW p \in 0..Len(T), NEW s \in Streams, s.txt = SubSeq(T, 1, p),
         Good(s), HitsEnd(s), NEW i \in (s.g + 1)..p
  PROVE  T[i] # "nl"
  <1>1. PICK g \in 0..p : g = s.g
    BY UnreadText
  <1>2. Len(Unread(s)) = p - g /\ \A j \in 1..(p - g) : Unread(s)[j] = T[g + j]
    BY <1>1, UnreadText
  <1>3. \A j \in 1..(p - g) : Unread(s)[j] # "nl"
    BY <1>2 DEF Good, HitsEnd, Contains
  <1>4. i - g \in 1..(p - g) /\ g + (i - g) = i
    BY <1>1
  <1>. QED BY <1>2, <1>3, <1>4

(* The line at place g of the text ends at place m.                        *)
LineEnds(T, g, m) == g < m /\ T[m] = "nl" /\ \A j \in (g + 1)..(m - 1) : T[j] # "nl"

(* Otherwise it reads the line up to the next line end.                    *)
LEMMA NextLine ==
  ASSUME NEW T \in Seq(Symbols), NEW p \in 0..Len(T), NEW s \in Streams, s.txt = SubSeq(T, 1, p),
         Good(s), ~HitsEnd(s)
  PROVE  \E m \in 1..p :
           /\ LineEnds(T, s.g, m) /\ Skipped(s) = [s EXCEPT !.g = m]
           /\ \A x : Contains(Line(s), x) <=> \E j \in (s.g + 1)..(m - 1) : T[j] = x
           /\ Line(s) = <<>> <=> m = s.g + 1
  <1>0. Len(T) \in Nat
    BY LenProperties
  <1>1. PICK g \in 0..p : g = s.g
    BY UnreadText
  <1>2. PICK u \in Seq(Symbols) : u = Unread(s)
    BY UnreadText
  <1>3. Len(u) = p - g /\ \A j \in 1..(p - g) : u[j] = T[g + j]
    BY <1>1, <1>2, UnreadText
  <1>. DEFINE I == {i \in 1..Len(u) : u[i] = "nl"}
  <1>4. I # {} /\ I \in SUBSET Nat
    BY <1>2 DEF Good, HitsEnd, Contains
  <1>5. PICK k : k = Min(I)
    OBVIOUS
  <1>6. k \in I /\ \A j \in I : k <= j
    <2>1. Min(I) \in I /\ \A j \in I : Min(I) <= j
      BY <1>4, LeastNumber
    <2>. QED BY <1>5, <2>1
  <1>7. k \in 1..(p - g) /\ u[k] = "nl" /\ \A j \in 1..(p - g) : u[j] = "nl" => k <= j
    BY <1>3, <1>6
  <1>8. LineLen(s) = k - 1
    BY <1>2, <1>4, <1>5 DEF LineLen, SelectInSeq
  <1>. HIDE DEF I
  <1>9. PICK m \in 1..p : m = g + k
    BY <1>1, <1>7
  <1>10. LineEnds(T, g, m)
    <2>1. g < m /\ T[m] = "nl"
      BY <1>1, <1>3, <1>7, <1>9, SMTT(30)
    <2>2. ASSUME NEW j \in (g + 1)..(m - 1) PROVE T[j] # "nl"
      <3>0. p \in Int /\ g \in Int /\ k \in Int /\ m \in Int /\ j \in Int /\ m = g + k
            /\ g + 1 <= j /\ j <= m - 1 /\ k <= p - g
        BY <1>0, <1>7, <1>9, <2>2
      <3>1. j - g \in 1..(p - g) /\ ~(k <= j - g) /\ g + (j - g) = j
        BY <3>0
      <3>. QED BY <1>3, <1>7, <3>1
    <2>. QED BY <2>1, <2>2 DEF LineEnds
  <1>11. Skipped(s) = [s EXCEPT !.g = m]
    <2>1. g + LineLen(s) + 1 = m
      BY <1>7, <1>8, <1>9
    <2>2. Skipped(s) = [s EXCEPT !.g = s.g + LineLen(s) + 1]
      BY DEF Skipped
    <2>. QED BY <1>1, <2>1, <2>2
  <1>12. PICK l \in Seq(Symbols) : /\ l = Line(s) /\ Len(l) = k - 1
                                  /\ \A i \in 1..(k - 1) : l[i] = T[g + i]
    <2>1. Line(s) = SubSeq(u, 1, k - 1)
      BY <1>2, <1>8 DEF Line
    <2>2. \A i \in 1..(k - 1) : u[i] \in Symbols
      BY <1>3, <1>7, ElementOfSeq
    <2>3. k - 1 \in Int /\ 1 \in Int
      BY <1>7
    <2>4. /\ SubSeq(u, 1, k - 1) \in Seq(Symbols)
          /\ Len(SubSeq(u, 1, k - 1)) = IF 1 <= k - 1 THEN (k - 1) - 1 + 1 ELSE 0
          /\ \A i \in 1..((k - 1) - 1 + 1) : SubSeq(u, 1, k - 1)[i] = u[1 + i - 1]
      BY <2>2, <2>3, SubSeqProperties
    <2>5. PICK l : l = SubSeq(u, 1, k - 1)
      OBVIOUS
    <2>6. Len(l) = k - 1
      BY <1>7, <2>4, <2>5
    <2>7. \A i \in 1..(k - 1) : l[i] = T[g + i]
      <3>1. \A i \in 1..(k - 1) : i \in 1..((k - 1) - 1 + 1) /\ 1 + i - 1 = i /\ i \in 1..(p - g)
        BY <1>7
      <3>. QED BY <1>3, <2>4, <2>5, <3>1
    <2>. QED BY <2>1, <2>4, <2>5, <2>6, <2>7
  <1>13. ASSUME NEW x PROVE Contains(Line(s), x) <=> \E j \in (g + 1)..(m - 1) : T[j] = x
    <2>1. ASSUME NEW i \in 1..(k - 1), l[i] = x PROVE \E j \in (g + 1)..(m - 1) : T[j] = x
      <3>1. g + i \in (g + 1)..(m - 1)
        BY <1>7, <1>9, <2>1
      <3>. QED BY <1>12, <2>1, <3>1
    <2>2. ASSUME NEW j \in (g + 1)..(m - 1), T[j] = x PROVE \E i \in 1..(k - 1) : l[i] = x
      <3>1. j - g \in 1..(k - 1) /\ g + (j - g) = j
        BY <1>7, <1>9, <2>2
      <3>. QED BY <1>12, <2>2, <3>1
    <2>. QED BY <1>12, <2>1, <2>2 DEF Contains
  <1>14. Line(s) = <<>> <=> m = g + 1
    <2>1. l = <<>> <=> k - 1 = 0
      BY <1>12, EmptySeq
    <2>. QED BY <1>7, <1>9, <1>12, <2>1
  <1>. QED BY <1>1, <1>9, <1>10, <1>11, <1>13, <1>14

(* What is known of the text of a request.                                 *)
LEMMA TextOf ==
  ASSUME NEW T, NEW e, RequestText(T, e)
  PROVE  /\ T \in Seq(Symbols) /\ Len(T) \in Nat /\ e \in 2..Len(T) /\ e \in Int
         /\ T[e] = "nl" /\ T[e - 1] = "nl"
         /\ \A i \in 2..(e - 1) : ~(T[i] = "nl" /\ T[i - 1] = "nl")
         /\ Len(T) = e + SizeAt(T, e)
         /\ \A i \in 1..e : T[i] # "keep"
  <1>1. T \in Seq(Symbols) /\ HeaderEnds(T, e) /\ Len(T) = e + SizeAt(T, e)
        /\ \A i \in 1..e : T[i] # "keep"
    BY DEF RequestText
  <1>2. Len(T) \in Nat
    BY <1>1, LenProperties
  <1>3. e \in 2..Len(T) /\ T[e] = "nl" /\ T[e - 1] = "nl"
        /\ \A i \in 2..(e - 1) : ~(T[i] = "nl" /\ T[i - 1] = "nl")
    BY <1>1 DEF HeaderEnds
  <1>4. e \in Int
    BY <1>2, <1>3
  <1>. QED BY <1>1, <1>2, <1>3, <1>4

(* The first line has the command, and no content length.                  *)
LEMMA FirstLine ==
  ASSUME NEW T, NEW e, RequestText(T, e), NEW m \in Nat, LineEnds(T, 0, m)
  PROVE  /\ m \in 1..(e - 1) /\ SizeAt(T, m) = 0
         /\ \E j \in 1..(m - 1) : T[j] = "cmd"
  <1>1. 0 < m /\ T[m] = "nl" /\ \A j \in 1..(m - 1) : T[j] # "nl"
    BY DEF LineEnds
  <1>2. e \in Int /\ e >= 2 /\ T[e - 1] = "nl"
    BY TextOf
  <1>3. m \in 1..(e - 1)
    <2>1. ~(e - 1 \in 1..(m - 1))
      BY <1>1, <1>2
    <2>. QED BY <1>1, <1>2, <2>1
  <1>4. SizeAt(T, m) = 0
    <2>1. ASSUME NEW i \in 1..m, NEW j \in 1..(i - 1) PROVE T[j] # "nl"
      <3>1. j \in 1..(m - 1)
        BY <2>1
      <3>. QED BY <1>1, <3>1
    <2>. QED BY <2>1 DEF SizeAt
  <1>5. PICK i \in 1..e : T[i] = "cmd" /\ \A j \in 1..i : T[j] # "nl"
    BY DEF RequestText
  <1>6. i \in 1..(m - 1)
    <2>1. ~(m \in 1..i)
      BY <1>1, <1>5
    <2>. QED BY <1>1, <1>2, <2>1
  <1>. QED BY <1>3, <1>4, <1>5, <1>6

(* A line of the header: an empty one is the end of it, another is before  *)
(* the end, and the content length is found in it.                         *)
LEMMA HeaderLine ==
  ASSUME NEW T, NEW e, RequestText(T, e), NEW g \in 1..(e - 1), T[g] = "nl",
         NEW m \in Nat, LineEnds(T, g, m)
  PROVE  /\ m = g + 1 => m = e
         /\ m # g + 1 => m \in 1..(e - 1)
         /\ \A j \in (g + 1)..(m - 1) : T[j] # "keep"
         /\ SizeAt(T, m) = IF \E j \in (g + 1)..(m - 1) : T[j] = "len"
                             THEN BodySize ELSE SizeAt(T, g)
  <1>1. g < m /\ T[m] = "nl" /\ \A j \in (g + 1)..(m - 1) : T[j] # "nl"
    BY DEF LineEnds
  <1>2. /\ e \in Int /\ e >= 2 /\ T[e - 1] = "nl" /\ T[e] = "nl"
        /\ \A i \in 2..(e - 1) : ~(T[i] = "nl" /\ T[i - 1] = "nl")
        /\ \A i \in 1..e : T[i] # "keep"
    BY TextOf
  <1>3. m <= e
    <2>1. ~(e \in (g + 1)..(m - 1))
      BY <1>1, <1>2
    <2>. QED BY <1>1, <1>2, <2>1
  <1>4. m = g + 1 => m = e
    <2>1. SUFFICES ASSUME m = g + 1, m # e PROVE FALSE
      OBVIOUS
    <2>2. m \in 2..(e - 1) /\ m - 1 = g
      BY <1>2, <1>3, <2>1
    <2>. QED BY <1>1, <1>2, <2>2
  <1>5. m # g + 1 => m \in 1..(e - 1)
    <2>1. SUFFICES ASSUME m # g + 1 PROVE m \in 1..(e - 1)
      OBVIOUS
    <2>2. ~(e - 1 \in (g + 1)..(m - 1))
      BY <1>1, <1>2
    <2>. QED BY <1>1, <1>2, <1>3, <2>1, <2>2
  <1>6. ASSUME NEW j \in (g + 1)..(m - 1) PROVE T[j] # "keep"
    <2>1. j \in 1..e
      BY <1>2, <1>3
    <2>. QED BY <1>2, <2>1
  <1>7. SizeAt(T, m) = IF \E j \in (g + 1)..(m - 1) : T[j] = "len" THEN BodySize ELSE SizeAt(T, g)
    <2>. DEFINE Has(n) == \E i \in 1..n : T[i] = "len" /\ (\E j \in 1..(i - 1) : T[j] = "nl")
    <2>1. SizeAt(T, m) = (IF Has(m) THEN BodySize ELSE 0) /\ SizeAt(T, g) = (IF Has(g) THEN BodySize ELSE 0)
      BY DEF SizeAt
    <2>2. ASSUME NEW i \in (g + 1)..(m - 1), T[i] = "len" PROVE Has(m)
      <3>1. i \in 1..m /\ g \in 1..(i - 1)
        BY <2>2
      <3>. QED BY <2>2, <3>1
    <2>3. ASSUME Has(g) PROVE Has(m)
      <3>1. PICK i \in 1..g : T[i] = "len" /\ (\E j \in 1..(i - 1) : T[j] = "nl")
        BY <2>3
      <3>2. i \in 1..m
        BY <1>1
      <3>. QED BY <3>1, <3>2
    <2>4. ASSUME Has(m) PROVE Has(g) \/ \E j \in (g + 1)..(m - 1) : T[j] = "len"
      <3>1. PICK i \in 1..m : T[i] = "len" /\ (\E j \in 1..(i - 1) : T[j] = "nl")
        BY <2>4
      <3>2. i # m
        BY <1>1, <3>1
      <3>3. i \in 1..g \/ i \in (g + 1)..(m - 1)
        BY <3>2
      <3>. QED BY <3>1, <3>3
    <2>. HIDE DEF Has
    <2>. QED BY <2>1, <2>2, <2>3, <2>4
  <1>. QED BY <1>4, <1>5, <1>6, <1>7

(* A stream of which the text has arrived up to place p.                   *)
Holds(T, e, p, s) ==
  RequestText(T, e) /\ p \in 1..Len(T) /\ CutAt(T, e, p) /\ Good(s) /\ s.txt = SubSeq(T, 1, p)

(* What a stream that holds a request says of its text. *)
LEMMA HoldsText ==
  ASSUME NEW T, NEW e, NEW p, NEW s \in Streams, Holds(T, e, p, s)
  PROVE  /\ T \in Seq(Symbols) /\ p \in 0..Len(T) /\ p \in 1..Len(T) /\ p \in Int /\ Len(T) \in Nat
         /\ e \in 2..Len(T) /\ e \in Int /\ s.g \in 0..p /\ s.g \in Int /\ Len(s.txt) = p
         /\ s.txt = SubSeq(T, 1, p) /\ Good(s) /\ RequestText(T, e) /\ CutAt(T, e, p)
  <1>1. /\ RequestText(T, e) /\ p \in 1..Len(T) /\ CutAt(T, e, p) /\ Good(s)
        /\ s.txt = SubSeq(T, 1, p)
    BY DEF Holds
  <1>2. T \in Seq(Symbols) /\ Len(T) \in Nat /\ e \in 2..Len(T) /\ e \in Int
    BY <1>1, TextOf
  <1>3. p \in 0..Len(T) /\ p \in Int
    BY <1>1, <1>2
  <1>4. s.g \in 0..p
    BY <1>1, <1>2, <1>3, UnreadText
  <1>5. s.g \in Int
    BY <1>3, <1>4
  <1>6. Len(s.txt) = p
    BY <1>1, <1>2, <1>3, SubSeqProperties
  <1>. QED BY <1>1, <1>2, <1>3, <1>4, <1>5, <1>6

(* What Progress says of a request in each of its states.                  *)
LEMMA ProgressStates ==
  ASSUME NEW T, NEW e, NEW c, NEW g, NEW r, Progress(T, e, c, g, r)
  PROVE  /\ r.state \in {"WAIT_COMMAND", "WAIT_HEADER", "RECEIVING_DATA", "PROCESS_REQUEST", "CLOSING"}
         /\ r.state = "WAIT_COMMAND" => r = NewRequest /\ g = 0
         /\ r.state \in {"WAIT_HEADER", "RECEIVING_DATA"} =>
              /\ r.cmd /\ ~r.keep /\ r.from = {c} /\ r.body = 0 /\ r.data_readed = 0
              /\ r.data_size = SizeAt(T, g)
         /\ r.state = "WAIT_HEADER" => g \in 1..(e - 1) /\ T[g] = "nl"
         /\ r.state = "RECEIVING_DATA" => g = e /\ r.blank
         /\ r.state = "PROCESS_REQUEST" => WholeRequest(c, r) /\ ~r.keep
         /\ r.state = "CLOSING" => ~r.keep
  <1>1. NewRequest.state = "WAIT_COMMAND"
    BY NewIsRequest
  <1>. QED BY <1>1 DEF Progress

(* The stream after a line of it is taken.                                 *)
LEMMA SkippedPlace ==
  ASSUME NEW s \in Streams, NEW m \in Nat, Good(s), Skipped(s) = [s EXCEPT !.g = m]
  PROVE  Skipped(s).g = m /\ Skipped(s).txt = s.txt /\ Good(Skipped(s))
  BY DEF Streams, Good

(* The command line is read.                                               *)
LEMMA CommandRead ==
  ASSUME NEW T, NEW e, NEW p, NEW s \in Streams, NEW c, NEW r, Holds(T, e, p, s), ~HitsEnd(s),
         Progress(T, e, c, s.g, r), r.state = "WAIT_COMMAND"
  PROVE  LET q == [r EXCEPT !.state = "WAIT_HEADER",
                            !.cmd = Contains(Line(s), "cmd"),
                            !.from = IF Good(s) THEN @ \cup {c} ELSE @]
         IN  /\ Progress(T, e, c, Skipped(s).g, q) /\ q.state = "WAIT_HEADER"
             /\ Holds(T, e, p, Skipped(s))
  <1>1. r = NewRequest /\ s.g = 0
    BY ProgressStates
  <1>2. /\ T \in Seq(Symbols) /\ p \in 0..Len(T) /\ s.txt = SubSeq(T, 1, p) /\ Good(s)
        /\ RequestText(T, e) /\ p \in Int
    BY HoldsText
  <1>3. PICK m \in 1..p :
           /\ LineEnds(T, s.g, m) /\ Skipped(s) = [s EXCEPT !.g = m]
           /\ \A x : Contains(Line(s), x) <=> \E j \in (s.g + 1)..(m - 1) : T[j] = x
           /\ Line(s) = <<>> <=> m = s.g + 1
    BY <1>2, NextLine
  <1>4. m \in Nat /\ 0 + 1 = 1
    BY <1>2
  <1>5. LineEnds(T, 0, m) /\ (Contains(Line(s), "cmd") <=> \E j \in 1..(m - 1) : T[j] = "cmd")
    BY <1>1, <1>3, <1>4
  <1>6. m \in 1..(e - 1) /\ SizeAt(T, m) = 0 /\ T[m] = "nl" /\ Contains(Line(s), "cmd")
    BY <1>2, <1>4, <1>5, FirstLine DEF LineEnds
  <1>7. Skipped(s).g = m /\ Skipped(s).txt = s.txt /\ Good(Skipped(s))
    BY <1>2, <1>3, <1>4, SkippedPlace
  <1>. DEFINE q == [r EXCEPT !.state = "WAIT_HEADER",
                             !.cmd = Contains(Line(s), "cmd"),
                             !.from = IF Good(s) THEN @ \cup {c} ELSE @]
  <1>8. Contains(Line(s), "cmd") = TRUE
    BY <1>6 DEF Contains
  <1>9. /\ q.state = "WAIT_HEADER" /\ q.cmd /\ ~q.keep /\ q.from = {c} /\ q.body = 0
        /\ q.data_readed = 0 /\ q.data_size = 0
    BY <1>1, <1>2, <1>8 DEF NewRequest
  <1>. HIDE DEF q
  <1>10. Progress(T, e, c, m, q)
    BY <1>6, <1>9 DEF Progress
  <1>11. Holds(T, e, p, Skipped(s))
    BY <1>7 DEF Holds
  <1>12. Progress(T, e, c, Skipped(s).g, q) /\ q.state = "WAIT_HEADER"
    BY <1>7, <1>9, <1>10
  <1>. QED BY <1>11, <1>12 DEF q

(* A line of the header is read.                                           *)
LEMMA HeaderRead ==
  ASSUME NEW T, NEW e, NEW p, NEW s \in Streams, NEW c, NEW r \in Request, Holds(T, e, p, s),
         ~HitsEnd(s), Progress(T, e, c, s.g, r), r.state = "WAIT_HEADER"
  PROVE  LET l == Line(s)
             h == [r EXCEPT !.keep = @ \/ Contains(l, "keep"),
                            !.data_size = IF Contains(l, "len") THEN BodySize ELSE @,
                            !.from = IF Good(s) THEN @ \cup {c} ELSE @]
             b == [h EXCEPT !.state = "RECEIVING_DATA", !.blank = Good(s)]
             q == IF l = <<>> THEN b ELSE h
         IN  /\ Progress(T, e, c, Skipped(s).g, q) /\ Holds(T, e, p, Skipped(s))
             /\ q.state = "WAIT_HEADER" \/ p = Len(T)
  <1>1. /\ r.cmd /\ ~r.keep /\ r.from = {c} /\ r.body = 0 /\ r.data_readed = 0
        /\ r.data_size = SizeAt(T, s.g) /\ s.g \in 1..(e - 1) /\ T[s.g] = "nl"
    BY ProgressStates
  <1>2. /\ T \in Seq(Symbols) /\ p \in 0..Len(T) /\ s.txt = SubSeq(T, 1, p) /\ Good(s)
        /\ RequestText(T, e) /\ p \in Int /\ e \in Int /\ CutAt(T, e, p)
    BY HoldsText
  <1>3. PICK m \in 1..p :
           /\ LineEnds(T, s.g, m) /\ Skipped(s) = [s EXCEPT !.g = m]
           /\ \A x : Contains(Line(s), x) <=> \E j \in (s.g + 1)..(m - 1) : T[j] = x
           /\ Line(s) = <<>> <=> m = s.g + 1
    BY <1>2, NextLine
  <1>4. PICK g \in 1..(e - 1) : g = s.g
    BY <1>1
  <1>5. /\ LineEnds(T, g, m) /\ T[g] = "nl" /\ r.data_size = SizeAt(T, g)
        /\ \A x : Contains(Line(s), x) <=> \E j \in (g + 1)..(m - 1) : T[j] = x
        /\ Line(s) = <<>> <=> m = g + 1
    BY <1>1, <1>3, <1>4
  <1>6. m \in Nat /\ m <= p
    BY <1>2
  <1>7. /\ m = g + 1 => m = e
        /\ m # g + 1 => m \in 1..(e - 1)
        /\ \A j \in (g + 1)..(m - 1) : T[j] # "keep"
        /\ SizeAt(T, m) = IF \E j \in (g + 1)..(m - 1) : T[j] = "len"
                            THEN BodySize ELSE SizeAt(T, g)
    BY <1>2, <1>5, <1>6, HeaderLine
  <1>8. Skipped(s).g = m /\ Skipped(s).txt = s.txt /\ Good(Skipped(s))
    BY <1>2, <1>3, <1>6, SkippedPlace
  <1>9. ~Contains(Line(s), "keep")
    BY <1>5, <1>7
  <1>10. SizeAt(T, m) = IF Contains(Line(s), "len") THEN BodySize ELSE r.data_size
    BY <1>5, <1>7
  <1>11. T[m] = "nl"
    BY <1>5 DEF LineEnds
  <1>. DEFINE l == Line(s)
              h == [r EXCEPT !.keep = @ \/ Contains(l, "keep"),
                            !.data_size = IF Contains(l, "len") THEN BodySize ELSE @,
                            !.from = IF Good(s) THEN @ \cup {c} ELSE @]
              b == [h EXCEPT !.state = "RECEIVING_DATA", !.blank = Good(s)]
              q == IF l = <<>> THEN b ELSE h
  <1>12. (r.keep \/ Contains(l, "keep")) = FALSE /\ Good(s) = TRUE /\ r.from \cup {c} = {c}
    BY <1>1, <1>2, <1>9 DEF Good, Contains
  <1>13. /\ h.state = "WAIT_HEADER" /\ h.cmd /\ ~h.keep /\ h.from = {c} /\ h.body = 0
         /\ h.data_readed = 0 /\ h.data_size = SizeAt(T, m)
    BY <1>1, <1>2, <1>10, <1>12 DEF Request
  <1>14. DOMAIN h = {"state", "data_size", "data_readed", "keep", "cmd", "blank", "body", "from"}
    BY DEF Request
  <1>. HIDE DEF h
  <1>15. /\ b.state = "RECEIVING_DATA" /\ b.cmd /\ ~b.keep /\ b.from = {c} /\ b.body = 0
         /\ b.data_readed = 0 /\ b.data_size = SizeAt(T, m) /\ b.blank
    BY <1>12, <1>13, <1>14
  <1>. HIDE DEF b
  <1>16. CASE l = <<>>
    <2>1. m = e /\ q = b
      BY <1>5, <1>7, <1>16
    <2>2. Progress(T, e, c, m, q)
      BY <1>15, <2>1 DEF Progress
    <2>3. p = Len(T)
      BY <1>2, <1>6, <2>1 DEF CutAt
    <2>. QED BY <1>8, <2>2, <2>3 DEF Holds, b, h
  <1>17. CASE l # <<>>
    <2>1. m \in 1..(e - 1) /\ q = h
      BY <1>5, <1>7, <1>17
    <2>2. Progress(T, e, c, m, q)
      BY <1>11, <1>13, <2>1 DEF Progress
    <2>3. q.state = "WAIT_HEADER"
      BY <1>13, <2>1
    <2>. QED BY <1>8, <2>2, <2>3 DEF Holds, b, h
  <1>. QED BY <1>16, <1>17

(* The content is read, or there is none: it is all there.                 *)
LEMMA NoContent ==
  ASSUME NEW T, NEW e, NEW p, NEW s \in Streams, NEW c, NEW r \in Request,
         Progress(T, e, c, s.g, r), r.state = "RECEIVING_DATA", r.data_size = 0
  PROVE  /\ Progress(T, e, c, s.g, [r EXCEPT !.state = "PROCESS_REQUEST"])
         /\ [r EXCEPT !.state = "PROCESS_REQUEST"].state = "PROCESS_REQUEST"
  <1>1. r.cmd /\ ~r.keep /\ r.from = {c} /\ r.body = 0 /\ r.blank
    BY ProgressStates
  <1>. DEFINE q == [r EXCEPT !.state = "PROCESS_REQUEST"]
  <1>2. /\ q.cmd /\ ~q.keep /\ q.from = {c} /\ q.body = 0 /\ q.blank /\ q.data_size = 0
        /\ q.state = "PROCESS_REQUEST"
    BY <1>1 DEF Request
  <1>. HIDE DEF q
  <1>3. Progress(T, e, c, s.g, q) /\ q.state = "PROCESS_REQUEST"
    BY <1>2 DEF Progress, WholeRequest
  <1>. QED BY <1>3 DEF q

(* The content is complete when the text is. *)
LEMMA ContentRead ==
  ASSUME NEW T, NEW e, NEW s \in Streams, NEW c \in Conns, NEW r \in Request, Holds(T, e, Len(T), s),
         Progress(T, e, c, s.g, r), r.state = "RECEIVING_DATA", r.data_size # 0
  PROVE  LET n == (r.data_readed + Tellg(Consumed(s)) - Tellg(s)) % SizeMod
             d == WithData(c, r, s, n)
             q == [d EXCEPT !.state = "PROCESS_REQUEST"]
         IN  /\ n >= r.data_size /\ Progress(T, e, c, Consumed(s).g, q)
             /\ q.state = "PROCESS_REQUEST"
             /\ Holds(T, e, Len(T), Consumed(s))
  <1>1. /\ r.cmd /\ ~r.keep /\ r.from = {c} /\ r.body = 0 /\ r.blank /\ r.data_readed = 0
        /\ s.g = e /\ r.data_size = SizeAt(T, e)
    BY ProgressStates
  <1>2. /\ T \in Seq(Symbols) /\ Len(T) \in Nat /\ e \in Int /\ Len(s.txt) = Len(T) /\ Good(s)
        /\ RequestText(T, e)
    BY HoldsText
  <1>3. Len(T) = e + SizeAt(T, e)
    BY <1>2, TextOf
  <1>4. /\ r.data_size = BodySize /\ BodySize \in 1..(SizeMod - 1) /\ SizeMod \in Nat
    BY <1>1, HttpServerAssumption DEF SizeAt
  <1>5. Len(T) = e + BodySize
    BY <1>1, <1>3, <1>4
  <1>6. Unread(s) \in Seq(Symbols) /\ Len(Unread(s)) = BodySize
    <2>1. Unread(s) \in Seq(Symbols) /\ Len(Unread(s)) = Len(s.txt) - s.g
      BY UnreadPart
    <2>. QED BY <1>1, <1>2, <1>4, <1>5, <2>1
  <1>7. Unread(s) # <<>>
    <2>1. BodySize # 0
      BY <1>4
    <2>. QED BY <1>6, <2>1, EmptySeq
  <1>8. Consumed(s) = [s EXCEPT !.g = Len(T)]
    BY <1>2, <1>7 DEF Consumed
  <1>9. Consumed(s).g = Len(T) /\ Consumed(s).txt = s.txt /\ Good(Consumed(s))
    BY <1>2, <1>8 DEF Streams, Good
  <1>10. Tellg(Consumed(s)) = Len(T) /\ Tellg(s) = e
    BY <1>1, <1>2, <1>9 DEF Tellg
  <1>11. (r.data_readed + Tellg(Consumed(s)) - Tellg(s)) % SizeMod = BodySize
    <2>1. 0 + (e + BodySize) - e = BodySize /\ BodySize % SizeMod = BodySize
      BY <1>2, <1>4
    <2>2. r.data_readed + Tellg(Consumed(s)) - Tellg(s) = 0 + (e + BodySize) - e
      BY <1>1, <1>5, <1>10
    <2>. QED BY <2>1, <2>2
  <1>12. PICK n : n = (r.data_readed + Tellg(Consumed(s)) - Tellg(s)) % SizeMod
    OBVIOUS
  <1>13. n = BodySize /\ n >= r.data_size /\ n \in 0..(SizeMod - 1)
    BY <1>4, <1>11, <1>12
  <1>. DEFINE d == WithData(c, r, s, n)
              q == [d EXCEPT !.state = "PROCESS_REQUEST"]
  <1>14. d \in Request /\ q \in Request
    BY <1>13, DataRequest
  <1>15. d.cmd /\ ~d.keep /\ d.from = {c} /\ d.body = BodySize /\ d.blank /\ d.data_size = BodySize
    BY <1>1, <1>2, <1>4, <1>6, <1>7 DEF WithData, Request
  <1>. HIDE DEF d
  <1>16. /\ q.cmd /\ ~q.keep /\ q.from = {c} /\ q.body = BodySize /\ q.blank
         /\ q.data_size = BodySize /\ q.state = "PROCESS_REQUEST"
    BY <1>14, <1>15 DEF Request
  <1>. HIDE DEF q
  <1>17. Progress(T, e, c, Consumed(s).g, q)
    BY <1>16 DEF Progress, WholeRequest
  <1>18. Holds(T, e, Len(T), Consumed(s))
    BY <1>9 DEF Holds
  <1>. QED BY <1>12, <1>13, <1>16, <1>17, <1>18 DEF d, q

(* A call that waits for more of a line leaves the stream as it is.        *)
LEMMA WaitsAlike ==
  ASSUME NEW T, NEW e, NEW p, NEW s \in Streams, NEW c, NEW r, Holds(T, e, p, s),
         Progress(T, e, c, s.g, r), r.state \in {"WAIT_COMMAND", "WAIT_HEADER"}
  PROVE  Rewound(s) = s /\ Discarded(s) = s
  <1>1. /\ p \in 1..Len(T) /\ p \in Int /\ Len(T) \in Nat /\ e \in 2..Len(T) /\ e \in Int
        /\ s.g \in 0..p /\ s.g \in Int /\ Len(s.txt) = p /\ Good(s) /\ CutAt(T, e, p)
    BY HoldsText
  <1>2. s.g # p
    <2>1. CASE r.state = "WAIT_COMMAND"
      <3>1. s.g = 0
        BY <2>1, ProgressStates
      <3>. QED BY <1>1, <3>1
    <2>2. CASE r.state = "WAIT_HEADER"
      <3>1. s.g \in 1..(e - 1) /\ T[s.g] = "nl"
        BY <2>2, ProgressStates
      <3>2. s.g # Len(T)
        BY <1>1, <3>1
      <3>. QED BY <1>1, <3>1, <3>2 DEF CutAt
    <2>. QED BY <2>1, <2>2
  <1>3. Unread(s) # <<>>
    <2>1. Len(Unread(s)) = p - s.g
      BY <1>1, UnreadPart
    <2>2. Len(Unread(s)) # 0
      BY <1>1, <1>2, <2>1
    <2>. QED BY <2>2, EmptySeq
  <1>4. Discarded(s) = s
    BY <1>1, <1>2 DEF Discarded
  <1>5. (~Good(s) \/ Unread(s) = <<>>) = FALSE /\ s.eof = FALSE /\ s.fail = FALSE
    BY <1>1, <1>3 DEF Good, Streams
  <1>6. Rewound(s) = [s EXCEPT !.eof = FALSE, !.fail = FALSE]
    BY <1>5 DEF Rewound
  <1>7. Rewound(s) = s
    BY <1>5, <1>6 DEF Streams
  <1>. QED BY <1>4, <1>7

-----------------------------------------------------------------------------
(* The connections, one by one.                                            *)
Stage(c) == Silent(c) \/ Underway(c) \/ Served(c)

(* A step for c leaves the requests of the others as they are.             *)
LEMMA OthersKeep ==
  ASSUME Parts, NEW c \in Conns, NEW d \in Conns, d # c,
         call'[d] = call[d], fd'[d] = fd[d],
         \A f \in Fds : f # fd[c] => reqs'[f] = reqs[f],
         \A o \in Objs : heap[o] # Free /\ o # call[c] => heap'[o] = heap[o]
  PROVE  Mine(d)' = Mine(d) /\ Parsed(d)' = Parsed(d)
  <1>1. ConnTypes /\ ParserTypes /\ NoDanglingRequest /\ NoSharedRequest /\ DescriptorsOwn
    BY DEF Parts, Ownership
  <1>2. CASE call[d] \in Objs
    <2>1. Mine(d) = call[d] /\ Mine(d)' = call[d] /\ call[d] # None
      BY <1>2, Addresses DEF Mine
    <2>2. heap[call[d]] # Free /\ call[d] # call[c]
      BY <1>1, <1>2 DEF NoDanglingRequest, NoSharedRequest
    <2>3. heap'[call[d]] = heap[call[d]]
      BY <1>2, <2>2
    <2>. QED BY <2>1, <2>3 DEF Parsed
  <1>3. CASE call[d] \notin Objs /\ fd[d] = None
    BY <1>3 DEF Mine, Parsed
  <1>4. CASE call[d] \notin Objs /\ fd[d] # None
    <2>1. fd[d] \in Fds /\ fd[d] # fd[c]
      BY <1>1, <1>4 DEF ConnTypes, DescriptorsOwn
    <2>2. PICK o \in Objs \cup {None} : o = reqs[fd[d]]
      BY <1>1, <2>1 DEF ParserTypes
    <2>3. Mine(d) = o /\ Mine(d)' = o
      BY <1>4, <2>1, <2>2 DEF Mine
    <2>4. CASE o = None
      BY <2>3, <2>4 DEF Parsed
    <2>5. CASE o # None
      <3>1. o \in Objs /\ heap[o] # Free
        BY <1>1, <2>1, <2>2, <2>5 DEF NoDanglingRequest
      <3>2. o # call[c]
        BY <1>1, <2>1, <2>2, <3>1 DEF NoSharedRequest
      <3>3. heap'[o] = heap[o]
        BY <3>1, <3>2
      <3>. QED BY <2>3, <2>5, <3>3 DEF Parsed
    <2>. QED BY <2>4, <2>5
  <1>. QED BY <1>2, <1>3, <1>4

(* What the stage of a connection depends on.                              *)
LEMMA StageKeeps ==
  ASSUME NEW d \in Conns, Stage(d), owner'[d] = owner[d], d \in closing' <=> d \in closing,
         call'[d] = call[d], script'[d] = script[d], rbuf'[d] = rbuf[d], wbuf'[d] = wbuf[d],
         peer'[d] = peer[d], Mine(d)' = Mine(d), Parsed(d)' = Parsed(d)
  PROVE  Stage(d)'
  <1>1. ASSUME Silent(d) PROVE Silent(d)'
    BY <1>1 DEF Silent
  <1>2. ASSUME Underway(d) PROVE Underway(d)'
    BY <1>2 DEF Underway
  <1>3. ASSUME Served(d) PROVE Served(d)'
    BY <1>3 DEF Served
  <1>. QED BY <1>1, <1>2, <1>3 DEF Stage

(* What a step for c leaves of the others.                                 *)
Alone(c) ==
  /\ \A d \in Conns : d # c =>
       /\ owner'[d] = owner[d] /\ (d \in closing' <=> d \in closing)
       /\ call'[d] = call[d] /\ fd'[d] = fd[d] /\ script'[d] = script[d]
       /\ rbuf'[d] = rbuf[d] /\ wbuf'[d] = wbuf[d] /\ peer'[d] = peer[d]
  /\ \A f \in Fds : f # fd[c] => reqs'[f] = reqs[f]
  /\ \A o \in Objs : heap[o] # Free /\ o # call[c] => heap'[o] = heap[o]

(* A step of one connection leaves the others where they are. *)
LEMMA OthersStages ==
  ASSUME Parts, NEW c \in Conns, Alone(c), \A d \in Conns : peer[d] # "reset" /\ Stage(d),
         Stage(c)', peer'[c] # "reset"
  PROVE  \A d \in Conns : peer'[d] # "reset" /\ Stage(d)'
  <1>1. SUFFICES ASSUME NEW d \in Conns, d # c PROVE peer'[d] # "reset" /\ Stage(d)'
    OBVIOUS
  <1>2. /\ owner'[d] = owner[d] /\ (d \in closing' <=> d \in closing)
        /\ call'[d] = call[d] /\ fd'[d] = fd[d] /\ script'[d] = script[d]
        /\ rbuf'[d] = rbuf[d] /\ wbuf'[d] = wbuf[d] /\ peer'[d] = peer[d]
        /\ \A f \in Fds : f # fd[c] => reqs'[f] = reqs[f]
        /\ \A o \in Objs : heap[o] # Free /\ o # call[c] => heap'[o] = heap[o]
    BY <1>1 DEF Alone
  <1>3. Mine(d)' = Mine(d) /\ Parsed(d)' = Parsed(d)
    BY <1>1, <1>2, OthersKeep
  <1>4. Stage(d)'
    BY <1>2, <1>3, StageKeeps
  <1>. QED BY <1>2, <1>4

(* What the parts of an arrived text are.                                  *)
LEMMA ArrivedParts ==
  ASSUME NEW c, NEW s, NEW z, NEW r
  PROVE  Arriving(c, s, z, r) <=>
           \E T \in Texts : \E e, p \in 1..Len(T) :
             /\ Holds(T, e, p, s) /\ Splits(T, e, p, z) /\ Progress(T, e, c, s.g, r)
             /\ r.state \in {"WAIT_COMMAND", "WAIT_HEADER"} \/ p = Len(T)
  BY DEF Arriving, Arrived, Holds

(* The bounds of Arriving follow from the rest.                            *)
LEMMA ArrivingFrom ==
  ASSUME NEW c, NEW s \in Streams, NEW z, NEW r, NEW T \in Texts, NEW e, NEW p,
         Holds(T, e, p, s), Splits(T, e, p, z), Progress(T, e, c, s.g, r),
         r.state \in {"WAIT_COMMAND", "WAIT_HEADER"} \/ p = Len(T)
  PROVE  Arriving(c, s, z, r)
  <1>1. p \in 1..Len(T) /\ e \in 2..Len(T) /\ Len(T) \in Nat
    BY HoldsText
  <1>2. e \in 1..Len(T)
    BY <1>1
  <1>. QED BY <1>1, <1>2, ArrivedParts

(* The segment with which a request begins.                                *)
LEMMA FirstSegment ==
  ASSUME NEW c, NEW s \in Streams, NEW z \in Seq(Seq(Symbols)), OneRequest(z),
         s.txt = <<>>, s.g = 0
  PROVE  z # <<>> /\ Arriving(c, Received(s, Head(z)), Tail(z), NewRequest)
  <1>1. PICK T \in Texts : \E e \in 2..Len(T) : RequestText(T, e) /\ Splits(T, e, 0, z)
    BY DEF OneRequest
  <1>2. PICK e \in 2..Len(T) : RequestText(T, e) /\ Splits(T, e, 0, z)
    BY <1>1
  <1>3. T \in Seq(Symbols) /\ Len(T) \in Nat /\ Len(T) > 0 /\ 0 \in 0..Len(T)
    BY <1>2, TextOf
  <1>4. z # <<>>
    BY <1>2, <1>3, SomeSegment
  <1>5. PICK q \in 1..Len(T) :
          0 < q /\ CutAt(T, e, q) /\ Head(z) = SubSeq(T, 0 + 1, q) /\ Splits(T, e, q, Tail(z))
    BY <1>2, <1>3, <1>4, NextSegment
  <1>6. Head(z) \in Seq(Symbols)
    BY <1>4, HeadTailProperties
  <1>7. PICK r \in Streams : r = Received(s, Head(z))
    BY <1>6, SegmentStream
  <1>8. <<>> \o Head(z) = Head(z)
    BY <1>6, ConcatEmptySeq
  <1>9. r.txt = SubSeq(T, 1, q) /\ r.g = 0 /\ Good(r)
    <2>1. r.txt = s.txt \o Head(z) /\ r.g = s.g /\ r.eof = FALSE /\ r.fail = FALSE
      BY <1>7 DEF Received, Streams
    <2>2. 0 + 1 = 1
      OBVIOUS
    <2>3. r.txt = Head(z)
      BY <1>8, <2>1
    <2>. QED BY <1>5, <2>1, <2>2, <2>3 DEF Good
  <1>10. Holds(T, e, q, r)
    BY <1>2, <1>5, <1>9 DEF Holds
  <1>11. Progress(T, e, c, r.g, NewRequest) /\ NewRequest.state = "WAIT_COMMAND"
    BY <1>9, NewIsRequest DEF Progress
  <1>12. Arriving(c, r, Tail(z), NewRequest)
    BY <1>5, <1>10, <1>11, ArrivingFrom
  <1>. QED BY <1>4, <1>7, <1>12

(* The segments that follow.                                               *)
LEMMA MoreArrives ==
  ASSUME NEW c, NEW s \in Streams, NEW z \in Seq(Seq(Symbols)), NEW r, Arriving(c, s, z, r), z # <<>>
  PROVE  Arriving(c, Received(s, Head(z)), Tail(z), r)
  <1>1. PICK T \in Texts : \E e, p \in 1..Len(T) :
             /\ Holds(T, e, p, s) /\ Splits(T, e, p, z) /\ Progress(T, e, c, s.g, r)
             /\ r.state \in {"WAIT_COMMAND", "WAIT_HEADER"} \/ p = Len(T)
    BY ArrivedParts
  <1>2. PICK e, p \in 1..Len(T) :
             /\ Holds(T, e, p, s) /\ Splits(T, e, p, z) /\ Progress(T, e, c, s.g, r)
             /\ r.state \in {"WAIT_COMMAND", "WAIT_HEADER"} \/ p = Len(T)
    BY <1>1
  <1>3. T \in Seq(Symbols) /\ p \in 0..Len(T) /\ p \in Int /\ Len(T) \in Nat
        /\ s.txt = SubSeq(T, 1, p) /\ RequestText(T, e)
    BY <1>2, HoldsText
  <1>4. PICK q \in 1..Len(T) :
          p < q /\ CutAt(T, e, q) /\ Head(z) = SubSeq(T, p + 1, q) /\ Splits(T, e, q, Tail(z))
    BY <1>2, <1>3, NextSegment
  <1>5. r.state \in {"WAIT_COMMAND", "WAIT_HEADER"}
    BY <1>2, <1>3, <1>4
  <1>6. Head(z) \in Seq(Symbols)
    BY HeadTailProperties
  <1>7. PICK t \in Streams : t = Received(s, Head(z))
    BY <1>6, SegmentStream
  <1>8. t.txt = s.txt \o Head(z) /\ t.g = s.g /\ Good(t)
    BY <1>7 DEF Received, Streams, Good
  <1>9. q \in 0..Len(T) /\ p <= q
    BY <1>3, <1>4
  <1>10. t.txt = SubSeq(T, 1, q)
    BY <1>3, <1>4, <1>8, <1>9, TextGrows
  <1>11. Holds(T, e, q, t)
    BY <1>3, <1>4, <1>8, <1>10 DEF Holds
  <1>12. Progress(T, e, c, t.g, r)
    BY <1>2, <1>8
  <1>13. Arriving(c, t, Tail(z), r)
    BY <1>4, <1>5, <1>11, <1>12, ArrivingFrom
  <1>. QED BY <1>7, <1>13

(* A client connects.                                                      *)
LEMMA AcceptStage ==
  ASSUME Parts, NEW c \in Conns, Stage(c), MapClean, Accept(c)
  PROVE  Stage(c)' /\ Alone(c) /\ peer'[c] # "reset" /\ MapClean'
  <1>1. ConnTypes /\ DescriptorsOwn
    BY DEF Parts, Ownership
  <1>2. PICK f \in Fds \ {fd[d] : d \in Conns} : fd' = [fd EXCEPT ![c] = f]
    BY DEF Accept
  <1>3. Silent(c) /\ owner[c] = "none"
    BY DEF Accept, Stage, Underway, Served
  <1>4. reqs[f] = None
    BY <1>2 DEF MapClean
  <1>5. fd'[c] = f /\ owner'[c] = "io" /\ peer'[c] = "open"
    BY <1>1, <1>2 DEF Accept, ConnTypes
  <1>6. Mine(c)' = None
    BY <1>3, <1>4, <1>5, Addresses DEF Mine, Accept, Silent
  <1>7. Silent(c)'
    BY <1>3, <1>5, <1>6 DEF Silent, Accept
  <1>8. fd[c] = None
    BY <1>1, <1>3 DEF DescriptorsOwn
  <1>9. MapClean'
    <2>1. SUFFICES ASSUME NEW g \in Fds, \A d \in Conns : fd'[d] # g PROVE reqs'[g] = None
      BY DEF MapClean
    <2>2. \A d \in Conns : fd[d] # g
      BY <1>1, <1>2, <1>8, <2>1, Addresses DEF ConnTypes
    <2>. QED BY <2>2 DEF MapClean, Accept
  <1>10. Alone(c)
    BY <1>1, <1>2 DEF Alone, Accept, ConnTypes
  <1>. QED BY <1>5, <1>7, <1>9, <1>10 DEF Stage

(* The other steps of tcp_server, and of the client.                       *)
LEMMA ServerStage ==
  ASSUME Parts, NEW c \in Conns, Stage(c), MapClean, peer[c] # "reset", ~PeersMayReset,
         Server(c) \/ ClientCloses(c) \/ ClientResets(c)
  PROVE  Stage(c)' /\ Alone(c) /\ peer'[c] # "reset" /\ MapClean'
  <1>0. ConnTypes /\ ParserTypes /\ DescriptorsOwn /\ CallPlaces
    BY DEF Parts, Ownership
  <1>1. CASE IoEvent(c)
    <2>1. Underway(c)
      BY <1>1 DEF IoEvent, Stage, Silent, Served
    <2>2. owner'[c] = "queue" /\ Mine(c)' = Mine(c) /\ Parsed(c)' = Parsed(c)
      BY <1>0, <1>1 DEF IoEvent, ConnTypes, Mine, Parsed
    <2>3. Underway(c)'
      BY <1>1, <2>1, <2>2 DEF Underway, IoEvent
    <2>4. Alone(c)
      BY <1>0, <1>1 DEF Alone, IoEvent, ConnTypes
    <2>5. MapClean' /\ peer'[c] # "reset"
      BY <1>1 DEF MapClean, IoEvent
    <2>. QED BY <2>3, <2>4, <2>5 DEF Stage
  <1>2. CASE IoFlush(c)
    <2>1. Served(c)
      BY <1>2 DEF IoFlush, Stage, Silent, Underway
    <2>2. Served(c)'
      BY <1>2, <2>1 DEF IoFlush, Served, Mine
    <2>3. Alone(c)
      BY <1>0, <1>2 DEF Alone, IoFlush, ConnTypes
    <2>4. MapClean' /\ peer'[c] # "reset"
      BY <1>2 DEF MapClean, IoFlush
    <2>. QED BY <2>2, <2>3, <2>4 DEF Stage
  <1>3. CASE IoRead(c)
    <2>1. call[c] = None /\ owner[c] = "io" /\ script[c] # <<>> /\ fd[c] # None
      BY <1>0, <1>3 DEF IoRead, IoFree, Calling, DescriptorsOwn
    <2>2. /\ call'[c] = Lookup /\ owner'[c] = "io" /\ script'[c] = Tail(script[c])
          /\ rbuf'[c] = Received(rbuf[c], Head(script[c]))
      BY <1>0, <1>3, <2>1 DEF IoRead, ConnTypes
    <2>3. Mine(c)' = Mine(c) /\ Parsed(c)' = Parsed(c)
      <3>1. call[c] \notin Objs /\ call'[c] \notin Objs
        BY <2>1, <2>2, Addresses
      <3>. QED BY <1>3, <2>1, <2>2, <3>1 DEF IoRead, Mine, Parsed
    <2>4. rbuf[c] \in Streams /\ script[c] \in Seq(Seq(Symbols))
      BY <1>0 DEF ConnTypes
    <2>5. Arriving(c, rbuf'[c], script'[c], Parsed(c)')
      <3>1. CASE Silent(c)
        <4>1. Parsed(c) = NewRequest /\ rbuf[c].txt = <<>> /\ rbuf[c].g = 0 /\ OneRequest(script[c])
          BY <3>1 DEF Silent, Parsed
        <4>. QED BY <2>2, <2>3, <2>4, <4>1, FirstSegment
      <3>2. CASE Underway(c)
        <4>1. Arriving(c, rbuf[c], script[c], Parsed(c))
          BY <3>2 DEF Underway
        <4>. QED BY <2>1, <2>2, <2>3, <2>4, <4>1, MoreArrives
      <3>3. CASE Served(c)
        BY <2>1, <3>3 DEF Served
      <3>. QED BY <3>1, <3>2, <3>3 DEF Stage
    <2>6. Underway(c)'
      <3>1. c \notin closing'
        BY <1>3, <2>1 DEF IoRead, Stage, Silent, Underway, Served
      <3>2. call'[c] # None
        BY <2>2, Addresses
      <3>. QED BY <2>2, <2>5, <3>1, <3>2 DEF Underway
    <2>7. Alone(c)
      BY <1>0, <1>3 DEF Alone, IoRead, ConnTypes
    <2>8. MapClean' /\ peer'[c] # "reset"
      BY <1>3 DEF MapClean, IoRead
    <2>. QED BY <2>6, <2>7, <2>8 DEF Stage
  <1>4. CASE IoReadFails(c)
    BY <1>4 DEF IoReadFails
  <1>5. CASE Disconnect(c)
    <2>1. Served(c) /\ fd[c] # None
      BY <1>0, <1>5 DEF Disconnect, Stage, Silent, Underway, DescriptorsOwn
    <2>2. fd'[c] = None /\ owner'[c] = "gone" /\ c \notin closing'
      BY <1>0, <1>5 DEF Disconnect, ConnTypes
    <2>3. reqs[fd[c]] = None /\ call[c] \notin Objs
      BY <2>1, Addresses DEF Served, Mine
    <2>4. Served(c)'
      BY <1>5, <2>1, <2>2, <2>3 DEF Disconnect, Served, Mine
    <2>5. Alone(c)
      BY <1>0, <1>5 DEF Alone, Disconnect, ConnTypes
    <2>6. MapClean'
      <3>1. SUFFICES ASSUME NEW g \in Fds, \A d \in Conns : fd'[d] # g PROVE reqs[g] = None
        BY <1>5 DEF MapClean, Disconnect
      <3>2. CASE g = fd[c]
        BY <2>3, <3>2
      <3>3. CASE g # fd[c]
        <4>1. \A d \in Conns : fd[d] # g
          BY <1>0, <1>5, <3>1, <3>3 DEF Disconnect, ConnTypes
        <4>. QED BY <4>1 DEF MapClean
      <3>. QED BY <3>2, <3>3
    <2>7. peer'[c] # "reset"
      BY <1>5 DEF Disconnect
    <2>. QED BY <2>4, <2>5, <2>6, <2>7 DEF Stage
  <1>6. CASE WorkerTakes(c)
    <2>1. Underway(c) /\ owner[c] = "queue"
      BY <1>6 DEF WorkerTakes, Stage, Silent, Served
    <2>2. call[c] = None
      BY <1>0, <2>1 DEF CallPlaces, Calling
    <2>3. call'[c] = Lookup /\ owner'[c] = "worker"
      BY <1>0, <1>6 DEF WorkerTakes, ConnTypes
    <2>4. Mine(c)' = Mine(c) /\ Parsed(c)' = Parsed(c)
      <3>1. call[c] \notin Objs /\ call'[c] \notin Objs
        BY <2>2, <2>3, Addresses
      <3>. QED BY <1>6, <3>1 DEF WorkerTakes, Mine, Parsed
    <2>5. Underway(c)'
      BY <1>6, <2>1, <2>3, <2>4, Addresses DEF Underway, WorkerTakes
    <2>6. Alone(c)
      BY <1>0, <1>6 DEF Alone, WorkerTakes, ConnTypes
    <2>7. MapClean' /\ peer'[c] # "reset"
      BY <1>6 DEF MapClean, WorkerTakes
    <2>. QED BY <2>5, <2>6, <2>7 DEF Stage
  <1>7. CASE ClientCloses(c)
    <2>1. ~Silent(c)
      <3>1. SUFFICES ASSUME Silent(c) PROVE FALSE
        OBVIOUS
      <3>2. /\ OneRequest(script[c]) /\ rbuf[c].txt = <<>> /\ rbuf[c].g = 0
            /\ rbuf[c] \in Streams /\ script[c] \in Seq(Seq(Symbols))
        BY <1>0, <3>1 DEF Silent, ConnTypes
      <3>3. script[c] # <<>>
        BY <3>2, FirstSegment
      <3>. QED BY <1>7, <3>3 DEF ClientCloses
    <2>2. Mine(c)' = Mine(c) /\ Parsed(c)' = Parsed(c)
      BY <1>7 DEF ClientCloses, Mine, Parsed
    <2>3. ASSUME Underway(c) PROVE Underway(c)'
      BY <1>7, <2>2, <2>3 DEF Underway, ClientCloses
    <2>4. ASSUME Served(c) PROVE Served(c)'
      BY <1>7, <2>2, <2>4 DEF Served, ClientCloses
    <2>5. Alone(c) /\ peer'[c] # "reset"
      BY <1>0, <1>7 DEF Alone, ClientCloses, ConnTypes
    <2>6. MapClean'
      BY <1>7 DEF MapClean, ClientCloses
    <2>. QED BY <2>1, <2>3, <2>4, <2>5, <2>6 DEF Stage
  <1>8. CASE ClientResets(c)
    BY <1>8 DEF ClientResets
  <1>. QED BY <1>1, <1>2, <1>3, <1>4, <1>5, <1>6, <1>7, <1>8 DEF Server

(* A call is made for a connection that is in its request.                 *)
LEMMA CallUnderway ==
  ASSUME Parts, NEW c \in Conns, Stage(c), call[c] # None
  PROVE  /\ Underway(c) /\ fd[c] \in Fds /\ fd[c] # None
         /\ call[c] \in Objs => Mine(c) = call[c] /\ Parsed(c) = heap[call[c]]
  <1>1. Underway(c)
    BY DEF Stage, Silent, Served
  <1>2. fd[c] \in Fds /\ fd[c] # None
    BY CallHasFd DEF Parts, Ownership
  <1>3. ASSUME call[c] \in Objs PROVE Mine(c) = call[c] /\ Parsed(c) = heap[call[c]]
    BY <1>3, Addresses DEF Mine, Parsed
  <1>. QED BY <1>1, <1>2, <1>3

(* The map keeps no request under a descriptor that is not open.           *)
LEMMA CleanStays ==
  ASSUME MapClean, NEW c \in Conns, fd' = fd, \A f \in Fds : f # fd[c] => reqs'[f] = reqs[f]
  PROVE  MapClean'
  <1>1. SUFFICES ASSUME NEW g \in Fds, \A d \in Conns : fd[d] # g PROVE reqs'[g] = None
    BY DEF MapClean
  <1>. QED BY <1>1 DEF MapClean

(* The parser goes on with request q and stream s.                         *)
LEMMA ContinueStage ==
  ASSUME Parts, NEW c \in Conns, Stage(c), MapClean, peer[c] # "reset", call[c] \in Objs,
         NEW q, NEW s, Continue(c, q, s), Arriving(c, s, script[c], q)
  PROVE  Stage(c)' /\ Alone(c) /\ peer'[c] # "reset" /\ MapClean'
  <1>0. ConnTypes /\ ParserTypes
    BY DEF Parts
  <1>1. Underway(c)
    BY CallUnderway, Addresses
  <1>2. heap'[call[c]] = q /\ rbuf'[c] = s
    BY <1>0 DEF Continue, ConnTypes, ParserTypes
  <1>3. Parsed(c)' = q /\ call'[c] = call[c] /\ call[c] # None
    <2>1. call' = call /\ call[c] # None
      BY Addresses DEF Continue
    <2>. QED BY <1>2, <2>1 DEF Parsed, Mine
  <1>4. Underway(c)'
    BY <1>1, <1>2, <1>3 DEF Underway, Continue, connVars
  <1>5. Alone(c)
    BY <1>0 DEF Alone, Continue, connVars, ConnTypes, ParserTypes
  <1>6. MapClean' /\ peer'[c] # "reset"
    BY DEF MapClean, Continue, connVars
  <1>. QED BY <1>4, <1>5, <1>6 DEF Stage

(* The parser waits for more and leaves the stream as it is.               *)
LEMMA WaitStage ==
  ASSUME Parts, NEW c \in Conns, Stage(c), MapClean, peer[c] # "reset", call[c] \in Objs,
         WaitForMore(c, rbuf[c]), Discarded(rbuf[c]) = rbuf[c]
  PROVE  Stage(c)' /\ Alone(c) /\ peer'[c] # "reset" /\ MapClean'
  <1>0. ConnTypes /\ ParserTypes
    BY DEF Parts
  <1>1. /\ Underway(c) /\ fd[c] \in Fds /\ fd[c] # None /\ Mine(c) = call[c]
        /\ Parsed(c) = heap[call[c]] /\ call[c] # None
    BY CallUnderway, Addresses
  <1>2. /\ reqs'[fd[c]] = call[c] /\ call'[c] = None /\ owner'[c] \in {"queue", "io"}
        /\ closing' = closing /\ rbuf'[c] = rbuf[c] /\ script' = script /\ heap' = heap /\ fd' = fd
        /\ peer' = peer
    BY <1>0, <1>1 DEF WaitForMore, Return, ConnTypes, ParserTypes
  <1>3. Mine(c)' = call[c] /\ Parsed(c)' = heap[call[c]]
    <2>1. call'[c] \notin Objs
      BY <1>2, Addresses
    <2>2. Mine(c)' = call[c]
      BY <1>1, <1>2, <2>1 DEF Mine
    <2>. QED BY <1>1, <1>2, <2>2 DEF Parsed
  <1>4. Underway(c)'
    BY <1>1, <1>2, <1>3 DEF Underway
  <1>5. Alone(c)
    BY <1>0, <1>2 DEF Alone, WaitForMore, Return, ConnTypes, ParserTypes
  <1>6. MapClean'
    BY <1>2, <1>5, CleanStays DEF Alone
  <1>. QED BY <1>2, <1>4, <1>5, <1>6 DEF Stage

(* The three states that read.                                             *)
LEMMA ReadStage ==
  ASSUME Parts, NEW c \in Conns, Stage(c), MapClean, peer[c] # "reset",
         ReadCommand(c) \/ ReadHeader(c) \/ ReceiveData(c)
  PROVE  Stage(c)' /\ Alone(c) /\ peer'[c] # "reset" /\ MapClean'
  <1>0. ConnTypes /\ ParserTypes
    BY DEF Parts
  <1>1. call[c] \in Objs
    BY <1>0, ReadSteps
  <1>2. PICK r \in Request : r = heap[call[c]]
    BY <1>0, <1>1 DEF ParserTypes
  <1>3. PICK s \in Streams : s = rbuf[c]
    BY <1>0 DEF ConnTypes
  <1>4. Arriving(c, s, script[c], r)
    <2>1. Underway(c) /\ Parsed(c) = heap[call[c]]
      BY <1>1, CallUnderway, Addresses
    <2>. QED BY <1>2, <1>3, <2>1 DEF Underway
  <1>5. PICK T \in Texts : \E e, p \in 1..Len(T) :
             /\ Holds(T, e, p, s) /\ Splits(T, e, p, script[c]) /\ Progress(T, e, c, s.g, r)
             /\ r.state \in {"WAIT_COMMAND", "WAIT_HEADER"} \/ p = Len(T)
    BY <1>4, ArrivedParts
  <1>6. PICK e, p \in 1..Len(T) :
             /\ Holds(T, e, p, s) /\ Splits(T, e, p, script[c]) /\ Progress(T, e, c, s.g, r)
             /\ r.state \in {"WAIT_COMMAND", "WAIT_HEADER"} \/ p = Len(T)
    BY <1>5
  <1>7. Good(s)
    BY <1>6 DEF Holds
  <1>8. ASSUME r.state \in {"WAIT_COMMAND", "WAIT_HEADER"}, WaitForMore(c, Rewound(s))
        PROVE  Stage(c)' /\ Alone(c) /\ peer'[c] # "reset" /\ MapClean'
    <2>1. Rewound(s) = s /\ Discarded(s) = s
      BY <1>6, <1>8, WaitsAlike
    <2>2. WaitForMore(c, rbuf[c]) /\ Discarded(rbuf[c]) = rbuf[c]
      BY <1>3, <1>8, <2>1
    <2>. QED BY <1>1, <2>2, WaitStage
  <1>9. ASSUME NEW q, NEW t \in Streams, Continue(c, q, t), Holds(T, e, p, t),
               Progress(T, e, c, t.g, q), q.state \in {"WAIT_COMMAND", "WAIT_HEADER"} \/ p = Len(T)
        PROVE  Stage(c)' /\ Alone(c) /\ peer'[c] # "reset" /\ MapClean'
    <2>1. Arriving(c, t, script[c], q)
      BY <1>6, <1>9, ArrivingFrom
    <2>. QED BY <1>1, <1>9, <2>1, ContinueStage
  <1>10. CASE ReadCommand(c)
    <2>1. r.state = "WAIT_COMMAND"
      BY <1>2, <1>10 DEF ReadCommand, At
    <2>2. CASE HitsEnd(s)
      BY <1>3, <1>8, <1>10, <2>1, <2>2 DEF ReadCommand
    <2>3. CASE ~HitsEnd(s)
      <3>. DEFINE q == [r EXCEPT !.state = "WAIT_HEADER",
                                 !.cmd = Contains(Line(s), "cmd"),
                                 !.from = IF Good(s) THEN @ \cup {c} ELSE @]
      <3>1. Continue(c, q, Skipped(s))
        BY <1>2, <1>3, <1>10, <2>3 DEF ReadCommand
      <3>2. /\ Progress(T, e, c, Skipped(s).g, q) /\ q.state = "WAIT_HEADER"
            /\ Holds(T, e, p, Skipped(s))
        BY <1>6, <2>1, <2>3, CommandRead
      <3>3. Skipped(s) \in Streams
        BY <2>3, SkippedStream
      <3>. HIDE DEF q
      <3>. QED BY <1>9, <3>1, <3>2, <3>3
    <2>. QED BY <2>2, <2>3
  <1>11. CASE ReadHeader(c)
    <2>1. r.state = "WAIT_HEADER"
      BY <1>2, <1>11 DEF ReadHeader, At
    <2>2. CASE HitsEnd(s)
      BY <1>3, <1>8, <1>11, <2>1, <2>2 DEF ReadHeader
    <2>3. CASE ~HitsEnd(s)
      <3>. DEFINE l == Line(s)
                  h == [r EXCEPT !.keep = @ \/ Contains(l, "keep"),
                                 !.data_size = IF Contains(l, "len") THEN BodySize ELSE @,
                                 !.from = IF Good(s) THEN @ \cup {c} ELSE @]
                  b == [h EXCEPT !.state = "RECEIVING_DATA", !.blank = Good(s)]
                  q == IF l = <<>> THEN b ELSE h
      <3>1. Continue(c, q, Skipped(s))
        BY <1>2, <1>3, <1>11, <2>3 DEF ReadHeader
      <3>2. /\ Progress(T, e, c, Skipped(s).g, q) /\ Holds(T, e, p, Skipped(s))
            /\ q.state = "WAIT_HEADER" \/ p = Len(T)
        BY <1>6, <2>1, <2>3, HeaderRead
      <3>3. Skipped(s) \in Streams
        BY <2>3, SkippedStream
      <3>. HIDE DEF q
      <3>. QED BY <1>9, <3>1, <3>2, <3>3
    <2>. QED BY <2>2, <2>3
  <1>12. CASE ReceiveData(c)
    <2>1. r.state = "RECEIVING_DATA"
      BY <1>2, <1>12 DEF ReceiveData, At
    <2>2. p = Len(T)
      BY <1>6, <2>1
    <2>3. CASE r.data_size = 0
      <3>. DEFINE q == [r EXCEPT !.state = "PROCESS_REQUEST"]
      <3>1. Continue(c, q, s)
        BY <1>2, <1>3, <1>12, <2>3 DEF ReceiveData
      <3>2. Progress(T, e, c, s.g, q)
        BY <1>6, <2>1, <2>3, NoContent
      <3>. HIDE DEF q
      <3>. QED BY <1>6, <1>9, <2>2, <3>1, <3>2
    <2>4. CASE r.data_size # 0
      <3>1. PICK n : n = (r.data_readed + Tellg(Consumed(s)) - Tellg(s)) % SizeMod
        OBVIOUS
      <3>. DEFINE d == WithData(c, r, s, n)
                  q == [d EXCEPT !.state = "PROCESS_REQUEST"]
      <3>2. /\ n >= r.data_size /\ Progress(T, e, c, Consumed(s).g, q)
            /\ Holds(T, e, p, Consumed(s))
        BY <1>6, <2>1, <2>2, <2>4, <3>1, ContentRead
      <3>3. ~s.eof
        BY <1>7 DEF Good
      <3>4. Continue(c, q, Consumed(s))
        BY <1>2, <1>3, <1>12, <2>4, <3>1, <3>2, <3>3 DEF ReceiveData, WithData
      <3>5. Consumed(s) \in Streams
        BY ConsumedStream
      <3>. HIDE DEF q
      <3>. QED BY <1>9, <2>2, <3>2, <3>4, <3>5
    <2>. QED BY <2>3, <2>4
  <1>. QED BY <1>10, <1>11, <1>12

(* A call finds its request, or has a new one.                             *)
LEMMA FindStage ==
  ASSUME Parts, NEW c \in Conns, Stage(c), MapClean, peer[c] # "reset", FindRequest(c)
  PROVE  Stage(c)' /\ Alone(c) /\ peer'[c] # "reset" /\ MapClean'
  <1>0. ConnTypes /\ ParserTypes
    BY DEF Parts
  <1>1. call[c] = Lookup /\ call[c] # None /\ call[c] \notin Objs
    BY Addresses DEF FindRequest
  <1>2. Underway(c) /\ fd[c] \in Fds /\ fd[c] # None
    BY <1>1, CallUnderway
  <1>3. Mine(c) = reqs[fd[c]]
    BY <1>1, <1>2 DEF Mine
  <1>4. call'[c] \in Objs /\ Parsed(c)' = Parsed(c)
    <2>1. CASE reqs[fd[c]] # None
      <3>1. PICK o \in Objs : o = reqs[fd[c]]
        BY <1>0, <1>2, <2>1 DEF ParserTypes
      <3>2. call'[c] = o /\ heap' = heap
        BY <1>0, <2>1, <3>1 DEF FindRequest, ConnTypes
      <3>3. Mine(c)' = o /\ o # None
        BY <3>2, Addresses DEF Mine
      <3>. QED BY <1>3, <3>1, <3>2, <3>3 DEF Parsed
    <2>2. CASE reqs[fd[c]] = None
      <3>1. PICK o \in Objs : /\ heap' = [heap EXCEPT ![o] = NewRequest]
                              /\ call' = [call EXCEPT ![c] = o]
        BY <2>2 DEF FindRequest
      <3>2. call'[c] = o /\ heap'[o] = NewRequest
        BY <1>0, <3>1 DEF ConnTypes, ParserTypes
      <3>3. Mine(c)' = o /\ o # None
        BY <3>2, Addresses DEF Mine
      <3>. QED BY <1>3, <2>2, <3>2, <3>3 DEF Parsed
    <2>. QED BY <2>1, <2>2
  <1>5. Underway(c)'
    BY <1>2, <1>4, Addresses DEF Underway, FindRequest, connVars
  <1>6. Alone(c)
    <2>1. \A d \in Conns : d # c => call'[d] = call[d]
      BY <1>0 DEF FindRequest, ConnTypes
    <2>2. \A o \in Objs : heap[o] # Free => heap'[o] = heap[o]
      BY <1>0 DEF FindRequest, ParserTypes
    <2>. QED BY <2>1, <2>2 DEF Alone, FindRequest, connVars
  <1>7. MapClean' /\ peer'[c] # "reset"
    BY DEF MapClean, FindRequest, connVars
  <1>. QED BY <1>5, <1>6, <1>7 DEF Stage

(* The request of a call, in a later state than those that read.           *)
LEMMA LaterStates ==
  ASSUME Parts, NEW c \in Conns, Stage(c), call[c] \in Objs,
         heap[call[c]].state \in {"PROCESS_REQUEST", "CLOSING"}
  PROVE  /\ script[c] = <<>> /\ ~heap[call[c]].keep
         /\ heap[call[c]].state = "PROCESS_REQUEST" => WholeRequest(c, heap[call[c]])
         /\ \A q : q.state = "CLOSING" /\ ~q.keep => Arriving(c, rbuf[c], script[c], q)
  <1>0. ConnTypes /\ ParserTypes
    BY DEF Parts
  <1>1. PICK r : r = heap[call[c]]
    OBVIOUS
  <1>2. PICK s \in Streams : s = rbuf[c]
    BY <1>0 DEF ConnTypes
  <1>3. PICK z \in Seq(Seq(Symbols)) : z = script[c]
    BY <1>0 DEF ConnTypes
  <1>4. Arriving(c, s, z, r)
    <2>1. Underway(c) /\ Parsed(c) = heap[call[c]]
      BY CallUnderway, Addresses
    <2>. QED BY <1>1, <1>2, <1>3, <2>1 DEF Underway
  <1>5. PICK T \in Texts : \E e, p \in 1..Len(T) :
             /\ Holds(T, e, p, s) /\ Splits(T, e, p, z) /\ Progress(T, e, c, s.g, r)
             /\ r.state \in {"WAIT_COMMAND", "WAIT_HEADER"} \/ p = Len(T)
    BY <1>4, ArrivedParts
  <1>6. PICK e, p \in 1..Len(T) :
             /\ Holds(T, e, p, s) /\ Splits(T, e, p, z) /\ Progress(T, e, c, s.g, r)
             /\ r.state \in {"WAIT_COMMAND", "WAIT_HEADER"} \/ p = Len(T)
    BY <1>5
  <1>7. p = Len(T)
    BY <1>1, <1>6
  <1>8. T \in Seq(Symbols)
    BY <1>6, HoldsText
  <1>9. z = <<>>
    BY <1>6, <1>7, <1>8, NoSegment
  <1>10. ~r.keep /\ (r.state = "PROCESS_REQUEST" => WholeRequest(c, r))
    BY <1>1, <1>6, ProgressStates
  <1>11. ASSUME NEW q, q.state = "CLOSING" /\ ~q.keep PROVE Arriving(c, s, z, q)
    <2>1. Progress(T, e, c, s.g, q)
      BY <1>11 DEF Progress
    <2>. QED BY <1>6, <1>7, <2>1, ArrivingFrom
  <1>. QED BY <1>1, <1>2, <1>3, <1>9, <1>10, <1>11

(* on_request is called.                                                   *)
LEMMA ProcessStage ==
  ASSUME Parts, NEW c \in Conns, Stage(c), MapClean, peer[c] # "reset", AnswersWhole,
         ProcessRequest(c)
  PROVE  Stage(c)' /\ Alone(c) /\ peer'[c] # "reset" /\ MapClean' /\ AnswersWhole'
  <1>0. ConnTypes /\ ParserTypes
    BY DEF Parts
  <1>1. call[c] \in Objs /\ heap[call[c]].state = "PROCESS_REQUEST" /\ call[c] # None
    BY Addresses DEF ProcessRequest, At
  <1>2. PICK r \in Request : r = heap[call[c]]
    BY <1>0, <1>1 DEF ParserTypes
  <1>3. /\ ~r.keep /\ WholeRequest(c, r)
        /\ \A q : q.state = "CLOSING" /\ ~q.keep => Arriving(c, rbuf[c], script[c], q)
    BY <1>1, <1>2, LaterStates
  <1>4. PICK q : q = [r EXCEPT !.state = "CLOSING"]
    OBVIOUS
  <1>5. q.state = "CLOSING" /\ ~q.keep
    BY <1>3, <1>4 DEF Request
  <1>6. heap'[call[c]] = q
    BY <1>0, <1>1, <1>2, <1>4 DEF ProcessRequest, ParserTypes
  <1>7. Parsed(c)' = q /\ call'[c] = call[c]
    <2>1. call' = call
      BY DEF ProcessRequest
    <2>. QED BY <1>1, <1>6, <2>1 DEF Parsed, Mine
  <1>8. Underway(c)
    BY <1>1, CallUnderway
  <1>9. Arriving(c, rbuf[c], script[c], q)
    BY <1>3, <1>5
  <1>10. Underway(c)'
    BY <1>1, <1>7, <1>8, <1>9 DEF Underway, ProcessRequest
  <1>11. Alone(c)
    BY <1>0 DEF Alone, ProcessRequest, ConnTypes, ParserTypes
  <1>12. MapClean' /\ peer'[c] # "reset"
    BY DEF MapClean, ProcessRequest
  <1>13. AnswersWhole'
    <2>1. SUFFICES ASSUME NEW d \in Conns, NEW n \in DOMAIN answered'[d]
                   PROVE  WholeRequest(d, answered'[d][n])
      BY DEF AnswersWhole, WholeRequest
    <2>2. CASE d # c \/ c \notin DOMAIN answered
      <3>1. answered'[d] = answered[d]
        BY <2>2 DEF ProcessRequest
      <3>. QED BY <2>1, <3>1 DEF AnswersWhole
    <2>3. CASE d = c /\ c \in DOMAIN answered
      <3>1. PICK a \in Seq(Request) : a = answered[c]
        BY <1>0 DEF ParserTypes
      <3>2. answered'[c] = Append(a, r)
        BY <1>2, <2>3, <3>1 DEF ProcessRequest
      <3>3. n \in 1..(Len(a) + 1) /\ Len(a) \in Nat
        BY <2>1, <2>3, <3>2, AppendProperties, LenProperties
      <3>4. CASE n = Len(a) + 1
        <4>1. Append(a, r)[n] = r
          BY <3>4, AppendProperties
        <4>. QED BY <1>3, <2>3, <3>2, <4>1
      <3>5. CASE n # Len(a) + 1
        <4>1. n \in 1..Len(a)
          BY <3>3, <3>5
        <4>2. Append(a, r)[n] = a[n] /\ n \in DOMAIN a
          BY <4>1, AppendProperties, LenProperties
        <4>3. WholeRequest(c, a[n])
          BY <3>1, <4>2 DEF AnswersWhole
        <4>. QED BY <2>3, <3>2, <4>2, <4>3
      <3>. QED BY <3>4, <3>5
    <2>. QED BY <2>2, <2>3
  <1>. QED BY <1>10, <1>11, <1>12, <1>13 DEF Stage

(* The request is done with.                                               *)
LEMMA CloseStage ==
  ASSUME Parts, NEW c \in Conns, Stage(c), MapClean, peer[c] # "reset", CloseRequest(c)
  PROVE  Stage(c)' /\ Alone(c) /\ peer'[c] # "reset" /\ MapClean'
  <1>0. ConnTypes /\ ParserTypes
    BY DEF Parts
  <1>1. call[c] \in Objs /\ heap[call[c]].state = "CLOSING" /\ call[c] # None
    BY Addresses DEF CloseRequest, At
  <1>2. script[c] = <<>> /\ ~heap[call[c]].keep
    BY <1>1, LaterStates
  <1>3. fd[c] \in Fds /\ fd[c] # None
    BY <1>1, CallUnderway
  <1>4. /\ reqs'[fd[c]] = None /\ call'[c] = None /\ closing' = closing \cup {c}
        /\ script' = script /\ fd' = fd /\ peer' = peer
    BY <1>0, <1>2, <1>3 DEF CloseRequest, Return, ConnTypes, ParserTypes
  <1>5. owner'[c] = "io"
    BY <1>0, <1>4 DEF CloseRequest, Return, ConnTypes
  <1>6. Mine(c)' = None
    BY <1>3, <1>4, Addresses DEF Mine
  <1>7. Served(c)'
    BY <1>2, <1>4, <1>5, <1>6 DEF Served
  <1>8. Alone(c)
    BY <1>0, <1>4 DEF Alone, CloseRequest, Return, ConnTypes, ParserTypes
  <1>9. MapClean'
    BY <1>4, <1>8, CleanStays DEF Alone
  <1>. QED BY <1>4, <1>7, <1>8, <1>9 DEF Stage

(* Before the first connection.                                            *)
LEMMA WholeInit ==
  ASSUME OneRequestEach, Init
  PROVE  WholeInv
  <1>1. ASSUME NEW c \in Conns PROVE peer[c] # "reset" /\ Silent(c)
    <2>1. /\ owner[c] = "none" /\ c \notin closing /\ call[c] = None /\ fd[c] = None
          /\ peer[c] = None /\ wbuf[c] = "eof" /\ OneRequest(script[c])
      BY DEF Init, OneRequestEach
    <2>2. rbuf[c].txt = <<>> /\ rbuf[c].g = 0
      BY DEF Init, EmptyStream
    <2>3. Mine(c) = None
      BY <2>1, Addresses DEF Mine
    <2>. QED BY <2>1, <2>2, <2>3 DEF Silent, None
  <1>2. MapClean
    BY DEF Init, MapClean
  <1>3. AnswersWhole
    BY DEF Init, AnswersWhole
  <1>. QED BY <1>1, <1>2, <1>3 DEF WholeInv

(* Every step keeps it.                                                    *)
LEMMA WholeNext ==
  ASSUME OneRequestEach, Parts, WholeInv, [Next]_vars
  PROVE  WholeInv'
  <1>1. /\ \A d \in Conns : peer[d] # "reset" /\ Stage(d)
        /\ MapClean /\ AnswersWhole /\ ~PeersMayReset /\ ~HandlerMayThrow
    BY DEF WholeInv, Stage, OneRequestEach
  <1>2. SUFFICES (\A d \in Conns : peer'[d] # "reset" /\ Stage(d)') /\ MapClean' /\ AnswersWhole'
    BY DEF WholeInv, Stage
  <1>3. CASE UNCHANGED vars
    <2>1. ASSUME NEW d \in Conns PROVE peer'[d] # "reset" /\ Stage(d)'
      <3>1. Mine(d)' = Mine(d) /\ Parsed(d)' = Parsed(d)
        BY <1>3 DEF vars, Mine, Parsed
      <3>. QED BY <1>1, <1>3, <3>1, StageKeeps DEF vars
    <2>. QED BY <1>1, <1>3, <2>1 DEF vars, MapClean, AnswersWhole
  <1>4. CASE Next
    <2>1. PICK c \in Conns :
            Accept(c) \/ Server(c) \/ process_data(c) \/ ClientCloses(c) \/ ClientResets(c)
      BY <1>4 DEF Next
    <2>2. Stage(c) /\ peer[c] # "reset"
      BY <1>1
    <2>3. Stage(c)' /\ Alone(c) /\ peer'[c] # "reset" /\ MapClean'
      <3>1. CASE Accept(c)
        BY <1>1, <2>2, <3>1, AcceptStage
      <3>2. CASE Server(c) \/ ClientCloses(c) \/ ClientResets(c)
        BY <1>1, <2>2, <3>2, ServerStage
      <3>3. CASE ReadCommand(c) \/ ReadHeader(c) \/ ReceiveData(c)
        BY <1>1, <2>2, <3>3, ReadStage
      <3>4. CASE FindRequest(c)
        BY <1>1, <2>2, <3>4, FindStage
      <3>5. CASE ProcessRequest(c)
        BY <1>1, <2>2, <3>5, ProcessStage
      <3>6. CASE CloseRequest(c)
        BY <1>1, <2>2, <3>6, CloseStage
      <3>7. CASE RequestThrows(c)
        BY <1>1, <3>7 DEF RequestThrows
      <3>. QED BY <2>1, <3>1, <3>2, <3>3, <3>4, <3>5, <3>6, <3>7 DEF process_data
    <2>4. \A d \in Conns : peer'[d] # "reset" /\ Stage(d)'
      BY <1>1, <2>3, OthersStages
    <2>5. AnswersWhole'
      <3>1. CASE ProcessRequest(c)
        BY <1>1, <2>2, <3>1, ProcessStage
      <3>2. CASE answered' = answered
        BY <1>1, <3>2 DEF AnswersWhole
      <3>3. ASSUME ~ProcessRequest(c) PROVE answered' = answered
        BY <1>1, <2>1, <3>3 DEF Accept, Server, process_data, ClientCloses, ClientResets, IoEvent,
             IoFlush, IoRead, IoReadFails, Disconnect, WorkerTakes, FindRequest, ReadCommand,
             ReadHeader, ReceiveData, RequestThrows, CloseRequest, WaitForMore, Continue
      <3>. QED BY <3>1, <3>2, <3>3
    <2>. QED BY <2>3, <2>4, <2>5
  <1>. QED BY <1>3, <1>4

(* A client that sends one request, cut only inside the lines of its       *)
(* header: on_request is only given requests of which the connection       *)
(* itself sent the command line, the end of the header and all of the      *)
(* content, however many connections are parsed by however many threads.   *)
THEOREM AnswersSafe ==
  ASSUME OneRequestEach
  PROVE  Spec => []AnswersWhole
  <1>1. Init => WholeInv
    BY WholeInit
  <1>2. Parts /\ WholeInv /\ [Next]_vars => WholeInv'
    BY WholeNext
  <1>3. Spec => []Parts
    BY HttpSafe, InvParts, PTL
  <1>4. WholeInv => AnswersWhole
    BY DEF WholeInv
  <1>. QED BY <1>1, <1>2, <1>3, <1>4, PTL DEF Spec

=============================================================================
