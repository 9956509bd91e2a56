----------------------------- MODULE OdbcProofs -----------------------------
(***************************************************************************)
(* Proofs about Odbc: for every set of values, every result set, every     *)
(* size of the buffer and a driver that may fail at any call.              *)
(***************************************************************************)
EXTENDS Odbc, SequenceTheorems, WellFoundedInduction, TLAPS

(* A set of natural numbers has a least one: the form of induction the     *)
(* proof about the loop of get_field() uses.                               *)
LEMMA LeastNatural ==
  ASSUME NEW S \in SUBSET Nat, S # {}
  PROVE  \E m \in S : \A k \in S : m <= k
  <1>1. \A k, m \in Nat : k < m => <<k, m>> \in OpToRel(<, Nat)
    BY DEF OpToRel
  <1>2. PICK R : IsWellFoundedOn(R, Nat) /\ \A k, m \in Nat : k < m => <<k, m>> \in R
    BY <1>1, NatLessThanWellFounded
  <1>3. IsWellFoundedOn(R, Nat)
    BY <1>2
  <1>4. \A k, m \in Nat : k < m => <<k, m>> \in R
    BY <1>2
  <1>5. PICK m \in S : \A k \in S : ~ (<<k, m>> \in R)
    BY <1>3, WFMin
  <1>6. m \in Nat /\ \A k \in S : k \in Nat /\ ~ (k < m)
    BY <1>4, <1>5
  <1>7. \A k \in S : m <= k
    BY <1>6
  <1>. QED BY <1>7

(* get_field() puts a text together whole, whatever its length and the     *)
(* size of the buffer: the recursive function has a solution, and a least  *)
(* length for which it was wrong would be one buffer longer than another.  *)
LEMMA GatheredWhole ==
  ASSUME NEW n \in Nat
  PROVE  Gathered(n) = n
  <1>. DEFINE G(h) == [left \in 0..n |->
                         IF left <= BufSize THEN Chunk(left)
                         ELSE Chunk(left) + h[left - BufSize]]
              g == CHOOSE h : h = G(h)
  <1>1. Gathered(n) = g[n]
    BY DEF Gathered
  <1>2. \E h : h = G(h)
    <2>. DEFINE id == [left \in 0..n |-> left]
    <2>1. id = G(id)
      BY OdbcAssumption DEF Chunk, SQL_NULL_DATA
    <2>. QED BY <2>1
  <1>3. g = G(g)
    BY <1>2
  <1>. HIDE DEF g
  <1>4. \A left \in 0..n : g[left] = IF left <= BufSize THEN Chunk(left)
                                   ELSE Chunk(left) + g[left - BufSize]
    BY <1>3
  <1>. DEFINE Wrong == {left \in 0..n : g[left] # left}
  <1>5. Wrong = {}
    <2>. SUFFICES ASSUME Wrong # {} PROVE FALSE
      OBVIOUS
    <2>1. PICK m \in Wrong : \A k \in Wrong : m <= k
      <3>1. Wrong \in SUBSET Nat
        OBVIOUS
      <3>. HIDE DEF Wrong
      <3>. QED BY <3>1, LeastNatural
    <2>2. m \in 0..n /\ g[m] # m /\ \A k \in 0..n : k < m => g[k] = k
      BY <2>1
    <2>3. g[m] = IF m <= BufSize THEN Chunk(m) ELSE Chunk(m) + g[m - BufSize]
      BY <1>4, <2>2
    <2>4. m > BufSize
      BY <2>2, <2>3, OdbcAssumption DEF Chunk, SQL_NULL_DATA
    <2>5. g[m - BufSize] = m - BufSize
      BY <2>2, <2>4, OdbcAssumption
    <2>. QED BY <2>2, <2>3, <2>4, <2>5, OdbcAssumption DEF Chunk
  <1>. QED BY <1>1, <1>5

(* The columns have a length, which is that of a text or of a NULL.        *)
LEMMA ColumnLength ==
  /\ Cols \in Nat
  /\ \A c \in 1..Cols : /\ Lens[c] \in Nat \cup {SQL_NULL_DATA}
                        /\ Whole(c) \in Nat /\ Told(c) \in Nat /\ Told(c) = Whole(c) + 1
  <1>1. Cols \in Nat /\ Cols = Len(Lens)
    BY OdbcAssumption, LenProperties DEF Cols
  <1>2. ASSUME NEW c \in 1..Cols PROVE Lens[c] \in Nat \cup {SQL_NULL_DATA}
    BY <1>1, <1>2, OdbcAssumption, ElementOfSeq
  <1>. QED BY <1>1, <1>2 DEF Whole, Told

(* Before anything of a row is read, and after more of a column is.        *)
LEMMA OffsetsKept ==
  /\ NothingGot \in Offsets
  /\ \A f \in Offsets, c \in 1..Cols, g \in Nat :
       g <= Told(c) => [f EXCEPT ![c] = g] \in Offsets
  <1>1. NothingGot \in Offsets
    BY ColumnLength DEF NothingGot, Offsets
  <1>2. ASSUME NEW f \in Offsets, NEW c \in 1..Cols, NEW g \in Nat, g <= Told(c)
        PROVE  [f EXCEPT ![c] = g] \in Offsets
    BY <1>2 DEF Offsets
  <1>. QED BY <1>1, <1>2

(* A column of which nothing was given before is read whole.               *)
LEMMA ValueWhole ==
  ASSUME NEW c \in 1..Cols, NEW g \in Nat, g <= Told(c)
  PROVE  Value(c, g) \in Nat /\ (g = 0 => Value(c, g) = Whole(c))
  <1>1. Lens[c] \in Nat \cup {SQL_NULL_DATA} /\ Told(c) = Whole(c) + 1 /\ Whole(c) \in Nat
    BY ColumnLength
  <1>2. CASE g = Told(c)
    BY <1>1, <1>2 DEF Value
  <1>3. CASE g # Told(c) /\ Lens[c] = SQL_NULL_DATA
    BY <1>1, <1>3, OdbcAssumption DEF Value, Chunk, Whole, SQL_NULL_DATA
  <1>4. CASE g # Told(c) /\ Lens[c] # SQL_NULL_DATA
    <2>1. Lens[c] \in Nat /\ Whole(c) = Lens[c] /\ Lens[c] - g \in Nat
      BY <1>1, <1>4 DEF Whole
    <2>2. Value(c, g) = Lens[c] - g
      BY <1>4, <2>1, GatheredWhole DEF Value
    <2>. QED BY <2>1, <2>2
  <1>. QED BY <1>2, <1>3, <1>4

-----------------------------------------------------------------------------
(* The connection.                                                         *)

(* What close() leaves of the handle.                                      *)
LEMMA DisconnectKeeps ==
  ASSUME ConnTypes, NEW done
  PROVE  /\ Closed(done) \in [connected : BOOLEAN, autocommit : BOOLEAN,
                              active : BOOLEAN, pending : SUBSET Changes]
         /\ Closed(done).autocommit = dbc.autocommit
         /\ Closed(done).pending = dbc.pending
  BY DEF Closed, ConnTypes

(* A statement is executed: its change is saved at once outside a          *)
(* transaction, and waits inside one.                                      *)
LEMMA PerformKeeps ==
  ASSUME ConnInv, NEW st, Perform(st), UNCHANGED <<is_open, began>>
  PROVE  ConnInv'
  <1>. DEFINE new == IF st.kind # "insert" THEN {}
                     ELSE {IF began THEN "inside" ELSE "outside"}
  <1>1. /\ saved' = IF dbc.autocommit THEN new ELSE {}
        /\ dbc' = IF dbc.autocommit THEN dbc
                  ELSE [dbc EXCEPT !.active = TRUE, !.pending = dbc.pending \cup new]
    BY DEF Perform
  <1>2. new \subseteq Changes /\ ("inside" \in new => began)
        /\ ("outside" \in new => ~began)
    BY DEF Changes
  <1>. HIDE DEF new
  <1>3. CASE dbc.autocommit
    BY <1>1, <1>2, <1>3 DEF ConnInv, ConnTypes, SavedByCommit, OutsideIsSaved
  <1>4. CASE ~dbc.autocommit
    <2>1. saved' = {}
          /\ dbc' = [dbc EXCEPT !.active = TRUE, !.pending = dbc.pending \cup new]
      BY <1>1, <1>4
    <2>2. /\ dbc' \in [connected : BOOLEAN, autocommit : BOOLEAN, active : BOOLEAN,
                       pending : SUBSET Changes]
          /\ dbc'.autocommit = dbc.autocommit /\ dbc'.connected = dbc.connected
          /\ dbc'.pending = dbc.pending \cup new
      BY <1>2, <2>1 DEF ConnInv, ConnTypes
    <2>. QED BY <1>2, <1>4, <2>1, <2>2 DEF ConnInv, ConnTypes, SavedByCommit,
                                           OutsideIsSaved
  <1>. QED BY <1>3, <1>4

(* commit() and rollback() with n of their two calls successful.           *)
LEMMA EndKeeps ==
  ASSUME ConnInv, NEW n \in 0..2, NEW kept \in {{}, {"asked"}},
         EndTransaction(kept, n), Ended(n)
  PROVE  ConnInv'
  <1>1. /\ is_open' = is_open
        /\ began' = (began /\ n < 2) /\ began' \in BOOLEAN
    BY DEF Ended, ConnInv, ConnTypes
  <1>2. kept \subseteq Changes /\ "inside" \notin kept /\ "outside" \notin kept
    BY DEF Changes
  <1>3. saved' \subseteq kept
    BY DEF EndTransaction
  <1>4. CASE n = 0
    <2>1. dbc' = [dbc EXCEPT !.pending = IF kept = {} THEN dbc.pending ELSE kept]
      BY <1>4 DEF EndTransaction
    <2>2. /\ dbc' \in [connected : BOOLEAN, autocommit : BOOLEAN, active : BOOLEAN,
                       pending : SUBSET Changes]
          /\ dbc'.autocommit = dbc.autocommit /\ dbc'.connected = dbc.connected
          /\ dbc'.pending \in {dbc.pending, kept}
      BY <1>2, <2>1 DEF ConnInv, ConnTypes
    <2>. QED BY <1>1, <1>2, <1>3, <1>4, <2>2 DEF ConnInv, ConnTypes, SavedByCommit,
                                             OutsideIsSaved
  <1>5. CASE n # 0
    <2>1. dbc' = [dbc EXCEPT !.active = FALSE, !.pending = {},
                             !.autocommit = dbc.autocommit \/ n = 2]
      BY <1>5 DEF EndTransaction
    <2>2. /\ dbc' \in [connected : BOOLEAN, autocommit : BOOLEAN, active : BOOLEAN,
                       pending : SUBSET Changes]
          /\ dbc'.autocommit = (dbc.autocommit \/ n = 2)
          /\ dbc'.connected = dbc.connected /\ dbc'.pending = {}
      BY <2>1 DEF ConnInv, ConnTypes
    <2>3. began' <=> ~dbc'.autocommit
      <3>1. (n < 2 \/ n = 2) /\ ~(n < 2 /\ n = 2)
        OBVIOUS
      <3>2. began \in BOOLEAN /\ dbc.autocommit \in BOOLEAN /\ (began <=> ~dbc.autocommit)
        BY DEF ConnInv, ConnTypes
      <3>. QED BY <1>1, <2>2, <3>1, <3>2, Zenon
    <2>. QED BY <1>1, <1>2, <1>3, <2>2, <2>3 DEF ConnInv, ConnTypes, SavedByCommit,
                                             OutsideIsSaved
  <1>. QED BY <1>4, <1>5

(* Every call keeps what is true of the connection and its transactions.   *)
LEMMA ConnStep ==
  ASSUME ConnInv, Next
  PROVE  ConnInv'
  <1>0. CASE UNCHANGED <<connVars, began>> /\ NothingSaved
    BY <1>0 DEF connVars, NothingSaved, ConnInv, ConnTypes, SavedByCommit,
                OutsideIsSaved
  <1>1. CASE close
    <2>1. PICK done \in Disconnects : dbc' = Closed(done)
      BY <1>1 DEF close
    <2>2. is_open' = FALSE /\ saved' = {} /\ began' = began
      BY <1>1 DEF close, NothingSaved
    <2>. QED BY <2>1, <2>2, DisconnectKeeps DEF ConnInv, ConnTypes, SavedByCommit,
                                                OutsideIsSaved
  <1>2. CASE open
    <2>1. PICK done \in Disconnects : \E ok \in Tried(~Closed(done).connected) :
            /\ is_open' = ok
            /\ dbc' = [Closed(done) EXCEPT !.connected = Closed(done).connected \/ ok]
      BY <1>2 DEF open
    <2>2. PICK ok \in Tried(~Closed(done).connected) :
            /\ is_open' = ok
            /\ dbc' = [Closed(done) EXCEPT !.connected = Closed(done).connected \/ ok]
      BY <2>1
    <2>3. saved' = {} /\ began' = began
      BY <1>2 DEF open, NothingSaved
    <2>4. ConnTypes
      BY DEF ConnInv
    <2>5. ok \in BOOLEAN
      BY <2>2, <2>4, DisconnectKeeps DEF Tried
    <2>6. /\ dbc' \in [connected : BOOLEAN, autocommit : BOOLEAN, active : BOOLEAN,
                       pending : SUBSET Changes]
          /\ dbc'.connected = (Closed(done).connected \/ ok)
          /\ dbc'.autocommit = dbc.autocommit /\ dbc'.pending = dbc.pending
      BY <2>2, <2>4, <2>5, DisconnectKeeps
    <2>. QED BY <2>2, <2>3, <2>5, <2>6
         DEF ConnInv, ConnTypes, SavedByCommit, OutsideIsSaved
  <1>3. CASE Renew
    <2>1. is_open' = FALSE /\ dbc' = NewHandle /\ saved' = {} /\ began' = FALSE
      BY <1>3 DEF Renew, NothingSaved
    <2>. QED BY <2>1 DEF NewHandle, ConnInv, ConnTypes, SavedByCommit, OutsideIsSaved
  <1>4. CASE begin_transaction
    <2>1. PICK ok \in Tried(~dbc.active) :
            /\ dbc' = [dbc EXCEPT !.autocommit = dbc.autocommit /\ ~ok]
            /\ began' = (began \/ ok)
      BY <1>4 DEF begin_transaction
    <2>2. ok \in BOOLEAN /\ is_open' = is_open /\ saved' = {}
      BY <1>4, <2>1 DEF begin_transaction, NothingSaved, Tried
    <2>3. /\ dbc' \in [connected : BOOLEAN, autocommit : BOOLEAN, active : BOOLEAN,
                       pending : SUBSET Changes]
          /\ dbc'.autocommit = (dbc.autocommit /\ ~ok)
          /\ dbc'.connected = dbc.connected /\ dbc'.pending = dbc.pending
      BY <2>1, <2>2 DEF ConnInv, ConnTypes
    <2>4. began' \in BOOLEAN /\ (began' <=> ~dbc'.autocommit)
      BY <2>1, <2>2, <2>3 DEF ConnInv, ConnTypes
    <2>. QED BY <2>2, <2>3, <2>4 DEF ConnInv, ConnTypes, SavedByCommit, OutsideIsSaved
  <1>5. CASE commit \/ rollback
    <2>1. Calls \subseteq 0..2
      BY DEF Calls
    <2>. QED BY <1>5, <2>1, EndKeeps DEF commit, rollback
  <1>6. ASSUME NEW st, NEW returned \in BOOLEAN, Execute(st, returned) PROVE ConnInv'
    <2>1. CASE Perform(st)
      BY <1>6, <2>1, PerformKeeps DEF Execute
    <2>2. CASE NothingSaved /\ UNCHANGED dbc
      BY <1>0, <1>6, <2>2 DEF Execute, connVars
    <2>. QED BY <1>6, <2>1, <2>2 DEF Execute
  <1>7. CASE execute \/ Flush \/ \E st \in Statements : ExecuteDirect(st)
    BY <1>6, <1>7 DEF execute, Flush, ExecuteDirect
  <1>8. CASE NewQuery \/ DeleteQuery \/ next \/ StreamOut
             \/ (\E st \in Statements : prepare(st))
             \/ (\E v \in Values \cup {Null} : StreamIn(v))
             \/ (\E n \in 0..1, v \in Values : set_parameter(n, v))
             \/ (\E n \in 0..(Cols - 1) : get_field(n))
    BY <1>0, <1>8 DEF NewQuery, DeleteQuery, next, StreamOut, prepare, StreamIn,
                      set_parameter, get_field
  <1>. QED BY <1>1, <1>2, <1>3, <1>4, <1>5, <1>7, <1>8 DEF Next

-----------------------------------------------------------------------------
(* The query.                                                              *)

Vals == Values \cup {Null}

(* The fields of use, which steps below change one by one.                 *)
LEMMA UseFields ==
  ASSUME UseTypes
  PROVE  /\ use.streamed \in Seq(Vals) /\ use.mixed \in BOOLEAN
         /\ use.row \in Seq(Vals) /\ use.wanted \in Seq(Vals) /\ use.nth \in Nat
         /\ use.read \in [nth : Nat, col : Nat, first : BOOLEAN, len : Nat]
         /\ NoRead \in [nth : Nat, col : Nat, first : BOOLEAN, len : Nat]
  BY DEF UseTypes, Vals, NoRead

(* A flush with as many streamed values as parameters has just these.      *)
LEMMA StreamedRow ==
  ASSUME QueryInv, ~use.mixed, Len(use.streamed) = Len(parameters)
  PROVE  use.streamed = parameters
  <1>1. use.streamed \in Seq(Vals) /\ parameters \in Seq(Vals) /\ prmcnt \in Nat
        /\ Len(parameters) \in Nat
    BY UseFields, LenProperties DEF QueryInv, QueryTypes, Vals
  <1>2. \A n \in 1..Len(parameters) : use.streamed[n] = parameters[n]
    BY <1>1 DEF QueryInv, StreamedInPlace
  <1>. QED BY <1>1, <1>2, SeqEqual

(* Results of a statement: the cursor and _fields.                         *)
LEMMA ExecuteTypes ==
  ASSUME QueryTypes, NEW st \in Statements \cup {NoStatement}, NEW returned \in BOOLEAN,
         Execute(st, returned)
  PROVE  /\ cursor' \in [cols : {0, Cols}, row : 0..(Rows + 1), got : Offsets]
         /\ fields' \in Seq(Nat)
         /\ UNCHANGED <<stmt, parameters, fldcnt>>
  <1>1. st.cols \in {0, Cols} /\ Cols \in Nat
    BY OdbcAssumption, LenProperties DEF Statements, NoStatement, Cols
  <1>2. NoCursor \in [cols : {0, Cols}, row : 0..(Rows + 1), got : Offsets]
    BY OdbcAssumption, OffsetsKept DEF NoCursor
  <1>3. [NoCursor EXCEPT !.cols = st.cols]
          \in [cols : {0, Cols}, row : 0..(Rows + 1), got : Offsets]
    BY <1>1, <1>2
  <1>4. ASSUME NEW n \in 0..st.cols, retrieve_metadata(n) PROVE fields' \in Seq(Nat)
    <2>1. [k \in 1..n |-> k - 1] \in Seq(Nat)
      <3>1. n \in Nat
        BY <1>1
      <3>2. \A k \in 1..n : k - 1 \in Nat
        BY <3>1
      <3>. QED BY <3>1, <3>2, IsASeq
    <2>. QED BY <1>4, <2>1, ConcatProperties DEF retrieve_metadata, QueryTypes
  <1>5. st.cols \in 0..st.cols
    BY <1>1
  <1>. QED BY <1>2, <1>3, <1>4, <1>5 DEF Execute, Perform, QueryTypes

(* A step that leaves the parameters and the history of their values       *)
(* alone, or starts it again.                                              *)
LEMMA StreamRests ==
  ASSUME QueryInv,
         \/ UNCHANGED <<parameters, prmcnt>> /\ use'.streamed = use.streamed
            /\ use'.mixed = use.mixed
         \/ use'.streamed = <<>> /\ prmcnt' \in Nat
         \/ use'.mixed = TRUE
  PROVE  StreamedInPlace'
  <1>1. CASE UNCHANGED <<parameters, prmcnt>> /\ use'.streamed = use.streamed
             /\ use'.mixed = use.mixed
    BY <1>1 DEF QueryInv, StreamedInPlace
  <1>2. CASE use'.streamed = <<>> /\ prmcnt' \in Nat
    <2>1. Len(use'.streamed) = 0
      BY <1>2
    <2>. QED BY <1>2, <2>1 DEF StreamedInPlace
  <1>3. CASE use'.mixed = TRUE
    BY <1>3 DEF StreamedInPlace
  <1>. QED BY <1>1, <1>2, <1>3

(* A step that leaves the values, the counters and the history alone.      *)
LEMMA QueryRests ==
  ASSUME QueryInv, QueryTypes', UNCHANGED <<parameters, prmcnt, fldcnt, use>>
  PROVE  QueryInv'
  BY StreamRests DEF QueryInv, UseTypes, ValuesInPlace, RowAsStreamed, ReadAsStored

(* The last row and field are forgotten with it.                           *)
LEMMA Forgotten ==
  ASSUME UseTypes', use'.row = use'.wanted, use'.read = NoRead
  PROVE  ValuesInPlace'
  BY DEF ValuesInPlace, RowAsStreamed, ReadAsStored, NoRead

(* q << v puts v after the values before it.                               *)
LEMMA StreamInKeeps ==
  ASSUME QueryInv, NEW v \in Vals, StreamIn(v)
  PROVE  QueryInv'
  <1>1. /\ parameters \in Seq(Vals) /\ prmcnt \in Nat /\ Len(parameters) \in Nat
        /\ prmcnt < Len(parameters) /\ prmcnt + 1 \in 1..Len(parameters)
        /\ parameters' = [parameters EXCEPT ![prmcnt + 1] = v] /\ prmcnt' = prmcnt + 1
        /\ UNCHANGED <<stmt, prepared, fldcnt, fields, cursor>>
    BY LenProperties DEF StreamIn, QueryInv, QueryTypes, Vals
  <1>2. /\ parameters' \in Seq(Vals) /\ Len(parameters') = Len(parameters)
        /\ \A j \in 1..Len(parameters) :
             parameters'[j] = IF j = prmcnt + 1 THEN v ELSE parameters[j]
    BY <1>1, ExceptSeq
  <1>3. use.streamed \in Seq(Vals) /\ UseTypes
    BY UseFields DEF QueryInv
  <1>4. use' = [use EXCEPT !.streamed = Append(use.streamed, v), !.row = <<>>,
                           !.wanted = <<>>, !.read = NoRead]
    BY DEF StreamIn
  <1>5. Append(use.streamed, v) \in Seq(Vals) /\ <<>> \in Seq(Vals)
    BY <1>3, AppendProperties, EmptySeq
  <1>6. /\ UseTypes' /\ use'.streamed = Append(use.streamed, v) /\ use'.mixed = use.mixed
        /\ use'.row = <<>> /\ use'.wanted = <<>> /\ use'.nth = use.nth
        /\ use'.read = NoRead
    BY <1>3, <1>4, <1>5, UseFields DEF UseTypes, Vals
  <1>7. StreamedInPlace'
    <2>. SUFFICES ASSUME ~use.mixed PROVE StreamedInPlace'
      BY <1>6 DEF StreamedInPlace
    <2>. DEFINE k == Len(use.streamed)
    <2>1. k \in Nat /\ Len(use'.streamed) = k + 1
          /\ (\A n \in 1..k : use'.streamed[n] = use.streamed[n])
          /\ use'.streamed[k + 1] = v
      BY <1>3, <1>6, AppendProperties, LenProperties
    <2>2. k <= prmcnt /\ \A n \in 1..k : use.streamed[n] = parameters[prmcnt - k + n]
      BY DEF QueryInv, StreamedInPlace
    <2>. HIDE DEF k
    <2>3. ASSUME NEW n \in 1..(k + 1)
          PROVE  use'.streamed[n] = parameters'[prmcnt' - (k + 1) + n]
      <3>1. CASE n = k + 1
        <4>1. prmcnt' - (k + 1) + n = prmcnt + 1
          BY <1>1, <2>1, <3>1
        <4>. QED BY <1>1, <1>2, <2>1, <3>1, <4>1
      <3>2. CASE n \in 1..k
        <4>1. prmcnt' - (k + 1) + n = prmcnt - k + n
              /\ prmcnt - k + n \in 1..prmcnt
          BY <1>1, <2>1, <2>2, <3>2
        <4>2. parameters'[prmcnt - k + n] = parameters[prmcnt - k + n]
          BY <1>1, <1>2, <4>1
        <4>. QED BY <2>1, <2>2, <3>2, <4>1, <4>2
      <3>. QED BY <2>1, <3>1, <3>2
    <2>. QED BY <1>1, <1>2, <2>1, <2>2, <2>3 DEF StreamedInPlace
  <1>8. QueryTypes'
    BY <1>1, <1>2 DEF QueryInv, QueryTypes, Vals
  <1>. QED BY <1>1, <1>6, <1>7, <1>8, Forgotten DEF QueryInv

(* A field of the current row is one of its columns.                       *)
LEMMA FieldColumn ==
  ASSUME QueryTypes, NEW n \in Nat, HasField(n)
  PROVE  n + 1 \in 1..Cols
  <1>1. n < cursor.cols /\ cursor.cols \in {0, Cols} /\ Cols \in Nat
    BY ColumnLength DEF HasField, QueryTypes
  <1>. QED BY <1>1

(* A cursor of which more was given is one.                                *)
LEMMA MoreGiven ==
  ASSUME NEW k \in [cols : {0, Cols}, row : 0..(Rows + 1), got : Offsets],
         NEW c \in 1..Cols, NEW g \in Nat, g <= Told(c)
  PROVE  [k EXCEPT !.got[c] = g]
           \in [cols : {0, Cols}, row : 0..(Rows + 1), got : Offsets]
  <1>1. [k.got EXCEPT ![c] = g] \in Offsets
    BY OffsetsKept
  <1>. QED BY <1>1

(* A field is read: by number, or as the next one with >>.                 *)
LEMMA FieldKeeps ==
  ASSUME QueryInv, NEW n \in Nat, NEW nth \in Nat, Field(n, nth),
         \/ nth = 0 /\ fldcnt' = fldcnt
         \/ nth = use.nth + 1 /\ n = fldcnt /\ fldcnt' = fldcnt + 1,
         UNCHANGED <<prepared, parameters, prmcnt, fields>>
  PROVE  QueryInv'
  <1>1. UseTypes /\ fldcnt \in Nat /\ use.nth = fldcnt /\ use.nth \in Nat
    BY UseFields DEF QueryInv, QueryTypes
  <1>2. n + 1 \in 1..Cols /\ cursor.got \in Offsets
    BY ColumnLength, FieldColumn DEF Field, QueryInv, QueryTypes
  <1>3. cursor.got[n + 1] \in Nat /\ cursor.got[n + 1] <= Told(n + 1)
    BY <1>2 DEF Offsets
  <1>. DEFINE v == Value(n + 1, cursor.got[n + 1])
              f == cursor.got[n + 1] = 0
              r == [nth |-> nth, col |-> n + 1, first |-> f, len |-> v]
  <1>v. v \in Nat /\ f \in BOOLEAN /\ (f => v = Whole(n + 1))
    BY <1>2, <1>3, ValueWhole
  <1>f. use' = [use EXCEPT !.nth = IF nth > 0 THEN nth ELSE use.nth, !.read = r]
    BY DEF Field
  <1>. HIDE DEF v, f
  <1>4. r \in [nth : Nat, col : Nat, first : BOOLEAN, len : Nat]
    BY <1>2, <1>v
  <1>5. r.nth = nth /\ r.col = n + 1 /\ (r.first => r.len = Whole(n + 1))
    BY <1>v
  <1>6. use' = [use EXCEPT !.nth = IF nth > 0 THEN nth ELSE use.nth, !.read = r]
    BY <1>f
  <1>. HIDE DEF r
  <1>7. /\ UseTypes' /\ use'.streamed = use.streamed /\ use'.mixed = use.mixed
        /\ use'.row = use.row /\ use'.wanted = use.wanted
        /\ use'.nth = (IF nth > 0 THEN nth ELSE use.nth) /\ use'.read = r
    BY <1>1, <1>4, <1>6 DEF UseTypes
  <1>8. use'.nth = fldcnt' /\ fldcnt' \in Nat
    BY <1>1, <1>7
  <1>9. nth > 0 => n + 1 = nth
    BY <1>1
  <1>10. ValuesInPlace'
    BY <1>5, <1>7, <1>9 DEF QueryInv, ValuesInPlace, RowAsStreamed, ReadAsStored
  <1>11. QueryTypes'
    <2>1. cursor' = [cursor EXCEPT !.got[n + 1] = Told(n + 1)] /\ stmt' = stmt
      BY DEF Field
    <2>2. cursor' \in [cols : {0, Cols}, row : 0..(Rows + 1), got : Offsets]
      <3>1. Told(n + 1) \in Nat /\ Told(n + 1) <= Told(n + 1)
        BY <1>2, ColumnLength
      <3>2. cursor \in [cols : {0, Cols}, row : 0..(Rows + 1), got : Offsets]
        BY DEF QueryInv, QueryTypes
      <3>. QED BY <1>2, <2>1, <3>1, <3>2, MoreGiven
    <2>. QED BY <1>8, <2>1, <2>2 DEF QueryInv, QueryTypes
  <1>. QED BY <1>7, <1>8, <1>10, <1>11, StreamRests DEF QueryInv

(* A field is not read: the counter stays, part of it may be gone.         *)
LEMMA FieldFailsKeeps ==
  ASSUME QueryInv, NEW n \in Nat, FieldFails(n),
         UNCHANGED <<prepared, parameters, prmcnt, fields, fldcnt>>
  PROVE  QueryInv'
  <1>1. use' = [use EXCEPT !.read = NoRead] /\ stmt' = stmt /\ UseTypes
    BY DEF FieldFails, QueryInv
  <1>2. /\ UseTypes' /\ use'.streamed = use.streamed /\ use'.mixed = use.mixed
        /\ use'.row = use.row /\ use'.wanted = use.wanted /\ use'.nth = use.nth
        /\ use'.read = NoRead
    BY <1>1, UseFields DEF UseTypes
  <1>3. cursor' \in [cols : {0, Cols}, row : 0..(Rows + 1), got : Offsets]
    <2>1. CASE UNCHANGED cursor
      BY <2>1 DEF QueryInv, QueryTypes
    <2>2. ASSUME NEW g \in CutAt(n), HasField(n),
                 cursor' = [cursor EXCEPT !.got[n + 1] = g]
          PROVE  cursor' \in [cols : {0, Cols}, row : 0..(Rows + 1), got : Offsets]
      <3>1. n + 1 \in 1..Cols /\ cursor.got \in Offsets
        BY <2>2, FieldColumn DEF QueryInv, QueryTypes
      <3>2. cursor.got[n + 1] \in Nat /\ Whole(n + 1) \in Nat
            /\ Told(n + 1) = Whole(n + 1) + 1
        BY <3>1, ColumnLength DEF Offsets
      <3>3. g \in cursor.got[n + 1]..Whole(n + 1)
        BY <2>2 DEF CutAt
      <3>4. g \in Nat /\ g <= Told(n + 1)
        BY <3>2, <3>3
      <3>. QED BY <2>2, <3>1, <3>4, MoreGiven DEF QueryInv, QueryTypes
    <2>. QED BY <2>1, <2>2 DEF FieldFails
  <1>4. QueryTypes'
    BY <1>1, <1>3 DEF QueryInv, QueryTypes
  <1>5. use'.row = use'.wanted
    BY <1>2 DEF QueryInv, ValuesInPlace, RowAsStreamed
  <1>. QED BY <1>2, <1>4, <1>5, StreamRests, Forgotten DEF QueryInv

(* flush: the parameters go to the driver, and the counter starts again    *)
(* unless there was an exception.                                          *)
LEMMA FlushKeeps ==
  ASSUME QueryInv, Flush
  PROVE  QueryInv'
  <1>1. PICK returned \in BOOLEAN : /\ Execute(prepared, returned)
                                    /\ prmcnt' = IF returned THEN 0 ELSE prmcnt
    BY DEF Flush
  <1>2. /\ cursor' \in [cols : {0, Cols}, row : 0..(Rows + 1), got : Offsets]
        /\ fields' \in Seq(Nat) /\ UNCHANGED <<stmt, parameters, fldcnt, prepared>>
    BY <1>1, ExecuteTypes DEF QueryInv, QueryTypes, Flush
  <1>3. prmcnt' \in Nat
    BY <1>1 DEF QueryInv, QueryTypes
  <1>. DEFINE w == IF ~use.mixed /\ Len(use.streamed) = Len(parameters)
                     THEN use.streamed ELSE parameters
  <1>4. w = parameters /\ parameters \in Seq(Vals)
    BY StreamedRow DEF QueryInv, QueryTypes, Vals
  <1>5. use' = [use EXCEPT !.streamed = <<>>, !.mixed = FALSE, !.read = NoRead,
                           !.row = parameters, !.wanted = w]
    BY DEF Flush
  <1>. HIDE DEF w
  <1>6. UseTypes
    BY DEF QueryInv
  <1>7. /\ UseTypes' /\ use'.streamed = <<>> /\ use'.row = use'.wanted
        /\ use'.nth = use.nth /\ use'.read = NoRead
    BY <1>4, <1>5, <1>6, UseFields, EmptySeq DEF UseTypes, Vals
  <1>8. QueryTypes'
    BY <1>2, <1>3 DEF QueryInv, QueryTypes
  <1>. QED BY <1>2, <1>3, <1>7, <1>8, StreamRests, Forgotten DEF QueryInv

(* parse() makes new parameters and leaves _prmcnt.                        *)
LEMMA PrepareKeeps ==
  ASSUME QueryInv, NEW st \in Statements, prepare(st)
  PROVE  QueryInv'
  <1>1. st.prms \in Nat
    BY DEF Statements
  <1>2. [n \in 1..st.prms |-> Null] \in Seq(Vals)
    BY <1>1, IsASeq DEF Vals
  <1>3. QueryTypes'
    <2>1. prepared' \in Statements \cup {NoStatement}
      BY DEF prepare, QueryInv, QueryTypes
    <2>. QED BY <1>2, <2>1 DEF prepare, QueryInv, QueryTypes, Vals
  <1>4. use' = [use EXCEPT !.streamed = <<>>, !.mixed = FALSE, !.row = <<>>,
                           !.wanted = <<>>, !.read = NoRead]
    BY DEF prepare
  <1>5. UseTypes
    BY DEF QueryInv
  <1>6. /\ UseTypes' /\ use'.streamed = <<>> /\ use'.row = use'.wanted
        /\ use'.nth = use.nth /\ use'.read = NoRead
    BY <1>4, <1>5, UseFields, EmptySeq DEF UseTypes, Vals
  <1>7. fldcnt' = fldcnt /\ prmcnt' \in Nat
    BY DEF prepare, QueryInv, QueryTypes
  <1>. QED BY <1>3, <1>6, <1>7, StreamRests, Forgotten DEF QueryInv

(* set_parameter() puts a value anywhere.                                  *)
LEMMA SetParameterKeeps ==
  ASSUME QueryInv, NEW n \in Nat, NEW v \in Values, set_parameter(n, v)
  PROVE  QueryInv'
  <1>1. /\ parameters \in Seq(Vals) /\ Len(parameters) \in Nat /\ v \in Vals
        /\ n + 1 \in 1..Len(parameters)
    BY LenProperties DEF set_parameter, QueryInv, QueryTypes, Vals
  <1>2. [parameters EXCEPT ![n + 1] = v] \in Seq(Vals)
    BY <1>1, ExceptSeq
  <1>3. QueryTypes'
    BY <1>2 DEF set_parameter, QueryInv, QueryTypes, Vals
  <1>4. use' = [use EXCEPT !.mixed = TRUE] /\ fldcnt' = fldcnt
    BY DEF set_parameter
  <1>5. /\ UseTypes' /\ use'.mixed = TRUE /\ use'.row = use.row
        /\ use'.wanted = use.wanted /\ use'.nth = use.nth /\ use'.read = use.read
    BY <1>4 DEF QueryInv, UseTypes
  <1>6. ValuesInPlace'
    BY <1>5 DEF QueryInv, ValuesInPlace, RowAsStreamed, ReadAsStored
  <1>. QED BY <1>3, <1>4, <1>5, <1>6, StreamRests DEF QueryInv

(* A cursor that was moved is one.                                         *)
LEMMA MovedCursor ==
  ASSUME NEW A, NEW B, NEW C, NEW c \in [cols : A, row : B, got : C],
         NEW b \in B, NEW d \in C
  PROVE  [c EXCEPT !.row = b, !.got = d] \in [cols : A, row : B, got : C]
  <1>1. [c EXCEPT !.row = b] \in [cols : A, row : B, got : C]
    OBVIOUS
  <1>2. ASSUME NEW e \in [cols : A, row : B, got : C]
        PROVE  [e EXCEPT !.got = d] \in [cols : A, row : B, got : C]
    OBVIOUS
  <1>. QED BY <1>1, <1>2

(* next() goes to the next row, and >> starts with its first column.       *)
LEMMA NextKeeps ==
  ASSUME QueryInv, next
  PROVE  QueryInv'
  <1>. DEFINE moved == [cursor EXCEPT !.row = cursor.row + 1, !.got = NothingGot]
  <1>1. cursor' \in {cursor, moved} /\ (cursor' = moved => cursor' = cursor \/ cursor.row <= Rows)
    BY DEF next
  <1>2. cursor' \in [cols : {0, Cols}, row : 0..(Rows + 1), got : Offsets]
    <2>1. cursor.row \in 0..(Rows + 1)
          /\ cursor \in [cols : {0, Cols}, row : 0..(Rows + 1), got : Offsets]
      BY DEF QueryInv, QueryTypes
    <2>2. CASE cursor.row <= Rows
      <3>1. moved \in [cols : {0, Cols}, row : 0..(Rows + 1), got : Offsets]
        <4>1. cursor.row + 1 \in 0..(Rows + 1)
          BY <2>1, <2>2, OdbcAssumption
        <4>2. NothingGot \in Offsets
          BY OffsetsKept
        <4>. QED BY <2>1, <4>1, <4>2, MovedCursor
      <3>. QED BY <1>1, <2>1, <3>1
    <2>3. CASE ~(cursor.row <= Rows)
      BY <1>1, <2>1, <2>3
    <2>. QED BY <2>2, <2>3
  <1>3. QueryTypes'
    BY <1>2 DEF next, QueryInv, QueryTypes
  <1>4. use' = [use EXCEPT !.nth = 0, !.read = NoRead, !.row = <<>>, !.wanted = <<>>]
        /\ UNCHANGED <<parameters, prmcnt>> /\ fldcnt' = 0
    BY DEF next
  <1>5. UseTypes
    BY DEF QueryInv
  <1>6. /\ UseTypes' /\ use'.streamed = use.streamed /\ use'.mixed = use.mixed
        /\ use'.row = use'.wanted /\ use'.nth = 0 /\ use'.read = NoRead
    BY <1>4, <1>5, UseFields, EmptySeq DEF UseTypes, Vals
  <1>. QED BY <1>3, <1>4, <1>6, StreamRests, Forgotten DEF QueryInv

(* A new query, or one that was deleted.                                   *)
Fresh ==
  /\ stmt = "none" /\ prepared = NoStatement /\ parameters = <<>>
  /\ prmcnt = 0 /\ fldcnt = 0 /\ fields = <<>> /\ cursor = NoCursor
  /\ use = NoUse

(* Such a query is as it should be.                                        *)
LEMMA FreshQuery == Fresh => QueryInv
  <1>. SUFFICES ASSUME Fresh PROVE QueryInv
    OBVIOUS
  <1>1. QueryTypes
    <2>1. NoCursor \in [cols : {0, Cols}, row : 0..(Rows + 1), got : Offsets]
      BY OdbcAssumption, OffsetsKept DEF NoCursor
    <2>. QED BY <2>1, EmptySeq DEF QueryTypes, Fresh
  <1>2. UseTypes
    BY EmptySeq DEF Fresh, UseTypes, NoUse, NoRead
  <1>3. StreamedInPlace
    BY DEF Fresh, StreamedInPlace, NoUse
  <1>4. ValuesInPlace
    BY DEF Fresh, ValuesInPlace, RowAsStreamed, ReadAsStored, NoUse, NoRead
  <1>. QED BY <1>1, <1>2, <1>3, <1>4 DEF Fresh, QueryInv, NoUse

(* Every call keeps what is true of the query.                             *)
LEMMA QueryStep ==
  ASSUME QueryInv, Next
  PROVE  QueryInv'
  <1>c. NoCursor \in [cols : {0, Cols}, row : 0..(Rows + 1), got : Offsets]
    BY OdbcAssumption, OffsetsKept DEF NoCursor
  <1>1. CASE close \/ open
    <2>1. /\ stmt' \in {"freed", stmt} /\ cursor' \in {NoCursor, cursor}
          /\ UNCHANGED <<prepared, parameters, prmcnt, fldcnt, fields, use>>
      BY <1>1 DEF close, open, SQLDisconnect
    <2>2. QueryTypes'
      BY <1>c, <2>1 DEF QueryInv, QueryTypes
    <2>. QED BY <2>1, <2>2, QueryRests
  <1>2. CASE Renew \/ begin_transaction
    <2>1. UNCHANGED <<queryVars, use>>
      BY <1>2 DEF Renew, begin_transaction
    <2>. QED BY <2>1, QueryRests DEF queryVars, QueryInv, QueryTypes
  <1>3. CASE commit \/ rollback
    <2>1. /\ cursor' \in {cursor, NoCursor}
          /\ UNCHANGED <<stmt, prepared, parameters, prmcnt, fldcnt, fields, use>>
      BY <1>3 DEF commit, rollback, Ended
    <2>2. QueryTypes'
      BY <1>c, <2>1 DEF QueryInv, QueryTypes
    <2>. QED BY <2>1, <2>2, QueryRests
  <1>4. CASE NewQuery
    <2>1. /\ stmt' \in {"live", "none"}
          /\ UNCHANGED <<prepared, parameters, prmcnt, fldcnt, fields, cursor, use>>
      BY <1>4 DEF NewQuery
    <2>. QED BY <2>1, QueryRests DEF QueryInv, QueryTypes
  <1>5. CASE DeleteQuery
    <2>1. Fresh'
      BY <1>5 DEF DeleteQuery, Fresh
    <2>. QED BY <2>1, FreshQuery, PTL
  <1>6. CASE execute \/ \E st \in Statements : ExecuteDirect(st)
    <2>1. PICK st \in Statements \cup {NoStatement}, returned \in BOOLEAN :
            /\ Execute(st, returned) /\ prepared' \in {prepared, NoStatement}
            /\ UNCHANGED <<prmcnt, use>>
      BY <1>6 DEF execute, ExecuteDirect, QueryInv, QueryTypes
    <2>2. QueryTypes' /\ UNCHANGED <<parameters, fldcnt>>
      BY <2>1, ExecuteTypes DEF QueryInv, QueryTypes
    <2>. QED BY <2>1, <2>2, QueryRests
  <1>7. ASSUME NEW n \in Nat, get_field(n) PROVE QueryInv'
    <2>1. CASE Field(n, 0)
      BY <1>7, <2>1, FieldKeeps DEF get_field
    <2>2. CASE Endless
      <3>1. QueryTypes'
        BY <1>7, <2>2 DEF get_field, Endless, QueryInv, QueryTypes
      <3>. QED BY <1>7, <2>2, <3>1, QueryRests DEF get_field, Endless
    <2>3. CASE FieldFails(n)
      BY <1>7, <2>3, FieldFailsKeeps DEF get_field
    <2>. QED BY <1>7, <2>1, <2>2, <2>3 DEF get_field
  <1>8. CASE StreamOut
    <2>1. CASE Field(fldcnt, use.nth + 1) /\ fldcnt' = fldcnt + 1
      <3>1. fldcnt \in Nat /\ use.nth + 1 \in Nat
        BY UseFields DEF QueryInv, QueryTypes
      <3>. QED BY <1>8, <2>1, <3>1, FieldKeeps DEF StreamOut
    <2>2. CASE Endless /\ UNCHANGED fldcnt
      <3>1. QueryTypes'
        BY <1>8, <2>2 DEF StreamOut, Endless, QueryInv, QueryTypes
      <3>. QED BY <1>8, <2>2, <3>1, QueryRests DEF StreamOut, Endless
    <2>3. CASE FieldFails(fldcnt) /\ UNCHANGED fldcnt
      <3>1. fldcnt \in Nat
        BY DEF QueryInv, QueryTypes
      <3>. QED BY <1>8, <2>3, <3>1, FieldFailsKeeps DEF StreamOut
    <2>. QED BY <1>8, <2>1, <2>2, <2>3 DEF StreamOut
  <1>9. Cols \in Nat
    BY OdbcAssumption, LenProperties DEF Cols
  <1>10. ASSUME NEW n \in 0..1, NEW v \in Values, set_parameter(n, v) PROVE QueryInv'
    BY <1>10, SetParameterKeeps
  <1>11. ASSUME NEW n \in 0..(Cols - 1), get_field(n) PROVE QueryInv'
    BY <1>7, <1>9, <1>11
  <1>12. ASSUME NEW v \in Values \cup {Null}, StreamIn(v) PROVE QueryInv'
    BY <1>12, StreamInKeeps DEF Vals
  <1>. QED
    BY <1>1, <1>2, <1>3, <1>4, <1>5, <1>6, <1>8, <1>10, <1>11, <1>12, PrepareKeeps,
       FlushKeeps, NextKeeps DEF Next

-----------------------------------------------------------------------------
(* The connection and the query keep their invariants.                     *)
LEMMA OdbcSafe == Spec => [](ConnInv /\ QueryInv)
  <1>1. Init => ConnInv /\ QueryInv
    <2>1. Init => QueryInv
      BY FreshQuery DEF Init, Fresh
    <2>2. Init => ConnInv
      <3>1. ASSUME Init PROVE ConnTypes
        BY <3>1 DEF Init, NewHandle, ConnTypes
      <3>2. ASSUME Init
            PROVE  /\ ~dbc.connected /\ dbc.autocommit /\ dbc.pending = {}
                   /\ ~began /\ saved = {} /\ ~is_open
        BY <3>2 DEF Init, NewHandle
      <3>. QED BY <3>1, <3>2 DEF ConnInv, SavedByCommit, OutsideIsSaved
    <2>. QED BY <2>1, <2>2
  <1>2. ConnInv /\ QueryInv /\ [Next]_vars => ConnInv' /\ QueryInv'
    <2>1. ASSUME ConnInv, QueryInv, Next PROVE ConnInv' /\ QueryInv'
      BY <2>1, ConnStep, QueryStep
    <2>2. ASSUME ConnInv, QueryInv, UNCHANGED vars PROVE ConnInv' /\ QueryInv'
      <3>1. ConnInv'
        BY <2>2 DEF vars, connVars, ConnInv, ConnTypes, SavedByCommit, OutsideIsSaved
      <3>. QED BY <2>2, <3>1, QueryRests DEF vars, queryVars, QueryInv, QueryTypes
    <2>. QED BY <2>1, <2>2
  <1>. QED BY <1>1, <1>2, PTL DEF Spec

(* A change made in a transaction is saved by commit() only, and one made  *)
(* outside at once, whatever the calls in between and whichever of them    *)
(* fail.                                                                   *)
THEOREM TransactionsSafe == Spec => []TransactionsKept
  <1>1. ConnInv /\ QueryInv => TransactionsKept
    BY DEF ConnInv, QueryInv, TransactionsKept, TypeOK
  <1>. QED BY <1>1, OdbcSafe, PTL

(* An open connection has a session, and so has every statement handle the *)
(* query may still use, whichever calls fail.                              *)
THEOREM SessionSafe == Spec => []SessionBacked
  <1>1. Init => SessionBacked
    BY DEF Init, SessionBacked, Live
  <1>2. ConnInv /\ ConnInv' /\ SessionBacked /\ [Next]_vars => SessionBacked'
    <2>. SUFFICES ASSUME ConnInv, ConnInv', SessionBacked, [Next]_vars,
                         stmt' = "live"
                  PROVE  dbc'.connected
      BY DEF SessionBacked, Live, ConnInv
    <2>1. CASE stmt = "live" /\ dbc'.connected = dbc.connected
      BY <2>1 DEF SessionBacked, Live
    <2>2. CASE UNCHANGED vars
      BY <2>1, <2>2 DEF vars, connVars, queryVars
    <2>3. CASE close
      <3>1. PICK done \in Disconnects : dbc' = Closed(done) /\ SQLDisconnect(done)
        BY <2>3 DEF close
      <3>. QED BY <2>1, <3>1 DEF SQLDisconnect, Closed
    <2>4. CASE open
      <3>1. PICK done \in Disconnects : \E ok \in Tried(~Closed(done).connected) :
              dbc' = [Closed(done) EXCEPT !.connected = Closed(done).connected \/ ok]
              /\ SQLDisconnect(done)
        BY <2>4 DEF open
      <3>2. PICK ok \in Tried(~Closed(done).connected) :
              dbc' = [Closed(done) EXCEPT !.connected = Closed(done).connected \/ ok]
              /\ SQLDisconnect(done)
        BY <3>1
      <3>3. stmt = "live" /\ ~(is_open /\ done) /\ Closed(done) = dbc
        BY <3>2 DEF SQLDisconnect, Closed
      <3>4. dbc.connected /\ dbc \in [connected : BOOLEAN, autocommit : BOOLEAN,
                                    active : BOOLEAN, pending : SUBSET Changes]
        BY <3>3 DEF SessionBacked, Live, ConnInv, ConnTypes
      <3>5. dbc' = [dbc EXCEPT !.connected = dbc.connected \/ ok]
        BY <3>2, <3>3
      <3>. QED BY <3>4, <3>5
    <2>5. CASE Renew
      BY <2>5 DEF Renew, queryVars
    <2>6. CASE NewQuery
      BY <2>6 DEF NewQuery, Tried, connVars
    <2>7. CASE begin_transaction
      <3>1. stmt' = stmt /\ dbc'.connected = dbc.connected
        BY <2>7 DEF begin_transaction, queryVars, ConnInv, ConnTypes
      <3>. QED BY <2>1, <3>1
    <2>8. CASE commit \/ rollback
      <3>1. PICK n \in Calls, kept \in {{}, {"asked"}} : EndTransaction(kept, n) /\ Ended(n)
        BY <2>8 DEF commit, rollback
      <3>2. stmt' = stmt /\ dbc'.connected = dbc.connected
        BY <3>1 DEF EndTransaction, Ended, ConnInv, ConnTypes
      <3>. QED BY <2>1, <3>2
    <2>9. ASSUME NEW st, NEW returned \in BOOLEAN, Execute(st, returned)
          PROVE  dbc'.connected
      <3>1. stmt' = stmt /\ dbc'.connected = dbc.connected
        BY <2>9 DEF Execute, Perform, ConnInv, ConnTypes
      <3>. QED BY <2>1, <3>1
    <2>10. CASE execute \/ Flush \/ \E st \in Statements : ExecuteDirect(st)
      BY <2>9, <2>10 DEF execute, Flush, ExecuteDirect
    <2>11. CASE DeleteQuery \/ next \/ StreamOut
               \/ (\E st \in Statements : prepare(st))
               \/ (\E v \in Values \cup {Null} : StreamIn(v))
               \/ (\E n \in 0..1, v \in Values : set_parameter(n, v))
               \/ (\E n \in 0..(Cols - 1) : get_field(n))
      <3>1. dbc' = dbc /\ (stmt' = stmt \/ stmt' \in {"none", "looping"})
        BY <2>11 DEF DeleteQuery, next, StreamOut, prepare, StreamIn, set_parameter,
                     get_field, Field, FieldFails, Endless, connVars
      <3>. QED BY <2>1, <3>1
    <2>. QED BY <2>2, <2>3, <2>4, <2>5, <2>6, <2>7, <2>8, <2>10, <2>11 DEF Next
  <1>. QED BY <1>1, <1>2, OdbcSafe, PTL DEF Spec

(* Streamed values reach the parameters in their order, the n-th field     *)
(* read is the n-th column, and a text longer than the buffer is whole.    *)
THEOREM ValuesSafe == Spec => []ValuesInPlace
  <1>1. QueryInv => ValuesInPlace
    BY DEF QueryInv
  <1>. QED BY <1>1, OdbcSafe, PTL

=============================================================================
