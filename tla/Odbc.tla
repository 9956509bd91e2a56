-------------------------------- MODULE Odbc --------------------------------
(***************************************************************************)
(* The database client: dbp::odbc::connection (src/dcl/connection.cpp) and *)
(* dbp::odbc::query (src/dcl/query.cpp), one object of each, used by one   *)
(* thread that may call any method at any time and goes on after an        *)
(* exception.  A method is one action; one that throws keeps what it had   *)
(* changed before.                                                         *)
(*                                                                         *)
(* The driver manager and the database are external: dbc is what SQLConnect *)
(* and the other functions make of the connection handle.  A connection    *)
(* with a transaction under way can not be disconnected, a disconnected    *)
(* one loses its statements, and any call may fail (DriverMayFail).        *)
(***************************************************************************)
EXTENDS Integers, Sequences

CONSTANTS
  Values,          \* values of parameters
  Rows,            \* rows of a result set
  Lens,            \* Lens[c]: the length of the text in column c, or NULL
  BufSize,         \* buf_size of get_field()
  MaxFields,       \* bound: length of _fields
  DriverMayFail    \* may calls of the driver fail?

SQL_NULL_DATA == -1   \* the length of a NULL

ASSUME OdbcAssumption ==
  /\ Rows \in Nat /\ BufSize \in Nat \ {0}
  /\ Lens \in Seq(Nat \cup {SQL_NULL_DATA})
  /\ MaxFields \in Nat
  /\ DriverMayFail \in BOOLEAN

Null == "null"    \* an empty value, which is bound as NULL
Cols == Len(Lens)

(* The statements the program prepares: their markers and their columns.   *)
Statements ==
  { [kind |-> "insert", prms |-> 2, cols |-> 0],
    [kind |-> "select", prms |-> 0, cols |-> Cols] }

NoStatement == [kind |-> "none", prms |-> 0, cols |-> 0]

VARIABLES
  is_open,      \* _is_open
  dbc,          \* the connection handle, as the driver sees it
  stmt,         \* the query: "none", or its statement handle "live", "freed",
                \* or "looping" in a get_field() that never returns
  prepared,     \* the prepared statement
  parameters,   \* _parameters, their values
  prmcnt,       \* _prmcnt
  fldcnt,       \* _fldcnt
  fields,       \* _fields, their numbers
  cursor,       \* the result set: its columns, the current row, what was read
  saved,        \* the changes the last call made the database save
  began,        \* history: a begin_transaction() is to be ended
  use           \* history: what the program wrote and read; see NoUse

connVars  == <<is_open, dbc>>
queryVars == <<stmt, prepared, parameters, prmcnt, fldcnt, fields, cursor>>
vars == <<connVars, queryVars, saved, began, use>>

(* A change is known by how it was made and what became of it: "outside"   *)
(* any transaction, "inside" one, or there and commit() was called since.  *)
Changes == {"outside", "inside", "asked"}

NewHandle ==
  [connected |-> FALSE, autocommit |-> TRUE, active |-> FALSE, pending |-> {}]

(* The text of a column, and what the driver has given of a column when it *)
(* has told the end: the text and one more.                                *)
Whole(c) == IF Lens[c] = SQL_NULL_DATA THEN 0 ELSE Lens[c]
Told(c)  == Whole(c) + 1

NothingGot == [c \in 1..Cols |-> 0]

NoCursor == [cols |-> 0, row |-> 0, got |-> NothingGot]

(* Nothing was read since next().                                          *)
NoRead == [nth |-> 0, col |-> 1, first |-> FALSE, len |-> 0]

(* The history of a query that was not used; what it says of a flush or a  *)
(* read is forgotten at the next one.                                      *)
NoUse == [streamed |-> <<>>, \* values given with << since the last flush
          mixed |-> FALSE,   \* set_parameter() was called as well
          row |-> <<>>,      \* values of the last flush,
          wanted |-> <<>>,   \* and those the program gave
          nth |-> 0,         \* fields read with >> since next()
          read |-> NoRead]   \* the field read last

NothingSaved == saved' = {}

Init ==
  /\ is_open = FALSE /\ dbc = NewHandle
  /\ stmt = "none" /\ prepared = NoStatement /\ parameters = <<>>
  /\ prmcnt = 0 /\ fldcnt = 0 /\ fields = <<>> /\ cursor = NoCursor
  /\ saved = {}
  /\ began = FALSE
  /\ use = NoUse

(* Outcomes of a call that would succeed, when ok, and may always fail.    *)
Tried(ok) == {ok} \cup (IF DriverMayFail THEN {FALSE} ELSE {})

(* Definitions named Fault_... are mutations of the definition that follows *)
(* them; no specification uses them.                                       *)

-----------------------------------------------------------------------------
(* connection                                                              *)

(* SQLDisconnect fails while a transaction is active, and may fail anyway. *)
Disconnects == Tried(~dbc.active)

(* close() disconnects an open connection; whether SQLDisconnect does so,  *)
(* done, is not looked at.  The statement handles go with the connection,  *)
(* the attributes of the handle stay.                                      *)
Closed(done) ==
  IF is_open /\ done THEN [dbc EXCEPT !.connected = FALSE] ELSE dbc

SQLDisconnect(done) ==
  /\ stmt' = IF is_open /\ done /\ stmt = "live" THEN "freed" ELSE stmt
  /\ cursor' = IF is_open /\ done THEN NoCursor ELSE cursor

(* One thread: while it is in an endless loop it does nothing else.        *)
Running == stmt # "looping"

close ==
  /\ Running
  /\ is_open' = FALSE
  /\ \E done \in Disconnects : dbc' = Closed(done) /\ SQLDisconnect(done)
  /\ NothingSaved
  /\ UNCHANGED <<prepared, parameters, prmcnt, fldcnt, fields, began, use>>

(* Fault: _is_open is set before the driver is asked. *)
Fault_open ==
  /\ Running
  /\ is_open' = TRUE
  /\ \E done \in Disconnects :
       /\ \E ok \in Tried(~Closed(done).connected) :
            dbc' = [Closed(done) EXCEPT !.connected = @ \/ ok]
       /\ SQLDisconnect(done)
  /\ NothingSaved
  /\ UNCHANGED <<prepared, parameters, prmcnt, fldcnt, fields, began, use>>

(* Both forms of open(): the handle must not be connected.                 *)
open ==
  /\ Running
  /\ \E done \in Disconnects :
       /\ \E ok \in Tried(~Closed(done).connected) :
            /\ is_open' = ok
            /\ dbc' = [Closed(done) EXCEPT !.connected = @ \/ ok]
       /\ SQLDisconnect(done)
  /\ NothingSaved
  /\ UNCHANGED <<prepared, parameters, prmcnt, fldcnt, fields, began, use>>

(* ~connection(), after that of its queries, and the construction of       *)
(* another one.  A handle that close() left connected is not freed: the    *)
(* session stays, and nothing refers to it any more.                       *)
Renew ==
  /\ stmt = "none"
  /\ is_open' = FALSE
  /\ dbc' = NewHandle
  /\ began' = FALSE
  /\ NothingSaved
  /\ UNCHANGED <<queryVars, use>>

(* The isolation level can not be set in a transaction.                    *)
begin_transaction ==
  /\ Running
  /\ \E ok \in Tried(~dbc.active) :
       /\ dbc' = [dbc EXCEPT !.autocommit = @ /\ ~ok]
       /\ began' = (began \/ ok)
  /\ NothingSaved
  /\ UNCHANGED <<is_open, queryVars, use>>

(* SQLEndTran and the return to autocommit: how many of the two succeed.   *)
Calls == IF DriverMayFail /\ dbc.connected THEN 0..2
         ELSE {IF dbc.connected THEN 2 ELSE 0}

(* Fault: autocommit is turned on first, which commits. *)
Fault_EndTransaction(kept, n) ==
  /\ dbc' = IF n = 0 THEN dbc
            ELSE [dbc EXCEPT !.active = FALSE, !.pending = {}, !.autocommit = TRUE]
  /\ saved' = IF n > 0 THEN dbc.pending ELSE {}

(* The changes kept are saved, the other pending ones are undone.          *)
EndTransaction(kept, n) ==
  /\ dbc' = IF n = 0 THEN [dbc EXCEPT !.pending = IF kept = {} THEN @ ELSE kept]
            ELSE [dbc EXCEPT !.active = FALSE, !.pending = {},
                             !.autocommit = @ \/ n = 2]
  /\ saved' = IF n > 0 THEN kept ELSE {}

(* The program gets an exception unless both calls succeed.  The driver    *)
(* keeps cursors open over the end of a transaction or not.                *)
Ended(n) ==
  /\ Running
  /\ began' = (began /\ n < 2)
  /\ cursor' \in IF n = 0 THEN {cursor} ELSE {cursor, NoCursor}
  /\ UNCHANGED <<is_open, stmt, prepared, parameters, prmcnt, fldcnt, fields, use>>

commit ==
  \E n \in Calls :
    /\ EndTransaction(IF dbc.pending = {} THEN {} ELSE {"asked"}, n)
    /\ Ended(n)

rollback == \E n \in Calls : EndTransaction({}, n) /\ Ended(n)

-----------------------------------------------------------------------------
(* query                                                                   *)

Live == stmt = "live"

(* The constructor throws when there is no connection.                     *)
NewQuery ==
  /\ stmt = "none"
  /\ \E ok \in Tried(dbc.connected) : stmt' = IF ok THEN "live" ELSE "none"
  /\ NothingSaved
  /\ UNCHANGED <<connVars, prepared, parameters, prmcnt, fldcnt, fields,
                 cursor, began, use>>

DeleteQuery ==
  /\ stmt \in {"live", "freed"}
  /\ stmt' = "none" /\ prepared' = NoStatement /\ parameters' = <<>>
  /\ prmcnt' = 0 /\ fldcnt' = 0 /\ fields' = <<>> /\ cursor' = NoCursor
  /\ use' = NoUse
  /\ NothingSaved
  /\ UNCHANGED <<connVars, began>>

(* parse() replaces the parameters before the driver is asked, and _prmcnt *)
(* stays.  A statement with an open cursor can not be prepared again.      *)
prepare(st) ==
  /\ stmt \in {"live", "freed"}
  /\ parameters' = [n \in 1..st.prms |-> Null]
  /\ \E ok \in Tried(Live /\ cursor = NoCursor) :
       prepared' = IF ok THEN st
                   ELSE IF cursor = NoCursor THEN NoStatement ELSE prepared
  /\ use' = [use EXCEPT !.streamed = <<>>, !.mixed = FALSE, !.row = <<>>,
                        !.wanted = <<>>, !.read = NoRead]
  /\ NothingSaved
  /\ UNCHANGED <<connVars, stmt, prmcnt, fldcnt, fields, cursor, began>>

(* What the driver does with a statement: a change is saved at once or     *)
(* with the transaction.                                                   *)
Perform(st) ==
  LET new == IF st.kind # "insert" THEN {}
             ELSE {IF began THEN "inside" ELSE "outside"}
  IN /\ saved' = IF dbc.autocommit THEN new ELSE {}
     /\ dbc' = IF dbc.autocommit THEN dbc
               ELSE [dbc EXCEPT !.active = TRUE, !.pending = @ \cup new]
     /\ cursor' = [NoCursor EXCEPT !.cols = st.cols]

(* retrieve_metadata() for the first n columns: they are appended.         *)
retrieve_metadata(n) == fields' = fields \o [k \in 1..n |-> k - 1]

(* The cursor is closed and st executed.  An exception leaves it before or *)
(* after the statement has run; returned says whether there was none.      *)
Execute(st, returned) ==
  LET can == Live /\ st # NoStatement
  IN /\ stmt \in {"live", "freed"}
     /\ Len(fields) + st.cols <= MaxFields
     /\ \/ /\ returned /\ can
           /\ Perform(st)
           /\ retrieve_metadata(st.cols)
        \/ /\ ~returned /\ can /\ DriverMayFail
           /\ Perform(st)
           /\ \E n \in 0..st.cols : retrieve_metadata(n)
        \/ /\ ~returned /\ (~can \/ DriverMayFail)
           /\ cursor' = NoCursor
           /\ NothingSaved
           /\ UNCHANGED <<dbc, fields>>
     /\ UNCHANGED <<is_open, stmt, parameters, fldcnt, began>>

execute ==
  /\ \E returned \in BOOLEAN : Execute(prepared, returned)
  /\ UNCHANGED <<prepared, prmcnt, use>>

(* execute(statement), without parameters: nothing is prepared afterwards. *)
ExecuteDirect(st) ==
  /\ \E returned \in BOOLEAN : Execute(st, returned)
  /\ prepared' = NoStatement
  /\ UNCHANGED <<prmcnt, use>>

(* set_parameter(n, v); v may be empty.                                    *)
set_parameter(n, v) ==
  /\ Running
  /\ n < Len(parameters)
  /\ parameters' = [parameters EXCEPT ![n + 1] = v]
  /\ use' = [use EXCEPT !.mixed = TRUE]
  /\ NothingSaved
  /\ UNCHANGED <<connVars, stmt, prepared, prmcnt, fldcnt, fields, cursor,
                 began>>

(* Fault: the counter is not advanced. *)
Fault_StreamIn(v) ==
  /\ stmt \in {"live", "freed"}
  /\ prmcnt < Len(parameters) /\ Len(use.streamed) < Len(parameters)
  /\ parameters' = [parameters EXCEPT ![prmcnt + 1] = v]
  /\ use' = [use EXCEPT !.streamed = Append(@, v), !.row = <<>>,
                        !.wanted = <<>>, !.read = NoRead]
  /\ NothingSaved
  /\ UNCHANGED <<connVars, stmt, prepared, prmcnt, fldcnt, fields, cursor,
                 began>>

(* q << v; at() throws and changes nothing when there are no more.         *)
StreamIn(v) ==
  /\ stmt \in {"live", "freed"}
  /\ prmcnt < Len(parameters)
  /\ parameters' = [parameters EXCEPT ![prmcnt + 1] = v]
  /\ prmcnt' = prmcnt + 1
  /\ use' = [use EXCEPT !.streamed = Append(@, v), !.row = <<>>,
                        !.wanted = <<>>, !.read = NoRead]
  /\ NothingSaved
  /\ UNCHANGED <<connVars, stmt, prepared, fldcnt, fields, cursor, began>>

(* q << query::flush(): execute(), and the counter starts again, unless    *)
(* there was an exception.                                                 *)
Flush ==
  /\ \E returned \in BOOLEAN :
       /\ Execute(prepared, returned)
       /\ prmcnt' = IF returned THEN 0 ELSE prmcnt
  /\ use' = [use EXCEPT !.streamed = <<>>, !.mixed = FALSE, !.read = NoRead,
                        !.row = parameters,
                        !.wanted = IF ~use.mixed /\ Len(use.streamed) = Len(parameters)
                                     THEN use.streamed ELSE parameters]
  /\ UNCHANGED prepared

(* next(): a row, the end (the row after the last), an exception, which    *)
(* may have lost a row, or no cursor at all.                               *)
next ==
  /\ stmt \in {"live", "freed"}
  /\ fldcnt' = 0
  /\ LET more == Live /\ cursor # NoCursor /\ cursor.row <= Rows
         moved == [cursor EXCEPT !.row = @ + 1, !.got = NothingGot]
     IN cursor' \in (IF more THEN {moved} ELSE {cursor})
                    \cup (IF DriverMayFail THEN {cursor} ELSE {})
  /\ use' = [use EXCEPT !.nth = 0, !.read = NoRead, !.row = <<>>,
                        !.wanted = <<>>]
  /\ NothingSaved
  /\ UNCHANGED <<connVars, stmt, prepared, parameters, prmcnt, fields, began>>

(* get_field(): what one SQLGetData adds to the value when size is left.   *)
(* The stream takes no negative count: a NULL is read as an empty value.   *)
Chunk(size) ==
  IF size > BufSize THEN BufSize ELSE IF size = SQL_NULL_DATA THEN 0 ELSE size

(* The length of the value the loop puts together from a text of length n. *)
Gathered(n) ==
  LET g[left \in 0..n] ==
        IF left <= BufSize THEN Chunk(left) ELSE Chunk(left) + g[left - BufSize]
  IN g[n]

(* The same for column c when the driver has given the first got of it.    *)
Value(c, got) ==
  IF got = Told(c) THEN 0
  ELSE IF Lens[c] = SQL_NULL_DATA THEN Chunk(SQL_NULL_DATA)
  ELSE Gathered(Lens[c] - got)

(* The current row has a column n + 1.                                     *)
HasField(n) == cursor.row \in 1..Rows /\ n < cursor.cols

(* Column n + 1 is read to its end; nth counts it among those read by >>.  *)
Field(n, nth) ==
  /\ Live /\ HasField(n)
  /\ cursor' = [cursor EXCEPT !.got[n + 1] = Told(n + 1)]
  /\ use' = [use EXCEPT !.nth = IF nth > 0 THEN nth ELSE @,
               !.read = [nth |-> nth, col |-> n + 1,
                         first |-> cursor.got[n + 1] = 0,
                         len |-> Value(n + 1, cursor.got[n + 1])]]
  /\ UNCHANGED stmt

(* SQLGetData fails: at once when there is no such field, or after some    *)
(* whole buffers, which are dropped with the exception and which the       *)
(* driver does not give again.                                             *)
CutAt(n) ==
  {got \in cursor.got[n + 1]..Whole(n + 1) :
     got < Lens[n + 1] /\ (got - cursor.got[n + 1]) % BufSize = 0}

FieldFails(n) ==
  /\ Live
  /\ \/ UNCHANGED cursor /\ (DriverMayFail \/ ~HasField(n))
     \/ /\ DriverMayFail /\ HasField(n)
        /\ \E got \in CutAt(n) : cursor' = [cursor EXCEPT !.got[n + 1] = got]
  /\ use' = [use EXCEPT !.read = NoRead]
  /\ UNCHANGED stmt

(* SQLGetData of a freed handle is neither success, error nor end of data: *)
(* the loop goes on for ever.                                              *)
Endless ==
  /\ stmt = "freed"
  /\ stmt' = "looping"
  /\ UNCHANGED <<cursor, use>>

get_field(n) ==
  /\ Field(n, 0) \/ FieldFails(n) \/ Endless
  /\ NothingSaved
  /\ UNCHANGED <<connVars, prepared, parameters, prmcnt, fldcnt, fields, began>>

(* q >> v                                                                  *)
StreamOut ==
  /\ \/ Field(fldcnt, use.nth + 1) /\ fldcnt' = fldcnt + 1
     \/ (FieldFails(fldcnt) \/ Endless) /\ UNCHANGED fldcnt
  /\ NothingSaved
  /\ UNCHANGED <<connVars, prepared, parameters, prmcnt, fields, began>>

-----------------------------------------------------------------------------
Next ==
  \/ open \/ close \/ Renew
  \/ begin_transaction \/ commit \/ rollback
  \/ NewQuery \/ DeleteQuery
  \/ \E st \in Statements : prepare(st) \/ ExecuteDirect(st)
  \/ execute \/ Flush \/ next \/ StreamOut
  \/ \E v \in Values \cup {Null} : StreamIn(v)
  \/ \E n \in 0..1, v \in Values : set_parameter(n, v)
  \/ \E n \in 0..(Cols - 1) : get_field(n)

Spec == Init /\ [][Next]_vars

-----------------------------------------------------------------------------
(* The values the variables take.                                          *)
ConnTypes ==
  /\ is_open \in BOOLEAN
  /\ dbc \in [connected : BOOLEAN, autocommit : BOOLEAN, active : BOOLEAN,
              pending : SUBSET Changes]
  /\ began \in BOOLEAN
  /\ saved \subseteq Changes

Offsets ==
  {got \in [1..Cols -> Nat] : \A c \in 1..Cols : got[c] <= Told(c)}

QueryTypes ==
  /\ stmt \in {"none", "live", "freed", "looping"}
  /\ prepared \in Statements \cup {NoStatement}
  /\ parameters \in Seq(Values \cup {Null})
  /\ prmcnt \in Nat /\ fldcnt \in Nat
  /\ fields \in Seq(Nat)
  /\ cursor \in [cols : {0, Cols}, row : 0..(Rows + 1), got : Offsets]

UseTypes ==
  use \in [streamed : Seq(Values \cup {Null}), mixed : BOOLEAN,
           row : Seq(Values \cup {Null}), wanted : Seq(Values \cup {Null}),
           nth : Nat,
           read : [nth : Nat, col : Nat, first : BOOLEAN, len : Nat]]

TypeOK == ConnTypes /\ QueryTypes /\ UseTypes

(* connection.h, commit(): "Save changes since last begin_transaction      *)
(* call".  Such a change is in the database only if commit() was called    *)
(* for it: not by rollback(), close(), a failed call or a second begin.    *)
SavedByCommit == "inside" \notin saved

(* connection.h: "After commiting the transaction the autocommit mode is   *)
(* turning on", and the same for rollback().  A change made outside any    *)
(* transaction does not wait for a commit nobody will call.                *)
OutsideIsSaved == "outside" \notin dbc.pending

(* A change is saved when it was to be, and by nothing else.               *)
TransactionsKept == TypeOK /\ SavedByCommit /\ OutsideIsSaved

(* connection.h, is_open(): a connection that says it is open has a        *)
(* session; and a statement handle the query will use belongs to one, so   *)
(* that no call reaches the driver with a handle it has freed unless       *)
(* close() or open() was called behind the query's back.                   *)
SessionBacked == (is_open => dbc.connected) /\ (Live => dbc.connected)

(* include/dcl/connection.h:95, close(): "Closes the connection to the     *)
(* database."                                                              *)
ClosedIsDisconnected == ~is_open => ~dbc.connected

(* query.h, operator<<: when the program has given as many values as the   *)
(* statement has parameters, without an exception, flush executes it with  *)
(* these values in this order, whatever was prepared, flushed or failed    *)
(* before.                                                                 *)
RowAsStreamed == use.row = use.wanted

(* query.h, operator>>: the n-th field read after next() is the n-th       *)
(* column of the row, whichever calls failed in between, and a field the   *)
(* driver has given nothing of before is read whole, also when it does not *)
(* fit into the buffer or is NULL.                                         *)
ReadAsStored ==
  /\ use.read.nth > 0 => use.read.col = use.read.nth
  /\ use.read.first => use.read.len = Whole(use.read.col)

(* Values go to the parameters and come from the columns they belong to.   *)
ValuesInPlace == RowAsStreamed /\ ReadAsStored

-----------------------------------------------------------------------------
(* The inductive invariants.  Of the connection: autocommit is off exactly *)
(* while the program is in a transaction.                                  *)
ConnInv ==
  /\ ConnTypes
  /\ began <=> ~dbc.autocommit
  /\ SavedByCommit /\ OutsideIsSaved
  /\ is_open => dbc.connected

(* The values given with << since the last flush are the last ones before  *)
(* _prmcnt, in their order; _prmcnt itself need not start at 0, and may be *)
(* past the end when the statement was prepared again.                     *)
StreamedInPlace ==
  ~use.mixed =>
    LET k == Len(use.streamed)
    IN /\ k <= prmcnt
       /\ k > 0 => prmcnt <= Len(parameters)
       /\ \A n \in 1..k : use.streamed[n] = parameters[prmcnt - k + n]

(* Of the query: besides, _fldcnt counts the fields read with >>.          *)
QueryInv ==
  /\ QueryTypes /\ UseTypes
  /\ StreamedInPlace
  /\ use.nth = fldcnt
  /\ ValuesInPlace

=============================================================================
