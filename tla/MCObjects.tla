------------------------------ MODULE MCObjects ------------------------------
(* Small instances of the classes any, delegate and datetime and of the     *)
(* modes of a socket.  A behaviour exercises one of them, the one in use;   *)
(* the others rest.                                                         *)
EXTENDS Handles, Datetime, SocketMode

VARIABLE use

(* A year of a winter and a summer month, and the last day of each.        *)
Calendar == <<3, 2>>
Moment(y, m, d) ==
  [year |-> y, month |-> m, day |-> d, hour |-> 1, minute |-> 0, second |-> 1, isdst |-> m = 2]
LastDays == {Moment(1, 1, 3), Moment(1, 2, 2)}
FieldValues ==
  [f \in TimeFields |-> CASE f = "year" -> {2} [] f = "month" -> {2, 3} [] f = "day" -> {3}
                      [] f = "hour" -> {2} [] f = "minute" -> {0} [] f = "second" -> {2}]

ObjectsInit ==
  /\ use \in {"any", "delegates", "datetime", "sockets"}
  /\ AnyInit /\ DelegateInit /\ TimeInit /\ FdInit
  /\ use # "delegates" => build = [how |-> CHOOSE b \in Builds : TRUE, arity |-> CHOOSE n \in Arities : TRUE]
  /\ use # "datetime" => time = [th \in TimeThreads |-> mktime(Moment(1, 1, 3))]
  /\ use # "sockets" => fd.system = (CHOOSE s \in Systems : TRUE) /\ fd.flags

objectVars == <<use, anyVars, delegateVars, timeVars, fd>>

ObjectsNext ==
  /\ UNCHANGED use
  /\ \/ use = "any" /\ AnyNext /\ UNCHANGED <<delegateVars, timeVars, fd>>
     \/ use = "delegates" /\ DelegateNext /\ UNCHANGED <<anyVars, timeVars, fd>>
     \/ use = "datetime" /\ TimeNext /\ UNCHANGED <<anyVars, delegateVars, fd>>
     \/ use = "sockets" /\ FdNext /\ UNCHANGED <<anyVars, delegateVars, timeVars>>

-----------------------------------------------------------------------------
=============================================================================
