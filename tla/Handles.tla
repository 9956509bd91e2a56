------------------------------- MODULE Handles -------------------------------
(***************************************************************************)
(* The two classes through which the library holds what it does not know:  *)
(* any, which owns a value of some type, and the delegates, which refer to  *)
(* a method of an object or to a function.  A delegate has two             *)
(* implementations; the one with the function in the place of the object is *)
(* what is compiled, the other one the standard-compliant alternative.      *)
(***************************************************************************)
EXTENDS Integers, Sequences, FiniteSets

CONSTANTS Anys, MaxImpls,                \* any objects, room for their values
          Delegates, Targets, Methods, Functions,
          Builds,                        \* subset of {"hack", "safe"}
          Arities,                       \* subset of 0..8
          Null, Absent                   \* a null pointer, freed memory; no object

VARIABLES any,       \* object -> Absent, Null or the place of its value
          heap,      \* place -> Null, when free, or the value there
          stored,    \* object -> the value last put there
          anyLog,    \* undefined behaviour; an assignment to itself or a failed one
          memento,   \* delegate -> m_pthis, m_pFunction, m_pStaticFunction
          build,     \* which implementation, and for how many parameters
          bound      \* delegate -> what it was last bound to, and whether to 0

anyVars == <<any, heap, stored, anyLog>>
delegateVars == <<memento, build, bound>>

Places == 1..MaxImpls

-----------------------------------------------------------------------------
(* Values: an int, a string, and a bool, which stands for the types of the
   generic conversions, as these may throw.  Of a string only the number it
   begins with matters: "x" has none.                                      *)
Value(type, value) == <<type, value>>
TypeOf(v) == v[1]
Given == {Value("int", 0), Value("int", 2), Value("string", "01"), Value("string", "x"), Value("bool", TRUE)}
Types == {"int", "string", "bool"}

to_string(v) ==
  CASE TypeOf(v) = "string" -> v[2]
    [] TypeOf(v) = "int"  -> (CASE v[2] = 0 -> "0" [] v[2] = 1 -> "1" [] v[2] = 2 -> "2")
    [] TypeOf(v) = "bool" -> IF v[2] THEN "1" ELSE "0"
number(text) == CASE text \in {"0", "x"} -> 0 [] text \in {"1", "01"} -> 1 [] text = "2" -> 2

(* from_string<T>(): only a 0 or a 1 can be read as a bool.                *)
Throws(text, type) == type = "bool" /\ text \notin {"0", "1", "01"}
from_string(text, type) ==
  Value(type, CASE type = "string" -> text [] type = "int" -> number(text)
                [] type = "bool" -> number(text) = 1)

-----------------------------------------------------------------------------
Exists(a) == any[a] # Absent
Room == { p \in Places : heap[p] = Null }
Lowest(places) == CHOOSE p \in places : \A q \in places : p <= q
Holds(a) == any[a] \in Places /\ heap[any[a]] # Null
Sane(a) == Exists(a) /\ (any[a] # Null => heap[any[a]] # Null)
Without(a) == [p \in Places |-> IF p = any[a] THEN Null ELSE heap[p]]

AnyInit ==
  /\ any = [a \in Anys |-> Absent]
  /\ heap = [p \in Places |-> Null]
  /\ stored = [a \in Anys |-> Null]
  /\ anyLog = [undefined |-> FALSE, careless |-> FALSE]

(* any(), and any(const T&)                                                *)
Construct(a) ==
  /\ ~Exists(a)
  /\ any' = [any EXCEPT ![a] = Null]
  /\ stored' = [stored EXCEPT ![a] = Null]
  /\ UNCHANGED <<heap, anyLog>>
ConstructOf(a, v) ==
  /\ ~Exists(a) /\ Room # {}
  /\ any' = [any EXCEPT ![a] = Lowest(Room)]
  /\ heap' = [heap EXCEPT ![Lowest(Room)] = v]
  /\ stored' = [stored EXCEPT ![a] = v]
  /\ UNCHANGED anyLog

(* any(const any&); a copy of a value that throws leaves no object.        *)
ConstructCopy(a, other) ==
  /\ ~Exists(a) /\ Sane(other)
  /\ IF any[other] = Null
     THEN /\ any' = [any EXCEPT ![a] = Null] /\ UNCHANGED heap
     ELSE /\ Room # {}
          /\ any' = [any EXCEPT ![a] = Lowest(Room)]
          /\ heap' = [heap EXCEPT ![Lowest(Room)] = heap[any[other]]]
  /\ stored' = [stored EXCEPT ![a] = stored[other]]
  /\ UNCHANGED anyLog

(* operator=: the own value is deleted before the other is copied.          *)
AssignAny(a, other) ==
  /\ a # other /\ Sane(a) /\ Sane(other)
  /\ LET rest == Without(a)
         room == { p \in Places : rest[p] = Null } IN
     IF any[other] = Null
     THEN /\ any' = [any EXCEPT ![a] = Null] /\ heap' = rest
     ELSE /\ room # {}
          /\ any' = [any EXCEPT ![a] = Lowest(room)]
          /\ heap' = [rest EXCEPT ![Lowest(room)] = heap[any[other]]]
  /\ stored' = [stored EXCEPT ![a] = stored[other]]
  /\ UNCHANGED anyLog

(* The copy throws: the pointer to the deleted value stays.                *)
AssignFails(a, other) ==
  /\ a # other /\ Sane(a) /\ Holds(other)
  /\ heap' = Without(a)
  /\ anyLog' = [anyLog EXCEPT !.careless = TRUE]
  /\ UNCHANGED <<any, stored>>

(* Onto itself: the value is copied after it was deleted.                  *)
AssignItself(a) ==
  /\ Holds(a)
  /\ anyLog' = [undefined |-> TRUE, careless |-> TRUE]
  /\ UNCHANGED <<any, heap, stored>>

(* Whatever follows the pointer to a deleted value.                        *)
UseFreed(a) ==
  /\ Exists(a) /\ ~Sane(a)
  /\ anyLog' = [anyLog EXCEPT !.undefined = TRUE]
  /\ UNCHANGED <<any, heap, stored>>

Clear(a) ==
  /\ Sane(a)
  /\ any' = [any EXCEPT ![a] = Null] /\ heap' = Without(a)
  /\ stored' = [stored EXCEPT ![a] = Null]
  /\ UNCHANGED anyLog

DestroyAny(a) ==
  /\ Sane(a)
  /\ any' = [any EXCEPT ![a] = Absent] /\ heap' = Without(a)
  /\ stored' = [stored EXCEPT ![a] = Null]
  /\ UNCHANGED anyLog


(* cast<T>(): the value becomes one of the other type for good, made of its
   string; when that throws the any keeps what it had.                     *)
cast(a, type) ==
  /\ Holds(a) /\ TypeOf(heap[any[a]]) # type
  /\ LET text == to_string(heap[any[a]]) IN
     IF Throws(text, type) THEN UNCHANGED <<any, heap>>
     ELSE /\ Room # {}
          /\ any' = [any EXCEPT ![a] = Lowest(Room)]
          /\ heap' = [Without(a) EXCEPT ![Lowest(Room)] = from_string(text, type)]
  /\ UNCHANGED <<stored, anyLog>>

(* operator==: the right value is converted to the type of the left one.   *)
equal(a, b) ==
  \/ any[a] = Null /\ any[b] = Null
  \/ /\ Holds(a) /\ Holds(b)
     /\ LET text == to_string(heap[any[b]])
            type == TypeOf(heap[any[a]])
        IN ~Throws(text, type) /\ from_string(text, type) = heap[any[a]]

AnyNext ==
  /\ ~anyLog.undefined
  /\ \/ \E a \in Anys : Construct(a) \/ AssignItself(a) \/ UseFreed(a) \/ Clear(a) \/ DestroyAny(a)
     \/ \E a \in Anys, v \in Given : ConstructOf(a, v)
     \/ \E a, b \in Anys : ConstructCopy(a, b) \/ AssignAny(a, b) \/ AssignFails(a, b)
     \/ \E a \in Anys, type \in Types : cast(a, type)

-----------------------------------------------------------------------------
(* Delegates                                                               *)
Invoker == "InvokeStaticFunction"

(* The class of each number of parameters is written out by hand.  What operator()
   passes on to the method, and InvokeStaticFunction() to the function.    *)
delegate0 == [call |-> <<>>, invoker |-> <<>>]
delegate1 == [call |-> <<1>>, invoker |-> <<1>>]
delegate2 == [call |-> <<1, 2>>, invoker |-> <<1, 2>>]
delegate3 == [call |-> <<1, 2, 3>>, invoker |-> <<1, 2, 3>>]
delegate4 == [call |-> <<1, 2, 3, 4>>, invoker |-> <<1, 2, 3, 4>>]
delegate5 == [call |-> <<1, 2, 3, 4, 5>>, invoker |-> <<1, 2, 3, 4, 5>>]
delegate6 == [call |-> <<1, 2, 3, 4, 5, 6>>, invoker |-> <<1, 2, 3, 4, 5, 6>>]
delegate7 == [call |-> <<1, 2, 3, 4, 5, 6, 7>>, invoker |-> <<1, 2, 3, 4, 5, 6, 7>>]
delegate8 == [call |-> <<1, 2, 3, 4, 5, 6, 7, 8>>, invoker |-> <<1, 2, 3, 4, 5, 6, 7, 8>>]
Class(n) ==
  <<delegate0, delegate1, delegate2, delegate3, delegate4, delegate5, delegate6, delegate7, delegate8>>[n + 1]
Pass(params, args) == [i \in DOMAIN params |-> args[params[i]]]

EmptyMemento == [pthis |-> Null, pfunction |-> Null, pstatic |-> Null]

DelegateInit ==
  /\ memento = [d \in Delegates |-> EmptyMemento]
  /\ build \in [how: Builds, arity: Arities]
  /\ bound = [d \in Delegates |-> [to |-> Null, zero |-> FALSE]]

bindmemfunc(this, function) == [pthis |-> this, pfunction |-> function, pstatic |-> Null]

(* The function goes next to a reference of the delegate to itself...      *)
bindstaticfunc_safe(d, f) ==
  IF f = Null THEN [memento[d] EXCEPT !.pfunction = Null, !.pstatic = Null]
  ELSE [bindmemfunc(d, Invoker) EXCEPT !.pstatic = f]
(* ...or into the pointer to the object.                                   *)
bindstaticfunc_hack(d, f) ==
  [memento[d] EXCEPT !.pthis = f, !.pfunction = IF f = Null THEN Null ELSE Invoker]

(* A reference of the source to itself becomes one of the copy.            *)
CopyFrom_safe(d, x) ==
  IF memento[x].pstatic # Null THEN [memento[x] EXCEPT !.pthis = d] ELSE memento[x]
CopyFrom_hack(d, x) == memento[x]

Rebound(d, m, to, zero) ==
  /\ memento' = [memento EXCEPT ![d] = m]
  /\ bound' = [bound EXCEPT ![d] = [to |-> to, zero |-> zero]]
  /\ UNCHANGED build

BindMethod(d, object, method) == Rebound(d, bindmemfunc(object, method), <<object, method>>, FALSE)
BindFunction(d, f) ==
  Rebound(d, IF build.how = "hack" THEN bindstaticfunc_hack(d, f) ELSE bindstaticfunc_safe(d, f),
          f, f = Null)
CopyDelegate(d, x) ==
  Rebound(d, IF build.how = "hack" THEN CopyFrom_hack(d, x) ELSE CopyFrom_safe(d, x),
          bound[x].to, bound[x].zero)
ClearDelegate(d) == Rebound(d, EmptyMemento, Null, FALSE)

DelegateNext ==
  \/ \E d \in Delegates : ClearDelegate(d)
  \/ \E d, x \in Delegates : CopyDelegate(d, x)
  \/ \E d \in Delegates, f \in Functions \cup {Null} : BindFunction(d, f)
  \/ \E d \in Delegates, object \in Targets, method \in Methods : BindMethod(d, object, method)

empty(d) == memento[d].pthis = Null /\ memento[d].pfunction = Null

IsEqual_safe(m, x) ==
  /\ m.pfunction = x.pfunction /\ m.pstatic = x.pstatic
  /\ m.pstatic # Null => m.pthis = x.pthis
IsEqual_hack(m, x) == m.pthis = x.pthis /\ m.pfunction = x.pfunction

(* GetStaticFunction() of the closure at this: in the hack it returns this. *)
GetStaticFunction(this) ==
  IF build.how = "hack" THEN this ELSE memento[this].pstatic

(* operator(): what is called, nothing at all through a null pointer.      *)
Invoked(d) ==
  CASE memento[d].pfunction = Null    -> Null
    [] memento[d].pfunction = Invoker -> GetStaticFunction(memento[d].pthis)
    [] OTHER -> <<memento[d].pthis, memento[d].pfunction>>

(* The arguments its target gets.                                          *)
Received(d, args) ==
  LET passed == Pass(Class(build.arity).call, args)
  IN IF memento[d].pfunction = Invoker THEN Pass(Class(build.arity).invoker, passed) ELSE passed

IsEqualToStaticFuncPtr(d, f) ==
  IF f = Null THEN empty(d) ELSE GetStaticFunction(d) = f

-----------------------------------------------------------------------------
(* Every any owns a value of its own and every value has an owner; equal values
   of one type are equal; and whatever it was cast to on the way, even by a cast
   that threw, the number an any stands for is the one that was put there.   *)
AnySound ==
  ~anyLog.careless =>
    /\ ~anyLog.undefined
    /\ \A a \in Anys : any[a] \in Places => Holds(a)
    /\ \A a, b \in Anys : any[a] = any[b] /\ any[a] \in Places => a = b
    /\ { any[a] : a \in Anys } \ {Absent, Null} = Places \ Room
    /\ \A a \in Anys : any[a] \in Places =>
         number(to_string(heap[any[a]])) = number(to_string(stored[a]))
    /\ \A a, b \in Anys : Holds(a) /\ Holds(b) /\ TypeOf(heap[any[a]]) = TypeOf(heap[any[b]])
         => (equal(a, b) <=> heap[any[a]] = heap[any[b]])

(* A delegate calls what it was last bound to or copied from, with the arguments
   it was given, whatever became of its source, and is empty when that is
   nothing; in the compiled build two delegates are equal when they call the
   same.  In the other one a delegate that was set to 0 may not be empty, and
   equality does not see the object.                                       *)
DelegateSound ==
  /\ \A d \in Delegates : /\ Invoked(d) = bound[d].to
                         /\ LET args == [i \in 1..build.arity |-> i] IN Received(d, args) = args
  /\ \A d \in Delegates : build.how = "hack" \/ ~bound[d].zero => (empty(d) <=> bound[d].to = Null)
  /\ \A d, x \in Delegates :
       build.how = "hack" => (IsEqual_hack(memento[d], memento[x]) <=> bound[d].to = bound[x].to)
  /\ \A d \in Delegates : build.how = "safe" => IsEqual_safe(memento[d], memento[d])

(* An any that nobody assigned to itself, and that no failing copy was assigned
   to, owns its value alone and never changes its number; a delegate, however
   often it was copied and bound again, calls its own target.               *)
HandlesSound == AnySound /\ DelegateSound

(* "Does the closure contain this static function?", asked with == of a
   delegate and a function: it does when it was bound to it.               *)
ContainsFunction ==
  \A d \in Delegates, f \in Functions : IsEqualToStaticFuncPtr(d, f) <=> bound[d].to = f
=============================================================================
