----------------------------- MODULE Extensions -----------------------------
(***************************************************************************)
(* plugin, which loads a dynamic library and calls four functions of it,   *)
(* and factory, which creates objects of registered classes.               *)
(*                                                                         *)
(* A function pointer is the library it points into, "wild" when it was    *)
(* never assigned and "null" when the symbol was not found.  A call        *)
(* through a pointer whose library is not mapped is undefined (lost).      *)
(***************************************************************************)
EXTENDS Integers, Sequences, FiniteSets

CONSTANTS Loaders,       \* {"posix", "win32"}
          Libraries,     \* [name |-> ..., exports |-> SUBSET of the symbols]
          MaxLoads,      \* calls of load()
          ClassNames, Classes   \* of the factory

Symbols == <<"init", "create_object", "destroy_object", "finalize">>
NoLib == "none"
LibNames == {l.name : l \in Libraries}

\* A library is none of the marks a pointer or a handle may have instead of one.
ASSUME ExtAssumption == LibNames \cap {NoLib, "wild", "null"} = {}

VARIABLES loader,
          plug,      \* "made", "gone": the plugin object
          handle, fn,
          mapped,    \* how often each library is open
          objects,   \* libraries of the objects created and not destroyed
          lastLoad,  \* outcome of the last load(): "none", "ok", "failed"
          loads,
          lost,      \* an undefined call was made
          _creator   \* the factory's map

extVars == <<loader, plug, handle, fn, mapped, objects, lastLoad, loads, lost, _creator>>

ExtInit ==
  /\ loader \in Loaders /\ plug = "made" /\ handle = NoLib
  /\ fn = [s \in 1 .. 4 |-> "wild"]
  /\ mapped = [l \in LibNames |-> 0]
  /\ objects = {} /\ lastLoad = "none" /\ loads = 0 /\ lost = FALSE
  /\ _creator = [n \in {} |-> 0]

Usable == plug = "made" /\ ~lost
Closed(m, h) == IF h = NoLib THEN m ELSE [m EXCEPT ![h] = @ - 1]

\* POSIX closes what is open, Win32 forgets it; then the library is opened and
\* the four symbols are looked up in order.  A failure leaves the pointers that
\* were assigned before it; POSIX closes the library again, Win32 keeps it.
Unloaded == IF loader = "posix" THEN Closed(mapped, handle) ELSE mapped
Missing(l) == {s \in 1 .. 4 : Symbols[s] \notin l.exports}
FirstMissing(l) == CHOOSE s \in Missing(l) : \A r \in Missing(l) : s <= r

load_fails_to_open ==
  /\ Usable /\ loads < MaxLoads
  /\ loads' = loads + 1 /\ lastLoad' = "failed"
  /\ mapped' = Unloaded /\ handle' = NoLib
  /\ UNCHANGED <<loader, plug, fn, objects, lost, _creator>>

load_lacks_symbol(l) ==
  /\ Usable /\ loads < MaxLoads /\ Missing(l) # {}
  /\ loads' = loads + 1 /\ lastLoad' = "failed"
  /\ fn' = [s \in 1 .. 4 |-> IF s < FirstMissing(l) THEN l.name
                             ELSE IF s = FirstMissing(l) THEN "null" ELSE fn[s]]
  /\ IF loader = "posix"
     THEN handle' = NoLib /\ mapped' = Unloaded
     ELSE handle' = l.name /\ mapped' = [Unloaded EXCEPT ![l.name] = @ + 1]
  /\ UNCHANGED <<loader, plug, objects, lost, _creator>>

load(l) ==
  /\ Usable /\ loads < MaxLoads /\ Missing(l) = {}
  /\ loads' = loads + 1 /\ lastLoad' = "ok"
  /\ fn' = [s \in 1 .. 4 |-> l.name]
  /\ handle' = l.name /\ mapped' = [Unloaded EXCEPT ![l.name] = @ + 1]
  /\ UNCHANGED <<loader, plug, objects, lost, _creator>>

Lands(s) == fn[s] \in LibNames /\ mapped[fn[s]] > 0

init ==
  /\ Usable /\ lost' = ~Lands(1)
  /\ UNCHANGED <<loader, plug, handle, fn, mapped, objects, lastLoad, loads, _creator>>

\* NULL from the library is an exception.
create_object ==
  /\ Usable
  /\ IF Lands(2) THEN \/ objects' = objects \cup {fn[2]}
                      \/ UNCHANGED objects
                 ELSE UNCHANGED objects
  /\ lost' = ~Lands(2)
  /\ UNCHANGED <<loader, plug, handle, fn, mapped, lastLoad, loads, _creator>>

\* The function of the library that is loaded now, and the destructor of the
\* library the object came from.
destroy_object(o) ==
  /\ Usable /\ o \in objects
  /\ objects' = objects \ {o}
  /\ lost' = ~(Lands(3) /\ mapped[o] > 0)
  /\ UNCHANGED <<loader, plug, handle, fn, mapped, lastLoad, loads, _creator>>

\* ~plugin: finalize(), then the library is closed.
Fault_destroy_plugin ==
  /\ Usable /\ plug' = "gone"
  /\ mapped' = Closed(mapped, handle) /\ handle' = NoLib
  /\ lost' = ~(fn[4] \in LibNames /\ mapped'[fn[4]] > 0)
  /\ UNCHANGED <<loader, fn, objects, lastLoad, loads, _creator>>
destroy_plugin ==
  /\ Usable /\ plug' = "gone"
  /\ lost' = ~Lands(4)
  /\ mapped' = Closed(mapped, handle) /\ handle' = NoLib
  /\ UNCHANGED <<loader, fn, objects, lastLoad, loads, _creator>>

-----------------------------------------------------------------------------
is_registered(n) == n \in DOMAIN _creator
plugVars == <<loader, plug, handle, fn, mapped, objects, lastLoad, loads, lost>>

register_class(n, c) ==
  /\ ~is_registered(n)
  /\ _creator' = [m \in DOMAIN _creator \cup {n} |-> IF m = n THEN c ELSE _creator[m]]
  /\ UNCHANGED plugVars
unregister_class(n) ==
  /\ is_registered(n)
  /\ _creator' = [m \in DOMAIN _creator \ {n} |-> _creator[m]]
  /\ UNCHANGED plugVars

ExtNext ==
  \/ load_fails_to_open \/ init \/ create_object \/ destroy_plugin
  \/ \E l \in Libraries : load(l) \/ load_lacks_symbol(l)
  \/ \E o \in objects : destroy_object(o)
  \/ plug = "made" /\ loads = 0 /\ \E n \in ClassNames :
       unregister_class(n) \/ \E c \in Classes : register_class(n, c)

ExtSpec == ExtInit /\ [][ExtNext]_extVars

-----------------------------------------------------------------------------
\* On POSIX a library is open exactly as often as the plugin has a handle to it,
\* whatever loads failed and at which symbol; on Win32 so after one load().
LibrariesBalanced ==
  plug = "made" /\ (loader = "posix" \/ loads < 2) =>
    \A l \in LibNames : mapped[l] = IF handle = l THEN 1 ELSE 0

\* After the first load() has succeeded, and without a second one, no call
\* leaves the library: not of init, not of the objects, not of finalize() in
\* the destructor.
CallsLand == lastLoad = "ok" /\ loads = 1 => ~lost

\* What these rest on: the types, a plugin without a load(), where every pointer
\* is wild and nothing was created, and one after the first load(), whose
\* pointers and objects are of the library it holds.
ExtTypes ==
  /\ handle \in LibNames \cup {NoLib} /\ loads \in Nat /\ objects \subseteq LibNames
  /\ mapped \in [LibNames -> Int] /\ fn \in [1 .. 4 -> LibNames \cup {"wild", "null"}]
NotLoaded ==
  loads = 0 =>
    handle = NoLib /\ lastLoad = "none" /\ objects = {} /\ \A s \in 1 .. 4 : fn[s] = "wild"
LoadedOnce ==
  plug = "made" /\ lastLoad = "ok" /\ loads = 1 =>
    handle \in LibNames /\ objects \subseteq {handle} /\ \A s \in 1 .. 4 : fn[s] = handle
ExtInv == ExtTypes /\ NotLoaded /\ LoadedOnce /\ LibrariesBalanced /\ CallsLand

\* Both: libraries are closed as often as opened, and not while they are used.
PluginSafe == LibrariesBalanced /\ CallsLand
=============================================================================
