------------------------------- MODULE Daemon -------------------------------
(***************************************************************************)
(* An application of the library from main() to its end: the command line  *)
(* (cmdline_parameters over getopt_long), application::run(), and the two  *)
(* daemon_applications, POSIX with its signal handler and Windows with its *)
(* service thread.  Two applications of examples/ give the handlers: the   *)
(* one that polls a flag, and the web server that stops a tcp_server.      *)
(***************************************************************************)
EXTENDS Naturals, Sequences, FiniteSets

CONSTANTS AppPlatforms,   \* subset of {"console", "posix", "win32"}
          Words,          \* names of options and values; "" where there is none
          CommandLines,   \* sequences of arguments, argv[1..]
          Examples,       \* subset of {"flag", "server"}
          MaxProcesses    \* the program is run so many times: the bound

(* The registered parameters: OPTION, OPTION_WITH_VALUE, or FILENAME, whose
   short name is 0; win32 adds its two.  An argument is an option with the
   value glued to it, if any, or a file name.                              *)
Opt(name)          == [name |-> name, long |-> FALSE, value |-> ""]
OptValue(name, v)  == [name |-> name, long |-> FALSE, value |-> v]
LongOpt(name)      == [name |-> name, long |-> TRUE, value |-> ""]
FileArg(v)         == [name |-> "", long |-> FALSE, value |-> v]
IsOption(arg)      == arg.name # ""
Word(arg)          == IF IsOption(arg) THEN arg.name ELSE arg.value
TakesValue(name)   == name = "listen"
ServiceOptions     == {"install", "uninstall"}
Registered(on) == {"help", "verbose", "listen"} \cup
                  (IF on = "win32" THEN ServiceOptions ELSE {})

Arguments == [name : Words, long : BOOLEAN, value : Words]
ASSUME CommandLineAssumption == "" \in Words /\ CommandLines \subseteq Seq(Arguments)

VARIABLES
  platform, argv, example,   \* the build, the arguments left, the application
  given,       \* the arguments as given
  got,         \* what the handlers were given: <<name, value>>
  phase,       \* of the process
  service,     \* win32: the service database: "absent" or "present"
  source,      \* win32: the registry keys of the event source: the key, 4 values
  svc,         \* win32: the status the service reported last
  flag,        \* is_terminated of the example, or is_stopped of its server
  exec, io,    \* where execute_handler and the server's own thread are
  held,        \* who holds the server's _lock
  term,        \* the terminate handler: its place and the thread it runs on
  processes    \* how often the program has been run

dmnVars == <<platform, argv, example, given, got, phase, service, source, svc,
             flag, exec, io, held, term, processes>>

Nobody == "nobody"
NoTerm == [pc |-> "idle", on |-> Nobody, early |-> FALSE]

-----------------------------------------------------------------------------
(* The state a process starts in.                                          *)
Fresh ==
  /\ argv' \in CommandLines /\ given' = argv' /\ got' = <<>>
  /\ phase' = "init" /\ svc' = "none" /\ flag' = (example = "server")
  /\ exec' = "off" /\ io' = "off" /\ held' = Nobody /\ term' = NoTerm

DaemonInit ==
  /\ platform \in AppPlatforms /\ example \in Examples
  /\ argv \in CommandLines /\ given = argv /\ got = <<>>
  /\ phase = "init" /\ svc = "none" /\ flag = (example = "server")
  /\ exec = "off" /\ io = "off" /\ held = Nobody /\ term = NoTerm
  /\ service = "absent" /\ source = 0 /\ processes = 1

Finished == phase \in {"exit", "killed"}
RunAgain ==
  /\ Finished /\ processes < MaxProcesses /\ processes' = processes + 1
  /\ Fresh /\ UNCHANGED <<platform, example, service, source>>

Rest == <<platform, example, given, svc, flag, exec, io, held, term, processes>>

(* What a handler does with a parameter: true to go on, false to end.  Help
   and the service commands end the program.                               *)
GoesOn(name) == name \notin {"help"} \cup ServiceOptions

(* A plausible fault: what the handler answers is not looked at.           *)
Fault_Deliver(name, v, left) ==
  /\ got' = Append(got, <<name, v>>) /\ argv' = left /\ phase' = "init"
  /\ UNCHANGED <<service, source, Rest>>

Deliver(name, v, left) ==
  /\ got' = Append(got, <<name, v>>) /\ argv' = left
  /\ IF name \in ServiceOptions THEN phase' = name
     ELSE phase' = IF GoesOn(name) THEN "init" ELSE "exit"
  /\ UNCHANGED <<service, source, Rest>>

(* init() prints the syntax error and the help page and returns false.     *)
SyntaxError == phase' = "exit" /\ UNCHANGED <<argv, got, service, source, Rest>>

Without(s, k) == SubSeq(s, 1, k - 1) \o SubSeq(s, k + 1, Len(s))

(* parse() by getopt_long(): the first option left, and with it the argument
   after it if it wants a value and has none.  Nobody sets has_arg of a long
   option without value: it may be taken for one that wants a value.       *)
ParseOption ==
  /\ phase = "init"
  /\ \E k \in DOMAIN argv :
       /\ IsOption(argv[k]) /\ \A j \in 1..(k - 1) : ~IsOption(argv[j])
       /\ \E wants \in {TakesValue(argv[k].name)} \cup
                       (IF argv[k].long THEN {TRUE} ELSE {}) :
            LET known == argv[k].name \in Registered(platform)
                apart == wants /\ argv[k].value = ""
            IN  \/ (~known \/ (apart /\ k = Len(argv))) /\ SyntaxError
                \/ /\ known /\ apart /\ k < Len(argv)
                   /\ Deliver(argv[k].name, Word(argv[k + 1]), Without(Without(argv, k + 1), k))
                \/ known /\ ~apart /\ Deliver(argv[k].name, argv[k].value, Without(argv, k))

(* Then the file names, one by one.                                        *)
ParseFile ==
  /\ phase = "init" /\ argv # <<>> /\ \A k \in DOMAIN argv : ~IsOption(argv[k])
  /\ Deliver("", Head(argv).value, Tail(argv))

(* init() returns true: run() calls execute_handler, which for a daemon is
   daemon_execute().                                                       *)
ParseEnd ==
  /\ phase = "init" /\ argv = <<>>
  /\ phase' = IF platform = "console" THEN "running" ELSE "daemon_execute"
  /\ exec' = IF platform = "console" THEN "start" ELSE exec
  /\ UNCHANGED <<platform, argv, example, given, got, service, source, svc, flag,
                 io, held, term, processes>>

-----------------------------------------------------------------------------
(* on_install_service(): CreateService() fails, or the key and its four
   values are written one after the other and any of them may fail.        *)
Install ==
  /\ phase = "install" /\ phase' = "exit"
  /\ \/ service = "absent" /\ service' = "present" /\ source' \in source..5
     \/ UNCHANGED <<service, source>>
  /\ UNCHANGED <<argv, got, Rest>>

Uninstall ==
  /\ phase = "uninstall" /\ phase' = "exit"
  /\ \/ service = "present" /\ service' = "absent" /\ source' \in {0, source}
     \/ UNCHANGED <<service, source>>
  /\ UNCHANGED <<argv, got, Rest>>

Untouched == <<platform, argv, example, given, got, service, source, processes>>

(* daemon(): the parent ends, the child goes on with the signals as they are
   by default, or fork() or setsid() failed and run() returns -1.          *)
Daemonise ==
  /\ platform = "posix" /\ phase = "daemon_execute"
  /\ phase' \in {"background", "exit"}
  /\ UNCHANGED <<Untouched, svc, flag, exec, io, held, term>>

CatchTermination ==
  /\ phase = "background" /\ phase' = "running" /\ exec' = "start"
  /\ UNCHANGED <<Untouched, svc, flag, io, held, term>>

(* daemon_execute() of win32: StartServiceCtrlDispatcher() runs svc_main() on
   a thread of its own, or fails and the exception ends run().             *)
StartDispatcher ==
  /\ platform = "win32" /\ phase = "daemon_execute"
  /\ \/ service = "present" /\ phase' = "dispatching"
     \/ phase' = "exit"
  /\ UNCHANGED <<Untouched, svc, flag, exec, io, held, term>>

(* What the service reports of itself.                                     *)
report_service_status(state) == svc' = state

(* svc_main() before execute_handler: without a control handler it throws,
   and nobody catches it.                                                  *)
SvcMain ==
  /\ phase = "dispatching"
  /\ \/ phase' = "running" /\ report_service_status("running") /\ exec' = "start"
     \/ phase' = "killed" /\ UNCHANGED <<svc, exec>>
  /\ UNCHANGED <<Untouched, flag, io, held, term>>

-----------------------------------------------------------------------------
(* The thread of execute_handler: that of main(), or the service thread.   *)
Executor == IF platform = "win32" THEN "service" ELSE "main"
(* A thread that runs a signal handler does nothing else meanwhile.        *)
Free(t) == ~(term.pc \in {"enter", "join"} /\ term.on = t)

Proceed(pc) == phase = "running" /\ exec = pc /\ Free(Executor)

(* start() of the server: the flag under _lock, then its threads.          *)
ExecStart ==
  /\ Proceed("start") /\ exec' = "loop"
  /\ IF example = "server" THEN flag' = FALSE /\ io' = "loop" ELSE UNCHANGED <<flag, io>>
  /\ UNCHANGED <<Untouched, phase, svc, held, term>>

(* while (srv.is_running()) sleep(1), or while (!is_terminated) ...        *)
ExecTest ==
  /\ Proceed("loop")
  /\ IF example = "server" THEN held = Nobody /\ held' = Executor /\ exec' = "is_running"
     ELSE exec' = (IF flag THEN "end" ELSE "loop") /\ UNCHANGED held
  /\ UNCHANGED <<Untouched, phase, svc, flag, io, term>>

ExecTested ==
  /\ Proceed("is_running") /\ held' = Nobody
  /\ exec' = IF flag THEN "end" ELSE "loop"
  /\ UNCHANGED <<Untouched, phase, svc, flag, io, term>>

(* execute_handler returns, or throws: run() and the POSIX daemon catch it,
   the service thread does not.                                            *)
ExecEnd ==
  /\ Proceed("end") /\ exec' = "off"
  /\ phase' = "exit"
  /\ IF platform = "win32" THEN report_service_status("stopped") ELSE UNCHANGED svc
  /\ UNCHANGED <<Untouched, flag, io, held, term>>

ExecThrows ==
  /\ Proceed("start") /\ exec' = "off"
  /\ phase' = IF platform = "win32" THEN "killed" ELSE "exit"
  /\ UNCHANGED <<Untouched, svc, flag, io, held, term>>

(* The server's thread tests the flag under the same lock.                 *)
IoTest ==
  /\ phase = "running" /\ Free("io") /\ io = "loop" /\ held = Nobody
  /\ held' = "io" /\ io' = "testing"
  /\ UNCHANGED <<Untouched, phase, svc, flag, exec, term>>

IoTested ==
  /\ phase = "running" /\ Free("io") /\ io = "testing" /\ held' = Nobody
  /\ io' = IF flag THEN "ended" ELSE "loop"
  /\ UNCHANGED <<Untouched, phase, svc, flag, exec, term>>

-----------------------------------------------------------------------------
(* A termination signal: the default action before it is caught, later
   signal_handler() on any thread of the process.                          *)
KilledEarly ==
  /\ platform # "win32" /\ ~Finished
  /\ platform = "console" \/ phase # "running"
  /\ phase' = "killed"
  /\ UNCHANGED <<Untouched, svc, flag, exec, io, held, term>>

Stage(pc, t) == [pc |-> pc, on |-> t, early |-> exec = "start"]

(* A plausible fault: the handler returns without calling on.              *)
Fault_Handle(t) == flag' = flag /\ term' = Stage("done", t)

(* The terminate handler: the flag of one example, stop() of the other.    *)
Handle(t) ==
  \/ example = "flag" /\ flag' = TRUE /\ term' = Stage("done", t)
  \/ example = "server" /\ flag' = flag /\ term' = Stage("enter", t)

signal_handler ==
  /\ platform = "posix" /\ phase = "running" /\ term.pc = "idle"
  /\ \E t \in {"main"} \cup (IF io \in {"loop", "testing"} THEN {"io"} ELSE {}) :
       Handle(t)
  /\ UNCHANGED <<Untouched, phase, svc, exec, io, held>>

(* SERVICE_CONTROL_STOP on the dispatcher's thread.                        *)
svc_ctrl_handler ==
  /\ platform = "win32" /\ phase = "running" /\ term.pc = "idle"
  /\ report_service_status("stop_pending") /\ Handle("dispatcher")
  /\ UNCHANGED <<Untouched, phase, exec, io, held>>

(* tcp_server::stop(): the flag under _lock, or nothing if it is set; then it
   waits for the server's thread, unless it is that thread: pthread_join()
   refuses to wait for its own caller, and nobody looks at its answer.     *)
stop_enter ==
  /\ phase = "running" /\ term.pc = "enter" /\ held = Nobody
  /\ flag' = TRUE /\ term' = [term EXCEPT !.pc = IF flag THEN "done" ELSE "join"]
  /\ UNCHANGED <<Untouched, phase, svc, exec, io, held>>

stop_join ==
  /\ phase = "running" /\ term.pc = "join" /\ (io = "ended" \/ term.on = "io")
  /\ term' = [term EXCEPT !.pc = "done"]
  /\ UNCHANGED <<Untouched, phase, svc, flag, exec, io, held>>

ExecSteps == ExecStart \/ ExecTest \/ ExecTested \/ ExecEnd
IoSteps == IoTest \/ IoTested
TermSteps == stop_enter \/ stop_join

DaemonNext ==
  \/ RunAgain \/ ParseOption \/ ParseFile \/ ParseEnd \/ Install \/ Uninstall
  \/ Daemonise \/ CatchTermination \/ StartDispatcher \/ SvcMain
  \/ ExecSteps \/ ExecThrows \/ IoSteps
  \/ KilledEarly \/ signal_handler \/ svc_ctrl_handler \/ TermSteps

(* The scheduler runs every thread, and a lock that keeps becoming free is
   obtained.                                                               *)
DaemonFairness ==
  SF_dmnVars(ExecSteps) /\ SF_dmnVars(IoSteps) /\ SF_dmnVars(TermSteps)
DaemonSpec == DaemonInit /\ [][DaemonNext]_dmnVars /\ DaemonFairness

-----------------------------------------------------------------------------
(* The command line as a whole: the options in order, each with its value,
   then the files in order.                                                *)
Begun == [wants |-> "", opts |-> <<>>, files |-> <<>>]
Taken(acc, arg) ==
  CASE acc.wants # "" ->
         [wants |-> "", opts |-> Append(acc.opts, <<acc.wants, Word(arg)>>), files |-> acc.files]
    [] acc.wants = "" /\ IsOption(arg) /\ TakesValue(arg.name) /\ arg.value = "" ->
         [wants |-> arg.name, opts |-> acc.opts, files |-> acc.files]
    [] acc.wants = "" /\ IsOption(arg) /\ ~(TakesValue(arg.name) /\ arg.value = "") ->
         [wants |-> "", opts |-> Append(acc.opts, <<arg.name, arg.value>>), files |-> acc.files]
    [] OTHER -> [wants |-> "", opts |-> acc.opts, files |-> Append(acc.files, <<"", arg.value>>)]
Understood(s) ==
  LET pass[i \in 0 .. Len(s)] == IF i = 0 THEN Begun ELSE Taken(pass[i - 1], s[i])
  IN  pass[Len(s)]
InOrder(acc) == acc.opts \o acc.files
Served == InOrder(Understood(given))

(* execute_handler runs only when every argument was understood, and after
   the handlers had seen all of them once, options first, in their order; a
   long option whose has_arg is garbage is the exception.                  *)
CommandLineServed ==
  phase \notin {"init"} \cup ServiceOptions /\ ~Finished
    => \/ got = Served /\ \A k \in DOMAIN got : GoesOn(got[k][1])
       \/ \E k \in DOMAIN given : given[k].long

(* What it rests on: what the handlers were given and what is understood of
   the arguments left make up the whole command line.                      *)
Short(args) == \A k \in DOMAIN args : ~args[k].long
Parsed ==
  Short(given) =>
    /\ Short(argv)
    /\ phase = "init" => got \o InOrder(Understood(argv)) = Served
    /\ phase \notin {"init", "exit", "killed"} \cup ServiceOptions => got = Served
CommandLineInv ==
  /\ argv \in Seq(Arguments) /\ given \in Seq(Arguments) /\ got \in Seq(Words \X Words)
  /\ phase \notin {"exit", "killed"} \cup ServiceOptions => \A k \in DOMAIN got : GoesOn(got[k][1])
  /\ Parsed

(* The handler waits for a lock that its own thread holds.                 *)
Stuck == term.pc = "enter" /\ held = term.on

(* "terminate daemon on SIGTERM signal": when the terminate handler has been
   called the daemon ends, on Windows reporting STOPPED, but for two fates of
   the web server: its stop() comes before its start() and is lost, or, on
   POSIX, waits for the lock on the very thread that holds it.  A handler that
   runs on the thread that stop() waits for is no such fate.               *)
TerminationHonoured ==
  term.pc # "idle" ~>
    \/ phase = "killed"
    \/ phase = "exit" /\ (platform = "win32" => svc = "stopped")
    \/ example = "server" /\ (term.early \/ (platform = "posix" /\ Stuck))

(* The same without exception, as posix/daemon_application.cpp:147 has it.  *)
TerminateOnSigterm == (platform = "posix" /\ term.pc # "idle") ~> Finished
=============================================================================
