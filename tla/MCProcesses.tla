---------------------------- MODULE MCProcesses ----------------------------
(* Small instances of Process and Daemon.  A behaviour exercises the one in *)
(* focus.                                                                   *)
EXTENDS Process, Daemon

VARIABLE focus

(* Three different symbols are one more than a chunk of the buffer has and as  *)
(* many as a pipe holds: a child that reads them, a child that writes them     *)
(* (and a NUL to the other stream) and one without streams that writes more    *)
(* than a pipe holds.                                                          *)
Job(input, streams, out, err, reads, code) ==
  [input |-> input, streams |-> streams,
   plan |-> [out |-> out, err |-> err, reads |-> reads, code |-> code]]
ThreeJobs ==
  { Job(<<"c", "d", "e">>, TRUE, <<"n">>, <<>>, TRUE, 1),
    Job(<<"0">>, TRUE, <<"d", "c", "e">>, <<"0">>, FALSE, 0),
    Job(<<>>, FALSE, <<"c", "n", "c", "n">>, <<>>, FALSE, 0) }

(* Options and files in any order, a value apart or missing, an unknown     *)
(* option, a long option, the service commands.                             *)
Commands ==
  { <<>>, <<Opt("help"), FileArg("f")>>,
    <<FileArg("f"), Opt("verbose"), Opt("listen"), FileArg("8000"), FileArg("g")>>,
    <<OptValue("listen", "80"), Opt("listen")>>, <<LongOpt("verbose"), FileArg("f")>>,
    <<Opt("listen"), Opt("verbose"), Opt("bogus")>>, <<Opt("install")>>, <<Opt("uninstall")>> }

ProcessesInit ==
  /\ focus \in {"process", "daemon"}
  /\ ProcessInit /\ (focus = "daemon" => system = "posix")
  /\ DaemonInit
  /\ focus = "process" => platform = "posix" /\ example = "flag" /\ argv = <<>>

ProcessesNext ==
  /\ UNCHANGED focus
  /\ \/ focus = "process" /\ ProcessNext /\ UNCHANGED dmnVars
     \/ focus = "daemon" /\ DaemonNext /\ UNCHANGED processVars

(* At rest nothing that fairness asks for is enabled.                       *)
ProcessesSpec ==
  ProcessesInit /\ [][ProcessesNext]_<<focus, processVars, dmnVars>> /\ ProcessFairness /\ DaemonFairness
=============================================================================
