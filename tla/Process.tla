------------------------------ MODULE Process ------------------------------
(***************************************************************************)
(* process::execute: a child process, three pipes and a parent that feeds, *)
(* waits and reads.  Several threads of the parent (Callers) may execute   *)
(* at once; a child is known by the caller that started it.  The SIGCHLD   *)
(* handler of the daemon reaps the same children.                          *)
(*                                                                         *)
(* A pipe is a buffer of PipeCap symbols and the sets of processes that    *)
(* hold its ends.                                                          *)
(***************************************************************************)
EXTENDS Integers, Sequences, FiniteSets, SequencesExt

CONSTANTS Callers,           \* threads that call execute()
          Systems,           \* {"posix", "win32"}, or one of them
          PipeCap,           \* what a pipe holds before a write blocks
          BUF_SIZE,          \* the buffer of execute()
          Symbols,           \* what the streams are made of; "0" is NUL, "n" the line end
          Jobs               \* calls: the text of _in, whether there are streams,
                             \* and what the child does: [out, err, reads, code]

ASSUME ProcessAssumption ==
    /\ PipeCap \in Nat \ {0} /\ BUF_SIZE \in Nat \ {0, 1}
    /\ Systems \subseteq {"posix", "win32"} /\ "parent" \notin Callers
    /\ Jobs \subseteq [input : Seq(Symbols), streams : BOOLEAN,
                       plan : [out : Seq(Symbols), err : Seq(Symbols), reads : BOOLEAN, code : Nat]]
    /\ \A j \in Jobs : ~j.streams => j.input = <<>>

VARIABLES system,   \* which implementation runs
          reaper,   \* the daemon has installed its signal handlers
          ex,       \* per caller, the frame of execute() and its child
          buf, wr, rd   \* per caller and pipe: content, holders of the ends

processVars == <<system, reaper, ex, buf, wr, rd>>

Parent == "parent"
Pipes == {"in", "out", "err"}
STILL_ACTIVE == 259
Codes == {j.plan.code : j \in Jobs} \cup {STILL_ACTIVE}

\* Text up to the first NUL: what fputs and strlen see of a buffer.
UpToNul(s) ==
    LET nuls == {i \in DOMAIN s : s[i] = "0"}
    IN  IF nuls = {} THEN s ELSE SubSeq(s, 1, (CHOOSE i \in nuls : \A j \in nuls : i <= j) - 1)

\* What passes through the buffer: a piece ends when the buffer is full or at a
\* symbol of stops, and is sent up to its first NUL.  After i symbols: the text
\* sent and the piece begun.
Pieces(s, stops) ==
    LET pass[i \in 0 .. Len(s)] ==
            IF i = 0 THEN [text |-> <<>>, part |-> <<>>]
            ELSE LET part == Append(pass[i - 1].part, s[i])
                 IN  IF s[i] \in stops \/ Len(part) = BUF_SIZE - 1
                     THEN [text |-> pass[i - 1].text \o UpToNul(part), part |-> <<>>]
                     ELSE [text |-> pass[i - 1].text, part |-> part]
    IN  pass[Len(s)]
Sent(p) == p.text \o UpToNul(p.part)

\* The chunks read() makes of the input, each sent by fputs; the lines fgets
\* makes of a stream, each written with its strlen.
Fed(s) == Sent(Pieces(s, {}))
Fault_Printed(s) == Pieces(s, {"n"}).text
Printed(s) == Sent(Pieces(s, {"n"}))

NoPlan == [out |-> <<>>, err |-> <<>>, reads |-> FALSE, code |-> 0]
Idle == [pc |-> "idle", input |-> <<>>, streams |-> TRUE, feed |-> <<>>, plan |-> NoPlan,
         child |-> "none", taken |-> <<>>, left |-> [p \in {"out", "err"} |-> <<>>],
         raw |-> [p \in {"out", "err"} |-> <<>>], text |-> [p \in {"out", "err"} |-> <<>>],
         cut |-> FALSE, status |-> 0, early |-> FALSE]

ProcessInit ==
    /\ system \in Systems /\ reaper = FALSE
    /\ ex = [t \in Callers |-> Idle]
    /\ buf = [t \in Callers |-> [p \in Pipes |-> <<>>]]
    /\ wr = [t \in Callers |-> [p \in Pipes |-> {}]]
    /\ rd = wr

At(t, pc) == ex[t].pc = pc
ends == <<buf, wr, rd>>

-----------------------------------------------------------------------------
(* The parent.                                                             *)

\* A call and its pipes.  When one can't be made the others are closed again
\* and an exception leaves the method.
Execute(t) ==
    /\ At(t, "idle")
    /\ \E j \in Jobs :
        ex' = [ex EXCEPT ![t].pc = "pipes", ![t].input = j.input, ![t].streams = j.streams, ![t].plan = j.plan,
                         ![t].left = [p \in {"out", "err"} |-> IF p = "out" THEN j.plan.out ELSE j.plan.err]]
    /\ wr' = [wr EXCEPT ![t] = [p \in Pipes |-> {Parent}]]
    /\ rd' = [rd EXCEPT ![t] = [p \in Pipes |-> {Parent}]]
    /\ UNCHANGED <<buf, system, reaper>>

PipeFails(t) ==
    /\ At(t, "idle") /\ ex' = [ex EXCEPT ![t].pc = "threw"]
    /\ UNCHANGED <<buf, wr, rd, system, reaper>>

\* vfork, dup2, close, execv.  The child keeps every other end the parent has
\* open at that moment, those of the other callers included.
PosixSpawn(t) ==
    /\ At(t, "pipes") /\ system = "posix"
    /\ wr' = [u \in Callers |-> [p \in Pipes |->
                IF u = t THEN IF p = "in" THEN {Parent} ELSE {Parent, t}
                ELSE wr[u][p] \cup (IF Parent \in wr[u][p] THEN {t} ELSE {})]]
    /\ rd' = [u \in Callers |-> [p \in Pipes |->
                IF u = t THEN IF p = "in" THEN {Parent, t} ELSE {Parent}
                ELSE rd[u][p] \cup (IF Parent \in rd[u][p] THEN {t} ELSE {})]]
    /\ ex' = [ex EXCEPT ![t].pc = "forked", ![t].child = "runs"]
    /\ UNCHANGED <<buf, system, reaper>>

\* vfork fails: the exception leaves six descriptors open.  execv fails: the
\* exception unwinds, in the child, the stack that belongs to the parent.
PosixSpawnFails(t) ==
    /\ At(t, "pipes") /\ system = "posix"
    /\ \E pc \in {"leaked", "undefined"} : ex' = [ex EXCEPT ![t].pc = pc]
    /\ UNCHANGED <<buf, wr, rd, system, reaper>>

\* The ends of the child are closed; fdopen; the input is read.
Fault_ParentCloses(t) ==
    /\ At(t, "forked")
    /\ rd' = [rd EXCEPT ![t]["in"] = @ \ {Parent}]
    /\ ex' = [ex EXCEPT ![t].pc = "write", ![t].feed = Fed(ex[t].input)]
    /\ UNCHANGED <<wr, buf, system, reaper>>
ParentCloses(t) ==
    /\ At(t, "forked")
    /\ rd' = [rd EXCEPT ![t]["in"] = @ \ {Parent}]
    /\ wr' = [wr EXCEPT ![t]["out"] = @ \ {Parent}, ![t]["err"] = @ \ {Parent}]
    /\ ex' = [ex EXCEPT ![t].pc = "write", ![t].feed = Fed(ex[t].input)]
    /\ UNCHANGED <<buf, system, reaper>>

\* CreateProcess: only the ends meant for children are inherited, but those of
\* every caller.  Without streams the loop on _in reads through NULL.
Win32Spawn(t) ==
    /\ At(t, "pipes") /\ system = "win32"
    /\ wr' = [u \in Callers |-> [p \in Pipes |->
                wr[u][p] \cup (IF p # "in" /\ Parent \in wr[u][p] THEN {t} ELSE {})]]
    /\ rd' = [u \in Callers |-> [p \in Pipes |->
                rd[u][p] \cup (IF p = "in" /\ Parent \in rd[u][p] THEN {t} ELSE {})]]
    /\ ex' = [ex EXCEPT ![t].pc = IF ex[t].streams THEN "write" ELSE "undefined",
                        ![t].child = "runs", ![t].feed = ex[t].input]
    /\ UNCHANGED <<buf, system, reaper>>

\* catch (...) closes all handles
CloseAll(t) ==
    /\ wr' = [wr EXCEPT ![t] = [p \in Pipes |-> @[p] \ {Parent}]]
    /\ rd' = [rd EXCEPT ![t] = [p \in Pipes |-> @[p] \ {Parent}]]
Win32SpawnFails(t) ==
    /\ At(t, "pipes") /\ system = "win32" /\ CloseAll(t)
    /\ ex' = [ex EXCEPT ![t].pc = "threw"]
    /\ UNCHANGED <<buf, system, reaper>>

\* One symbol of input.  With nobody to read, SIGPIPE ends the process unless
\* the daemon ignores it; then the write just fails.
WriteInput(t) ==
    /\ At(t, "write") /\ ex[t].feed # <<>>
    /\ IF rd[t]["in"] = {}
       THEN /\ IF reaper THEN ex' = [ex EXCEPT ![t].feed = Tail(@)]
               ELSE ex' = [u \in Callers |-> [ex[u] EXCEPT !.pc = "killed"]]
            /\ UNCHANGED buf
       ELSE /\ Len(buf[t]["in"]) < PipeCap
            /\ buf' = [buf EXCEPT ![t]["in"] = Append(@, Head(ex[t].feed))]
            /\ ex' = [ex EXCEPT ![t].feed = Tail(@)]
    /\ UNCHANGED <<wr, rd, system, reaper>>

\* fclose of the input, or on Win32 of all ends the child has, and the exit
\* code, which is asked for without waiting.
PosixInputDone(t) ==
    /\ At(t, "write") /\ ex[t].feed = <<>> /\ system = "posix"
    /\ wr' = [wr EXCEPT ![t]["in"] = @ \ {Parent}]
    /\ ex' = [ex EXCEPT ![t].pc = "wait"]
    /\ UNCHANGED <<buf, rd, system, reaper>>
Win32InputDone(t) ==
    /\ At(t, "write") /\ ex[t].feed = <<>> /\ system = "win32"
    /\ wr' = [wr EXCEPT ![t] = [p \in Pipes |-> @[p] \ {Parent}]]
    /\ ex' = [ex EXCEPT ![t].pc = "code"]
    /\ UNCHANGED <<buf, rd, system, reaper>>
Win32ExitCode(t) ==
    /\ At(t, "code")
    /\ ex' = [ex EXCEPT ![t].pc = "out", ![t].early = (ex[t].child = "runs"),
                        ![t].status = IF ex[t].child = "runs" THEN STILL_ACTIVE ELSE ex[t].plan.code]
    /\ UNCHANGED <<ends, system, reaper>>

\* waitpid.  When the handler was first it fails and status is whatever the
\* stack held.
Fault_Wait(t) ==
    /\ At(t, "wait")
    /\ \E s \in Codes : ex' = [ex EXCEPT ![t].pc = "out", ![t].status = s]
    /\ UNCHANGED <<ends, system, reaper>>
Wait(t) ==
    /\ At(t, "wait") /\ ex[t].child \in {"zombie", "reaped"}
    /\ IF ex[t].child = "zombie"
       THEN ex' = [ex EXCEPT ![t].pc = "out", ![t].child = "reaped", ![t].status = ex[t].plan.code]
       ELSE \E s \in Codes : ex' = [ex EXCEPT ![t].pc = "out", ![t].status = s]
    /\ UNCHANGED <<ends, system, reaper>>

After(p) == IF p = "out" THEN "err" ELSE "return"

\* What there is to read is taken, until the end of the pipe.
ReadStream(t, p) ==
    /\ At(t, p) /\ ex[t].streams /\ buf[t][p] # <<>>
    /\ ex' = [ex EXCEPT ![t].raw[p] = @ \o buf[t][p]]
    /\ buf' = [buf EXCEPT ![t][p] = <<>>]
    /\ UNCHANGED <<wr, rd, system, reaper>>

\* At the end of the pipe (or without a stream to write to) the pipe is closed.
EndStream(t, p) ==
    LET raw == ex[t].raw[p]
        text == IF system = "posix" THEN Printed(raw) ELSE raw
    IN  /\ At(t, p)
        /\ ex[t].streams => buf[t][p] = <<>> /\ wr[t][p] = {}
        /\ ex' = [ex EXCEPT ![t].pc = After(p), ![t].text[p] = text]
        /\ rd' = IF system = "posix" THEN [rd EXCEPT ![t][p] = @ \ {Parent}] ELSE rd
        /\ UNCHANGED <<buf, wr, system, reaper>>

\* _out or _err is no longer good: the rest of the pipe is not read.
SinkFails(t, p) ==
    /\ At(t, p) /\ ex[t].streams /\ ex[t].raw[p] # <<>>
    /\ ex' = [ex EXCEPT ![t].pc = After(p), ![t].cut = TRUE]
    /\ rd' = IF system = "posix" THEN [rd EXCEPT ![t][p] = @ \ {Parent}] ELSE rd
    /\ UNCHANGED <<buf, wr, system, reaper>>

Return(t) ==
    /\ At(t, "return")
    /\ ex' = [ex EXCEPT ![t].pc = "done"] /\ CloseAll(t)
    /\ UNCHANGED <<buf, system, reaper>>

-----------------------------------------------------------------------------
(* The child, and the daemon's handler.                                    *)

ChildReads(t) ==
    /\ ex[t].child = "runs" /\ ex[t].plan.reads /\ buf[t]["in"] # <<>>
    /\ ex' = [ex EXCEPT ![t].taken = Append(@, Head(buf[t]["in"]))]
    /\ buf' = [buf EXCEPT ![t]["in"] = Tail(@)]
    /\ UNCHANGED <<wr, rd, system, reaper>>

ChildWrites(t, p) ==
    /\ ex[t].child = "runs" /\ ex[t].left[p] # <<>>
    /\ Len(buf[t][p]) < PipeCap /\ rd[t][p] # {}
    /\ buf' = [buf EXCEPT ![t][p] = Append(@, Head(ex[t].left[p]))]
    /\ ex' = [ex EXCEPT ![t].left[p] = Tail(@)]
    /\ UNCHANGED <<wr, rd, system, reaper>>

\* It ends when it has written all and seen the end of its input, or when
\* nobody reads its output any more.
ChildExits(t) ==
    /\ ex[t].child = "runs"
    /\ \/ /\ \A p \in {"out", "err"} : ex[t].left[p] = <<>>
          /\ ex[t].plan.reads => buf[t]["in"] = <<>> /\ wr[t]["in"] = {}
       \/ \E p \in {"out", "err"} : ex[t].left[p] # <<>> /\ rd[t][p] = {}
    /\ ex' = [ex EXCEPT ![t].child = "zombie"]
    /\ wr' = [u \in Callers |-> [p \in Pipes |-> wr[u][p] \ {t}]]
    /\ rd' = [u \in Callers |-> [p \in Pipes |-> rd[u][p] \ {t}]]
    /\ UNCHANGED <<buf, system, reaper>>

\* daemon_execute installs the handlers before any process is executed.
CatchSignals ==
    /\ system = "posix" /\ ~reaper /\ \A t \in Callers : At(t, "idle")
    /\ reaper' = TRUE /\ UNCHANGED <<system, ex, ends>>

\* SIGCHLD: waitpid(-1) for every child that has ended.
Sigchld ==
    /\ reaper /\ \E t \in Callers : ex[t].child = "zombie"
    /\ ex' = [t \in Callers |-> IF ex[t].child = "zombie" THEN [ex[t] EXCEPT !.child = "reaped"] ELSE ex[t]]
    /\ UNCHANGED <<ends, system, reaper>>

-----------------------------------------------------------------------------
ParentStep(t) ==
    \/ PosixSpawn(t) \/ ParentCloses(t) \/ Win32Spawn(t)
    \/ WriteInput(t) \/ PosixInputDone(t) \/ Win32InputDone(t) \/ Win32ExitCode(t) \/ Wait(t)
    \/ \E p \in {"out", "err"} : ReadStream(t, p) \/ EndStream(t, p)
    \/ Return(t)
ChildStep(t) == ChildReads(t) \/ (\E p \in {"out", "err"} : ChildWrites(t, p)) \/ ChildExits(t)

ProcessNext ==
    \/ \E t \in Callers :
        \/ Execute(t) \/ PipeFails(t) \/ PosixSpawnFails(t) \/ Win32SpawnFails(t)
        \/ ParentStep(t) \/ ChildStep(t)
        \/ \E p \in {"out", "err"} : SinkFails(t, p)
    \/ CatchSignals \/ Sigchld

\* A thread of the parent and a child that can go on do.
ProcessFairness ==
    \A t \in Callers : WF_processVars(ParentStep(t)) /\ WF_processVars(ChildStep(t))
ProcessSpec == ProcessInit /\ [][ProcessNext]_processVars /\ ProcessFairness

-----------------------------------------------------------------------------
(* Properties.                                                             *)

Over(t) == ex[t].pc \in {"done", "threw", "leaked", "undefined", "killed"}

\* A child started by another caller has inherited an end of t's pipes.
Inherited(t) == \E p \in Pipes : (wr[t][p] \cup rd[t][p]) \ {Parent, t} # {}

\* What the pipes can carry without the two sides waiting for each other.
Fits(t) ==
    LET fits(s) == Len(s) <= PipeCap
    IN  IF system = "posix" THEN fits(ex[t].plan.out) /\ fits(ex[t].plan.err)
        ELSE /\ fits(ex[t].plan.err)
             /\ fits(ex[t].input) \/ (ex[t].plan.reads /\ fits(ex[t].plan.out))

\* execute() returns unless a pipe overflows or another child has inherited an
\* end of one: nothing else in the order of write, wait and reads can block it.
ExecuteReturns == \A t \in Callers : At(t, "pipes") ~> (Over(t) \/ Inherited(t) \/ ~Fits(t))

\* When execute() returns and its streams stayed good, they have got all the
\* child has written, in order, whatever was still in the pipes when it ended.
\* On POSIX a line is cut at a NUL; without one nothing is missing.
OutputWhole ==
    \A t \in Callers : At(t, "done") /\ ex[t].streams /\ ~ex[t].cut =>
        \A p \in {"out", "err"} :
            LET all == IF p = "out" THEN ex[t].plan.out ELSE ex[t].plan.err
            IN  IF system = "posix" /\ "0" \in Range(all) THEN Len(ex[t].text[p]) < Len(all)
                ELSE ex[t].text[p] = all

\* A child that reads to the end has got the whole input by then (without NUL
\* characters, or on Win32).
InputWhole ==
    \A t \in Callers :
        /\ ex[t].child \in {"zombie", "reaped"} /\ ex[t].plan.reads
        /\ \A p \in {"out", "err"} : ex[t].left[p] = <<>>
        /\ ~At(t, "killed") /\ ~At(t, "undefined")
        /\ system = "win32" \/ "0" \notin Range(ex[t].input)
        => ex[t].taken = ex[t].input

\* No zombie is left by an execute() that returned, whether the daemon's handler
\* or waitpid was first; and waitpid tells the child's own code unless the
\* handler is installed.
ChildReaped ==
    \A t \in Callers : At(t, "done") /\ system = "posix" =>
        /\ ex[t].child = "reaped"
        /\ ~reaper => ex[t].status = ex[t].plan.code

\* However execute() ends, but for a failed vfork, the parent keeps no
\* descriptor of its pipes.
DescriptorsClosed ==
    \A t \in Callers : ex[t].pc \in {"done", "threw"} =>
        \A p \in Pipes : Parent \notin wr[t][p] \cup rd[t][p]

\* The three streams pass execute() unchanged, whole and in order.
StreamsWhole == OutputWhole /\ InputWhole

\* What these rest on.  The parent has an end of a caller's pipes only between
\* their making and the end of execute(); from waitpid on the child is reaped,
\* and before it nobody but the handler can have reaped it.
ProcessTypes ==
    /\ DOMAIN ex = Callers /\ \A t \in Callers : DOMAIN ex[t] = DOMAIN Idle
    /\ wr \in [Callers -> [Pipes -> SUBSET (Callers \cup {Parent})]]
    /\ rd \in [Callers -> [Pipes -> SUBSET (Callers \cup {Parent})]]
EndsClosed ==
    \A t \in Callers : ex[t].pc \in {"idle", "done", "threw"} =>
        \A p \in Pipes : Parent \notin wr[t][p] /\ Parent \notin rd[t][p]
WaitedFor ==
    \A t \in Callers : system = "posix" =>
        /\ ex[t].pc # "code"
        /\ ex[t].pc \in {"out", "err", "return", "done"} =>
              ex[t].child = "reaped" /\ (~reaper => ex[t].status = ex[t].plan.code)
        /\ ex[t].pc \in {"idle", "pipes", "forked", "write", "wait"} /\ ~reaper =>
              ex[t].child # "reaped"
ProcessInv == ProcessTypes /\ EndsClosed /\ WaitedFor

\* What the streams rest on, for the frame f of a caller t on a system sys, the
\* content b of its pipes and the holders w and r of their ends.  Nothing is
\* lost between the child and execute(), nor between execute() and the child;
\* the child holds its ends while it runs, the parent those it still needs; a
\* stream execute() is past was read to its end, which the child had to reach.
Outputs == {"out", "err"}
All(f, p) == IF p = "out" THEN f.plan.out ELSE f.plan.err
Wanted(sys, f) == IF sys = "posix" THEN Fed(f.input) ELSE f.input
Started == {"forked", "write", "wait", "code", "out", "err", "return", "done"}
Past(f, p) == f.pc \in {"return", "done"} \/ (p = "out" /\ f.pc = "err")
OutputKept(f, b) == \A p \in Outputs : (f.raw[p] \o b[p]) \o f.left[p] = All(f, p)
InputKept(sys, f, b) ==
    /\ f.pc \in {"idle", "pipes", "forked"} => f.taken = <<>> /\ b["in"] = <<>>
    /\ f.pc \in Started \ {"forked"} /\ f.child = "runs" => (f.taken \o b["in"]) \o f.feed = Wanted(sys, f)
    /\ f.pc \in Started \ {"forked", "write"} => f.feed = <<>>
    /\ /\ f.child \in {"zombie", "reaped"} /\ f.plan.reads /\ f.pc \notin {"killed", "undefined"}
       /\ \A p \in Outputs : f.left[p] = <<>>
       => f.taken = Wanted(sys, f)
EndsHeld(sys, t, f, w, r) ==
    /\ f.child = "runs" => t \in r["in"] /\ t \in w["out"] /\ t \in w["err"]
    /\ f.pc = "pipes" => \A p \in Pipes : Parent \in w[p] /\ Parent \in r[p]
    /\ f.pc \in {"forked", "write"} => Parent \in w["in"]
    /\ \/ f.pc \in {"forked", "write", "wait", "code"}
       \/ f.pc \in {"out", "err", "return"} /\ sys = "win32"
       => Parent \in r["out"] /\ Parent \in r["err"]
    /\ f.pc \in {"idle", "pipes", "threw", "leaked"} => f.child = "none"
    /\ f.pc \in Started => f.child # "none"
    /\ f.pc \in {"forked", "wait"} => sys = "posix"
Drained(sys, f, b, w) ==
    f.streams /\ ~f.cut =>
    /\ f.child \in {"zombie", "reaped"} /\ f.pc \in Started => \A p \in Outputs : f.left[p] = <<>>
    /\ \A p \in Outputs : Past(f, p) =>
         /\ w[p] = {} /\ b[p] = <<>> /\ f.left[p] = <<>>
         /\ f.text[p] = IF sys = "posix" THEN Printed(f.raw[p]) ELSE f.raw[p]
StreamTypes(f, b) ==
    /\ b \in [Pipes -> Seq(Symbols)]
    /\ f.input \in Seq(Symbols) /\ f.feed \in Seq(Symbols) /\ f.taken \in Seq(Symbols)
    /\ f.plan.out \in Seq(Symbols) /\ f.plan.err \in Seq(Symbols)
    /\ \A k \in {"left", "raw", "text"} : f[k] \in [Outputs -> Seq(Symbols)]
    /\ f.pc \in Started \cup {"idle", "pipes", "threw", "leaked", "undefined", "killed"}
    /\ f.child \in {"none", "runs", "zombie", "reaped"}
    /\ f.pc = "idle" => f = Idle /\ b = [p \in Pipes |-> <<>>]
StreamAt(sys, t, f, b, w, r) ==
    /\ StreamTypes(f, b) /\ OutputKept(f, b) /\ InputKept(sys, f, b)
    /\ EndsHeld(sys, t, f, w, r) /\ Drained(sys, f, b, w)
StreamInv ==
    /\ system \in {"posix", "win32"} /\ DOMAIN buf = Callers
    /\ \A t \in Callers : StreamAt(system, t, ex[t], buf[t], wr[t], rd[t])

\* execute() leaves neither a zombie nor a descriptor behind.
NothingLeft == ChildReaped /\ DescriptorsClosed

\* "the process have to be finished here" (win32/process_impl.cpp:115): where
\* the exit code is asked for, the child has ended.
FinishedHere == \A t \in Callers : ~ex[t].early
=============================================================================
