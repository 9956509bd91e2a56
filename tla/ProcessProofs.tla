---------------------------- MODULE ProcessProofs ----------------------------
(***************************************************************************)
(* What process::execute leaves behind and what passes through its pipes,   *)
(* for every number of callers, every job and every size of the pipes; what *)
(* the handlers are told of a command line, for every command line.         *)
(***************************************************************************)
EXTENDS Process, Daemon, TLAPS, NaturalsInduction, WellFoundedInduction, SequenceTheorems

(* The fields of a frame of execute(). *)
LEMMA FrameFields ==
  DOMAIN Idle = {"pc", "input", "streams", "feed", "plan", "child", "taken", "left", "raw", "text",
                 "cut", "status", "early"}
BY DEF Idle

(* A step of execute() or of the child changes one frame.                  *)
OneFrame(t) ==
  /\ DOMAIN ex' = Callers /\ DOMAIN ex'[t] = DOMAIN Idle
  /\ \A u \in Callers \ {t} : ex'[u] = ex[u]

(* What a step of one caller or its child has to show: nobody gives the     *)
(* parent an end of another caller's pipes, and the frame it leaves.        *)
EndType == [Callers -> [Pipes -> SUBSET (Callers \cup {Parent})]]
ClosedAt(frame, w, r) ==
  frame.pc \in {"idle", "done", "threw"} => \A p \in Pipes : Parent \notin w[p] /\ Parent \notin r[p]
WaitedAt(frame) ==
  system = "posix" =>
    /\ frame.pc # "code"
    /\ frame.pc \in {"out", "err", "return", "done"} =>
          frame.child = "reaped" /\ (~reaper => frame.status = frame.plan.code)
    /\ frame.pc \in {"idle", "pipes", "forked", "write", "wait"} /\ ~reaper => frame.child # "reaped"

(* A step of one frame keeps the invariant if the new frame satisfies it and
   no other caller's pipe gains an end in the parent. *)
LEMMA StepKeeps ==
  ASSUME ProcessInv, NEW t \in Callers, OneFrame(t), UNCHANGED <<system, reaper>>,
         wr' \in EndType, rd' \in EndType,
         \A u \in Callers \ {t}, p \in Pipes :
           (Parent \in wr'[u][p] => Parent \in wr[u][p]) /\ (Parent \in rd'[u][p] => Parent \in rd[u][p]),
         ClosedAt(ex'[t], wr'[t], rd'[t]), WaitedAt(ex'[t])
  PROVE  ProcessInv'
<1>1. /\ DOMAIN ex' = Callers /\ \A u \in Callers : DOMAIN ex'[u] = DOMAIN Idle
      /\ \A u \in Callers \ {t} : ex'[u] = ex[u]
  BY DEF OneFrame, ProcessInv, ProcessTypes
<1>2. ProcessTypes' BY <1>1 DEF ProcessTypes, EndType
<1>3. EndsClosed' BY <1>1 DEF ProcessInv, EndsClosed, ClosedAt
<1>4. WaitedFor' BY <1>1 DEF ProcessInv, WaitedFor, WaitedAt
<1>. QED BY <1>2, <1>3, <1>4 DEF ProcessInv

(* The same when the pipes are left alone and execute() goes on.            *)
LEMMA EndsRest ==
  ASSUME ProcessInv, NEW t \in Callers, OneFrame(t), UNCHANGED <<wr, rd, system, reaper>>,
         ex'[t].pc \in {"idle", "done", "threw"} => ex[t].pc \in {"idle", "done", "threw"},
         WaitedAt(ex'[t])
  PROVE  ProcessInv'
<1>1. wr' \in EndType /\ rd' \in EndType BY DEF ProcessInv, ProcessTypes, EndType
<1>2. ClosedAt(ex'[t], wr'[t], rd'[t]) BY DEF ProcessInv, EndsClosed, ClosedAt
<1>. QED BY <1>1, <1>2, StepKeeps

(* A frame has waited for its child as far as it has come. *)
LEMMA FrameWaited == ASSUME ProcessInv, NEW t \in Callers PROVE WaitedAt(ex[t])
BY DEF ProcessInv, WaitedFor, WaitedAt

(* Steps that move data only.                                              *)
LEMMA DataKeeps ==
  ASSUME ProcessInv, NEW t \in Callers, OneFrame(t), UNCHANGED <<wr, rd, system, reaper>>,
         ex'[t].pc = ex[t].pc, ex'[t].child = ex[t].child,
         ex'[t].status = ex[t].status, ex'[t].plan = ex[t].plan
  PROVE  ProcessInv'
<1>1. WaitedAt(ex'[t]) BY FrameWaited DEF WaitedAt
<1>. QED BY <1>1, EndsRest

(* Bytes that move between parent and child. *)
LEMMA TransferKeeps ==
  ASSUME ProcessInv, NEW t \in Callers,
         \/ ChildReads(t)
         \/ \E p \in {"out", "err"} : ReadStream(t, p) \/ ChildWrites(t, p)
  PROVE  ProcessInv'
<1>1. /\ OneFrame(t) /\ UNCHANGED <<wr, rd, system, reaper>>
      /\ ex'[t].pc = ex[t].pc /\ ex'[t].child = ex[t].child
      /\ ex'[t].status = ex[t].status /\ ex'[t].plan = ex[t].plan
  <2>1. UNCHANGED <<wr, rd, system, reaper>> BY DEF ChildReads, ReadStream, ChildWrites
  <2>2. PICK k \in {"taken", "raw", "left"} : \E v : ex' = [ex EXCEPT ![t] = [ex[t] EXCEPT ![k] = v]]
    <3>1. CASE ChildReads(t) BY <3>1 DEF ChildReads
    <3>2. ASSUME NEW p \in {"out", "err"}, ReadStream(t, p)
          PROVE  \E v : ex' = [ex EXCEPT ![t] = [ex[t] EXCEPT !["raw"] = v]]
      BY <3>2 DEF ReadStream
    <3>3. ASSUME NEW p \in {"out", "err"}, ChildWrites(t, p)
          PROVE  \E v : ex' = [ex EXCEPT ![t] = [ex[t] EXCEPT !["left"] = v]]
      BY <3>3 DEF ChildWrites
    <3>. QED BY <3>1, <3>2, <3>3
  <2>3. PICK v : ex' = [ex EXCEPT ![t] = [ex[t] EXCEPT ![k] = v]] BY <2>2
  <2>. QED BY <2>1, <2>3, FrameFields DEF OneFrame, ProcessInv, ProcessTypes
<1>. QED BY <1>1, DataKeeps

(* fputs into the pipe; without a reader the process ends by SIGPIPE, with  *)
(* every call of execute() in it.                                          *)
LEMMA WriteKeeps ==
  ASSUME ProcessInv, NEW t \in Callers, WriteInput(t)
  PROVE  ProcessInv'
<1>1. UNCHANGED <<wr, rd, system, reaper>> BY DEF WriteInput
<1>2. CASE ex' = [ex EXCEPT ![t].feed = Tail(@)]
  <2>1. /\ OneFrame(t) /\ ex'[t].pc = ex[t].pc /\ ex'[t].child = ex[t].child
        /\ ex'[t].status = ex[t].status /\ ex'[t].plan = ex[t].plan
    BY <1>2, FrameFields DEF OneFrame, ProcessInv, ProcessTypes
  <2>. QED BY <1>1, <2>1, DataKeeps
<1>3. CASE ex' = [u \in Callers |-> [ex[u] EXCEPT !.pc = "killed"]]
  <2>1. DOMAIN ex' = Callers /\ \A u \in Callers : DOMAIN ex'[u] = DOMAIN Idle /\ ex'[u].pc = "killed"
    BY <1>3, FrameFields DEF ProcessInv, ProcessTypes
  <2>2. ProcessTypes' BY <1>1, <2>1 DEF ProcessInv, ProcessTypes
  <2>3. EndsClosed' /\ WaitedFor' BY <2>1 DEF EndsClosed, WaitedFor
  <2>. QED BY <2>2, <2>3 DEF ProcessInv
<1>. QED BY <1>2, <1>3 DEF WriteInput

(* From the call to the running child.                                     *)
LEMMA StartKeeps ==
  ASSUME ProcessInv, NEW t \in Callers,
         Execute(t) \/ PipeFails(t) \/ PosixSpawnFails(t)
  PROVE  ProcessInv'
<1>0. WaitedAt(ex[t]) BY FrameWaited
<1>1. CASE Execute(t)
  <2>0. PICK j \in Jobs :
          ex' = [ex EXCEPT ![t].pc = "pipes", ![t].input = j.input, ![t].streams = j.streams, ![t].plan = j.plan,
                           ![t].left = [p \in {"out", "err"} |-> IF p = "out" THEN j.plan.out ELSE j.plan.err]]
    BY <1>1 DEF Execute
  <2>1. OneFrame(t) /\ ex'[t].pc = "pipes" /\ ex'[t].child = ex[t].child
    <3>1. PICK mid : mid = [ex EXCEPT ![t].pc = "pipes", ![t].input = j.input]
      OBVIOUS
    <3>2. /\ DOMAIN mid = Callers /\ DOMAIN mid[t] = DOMAIN Idle
          /\ \A u \in Callers \ {t} : mid[u] = ex[u]
          /\ mid[t].pc = "pipes" /\ mid[t].child = ex[t].child
      BY <3>1, FrameFields DEF ProcessInv, ProcessTypes
    <3>3. PICK left : ex' = [mid EXCEPT ![t].streams = j.streams, ![t].plan = j.plan, ![t].left = left]
      BY <2>0, <3>1
    <3>. QED BY <3>2, <3>3, FrameFields DEF OneFrame
  <2>2. ex[t].pc = "idle" BY <1>1 DEF Execute, At
  <2>3. wr' \in EndType /\ rd' \in EndType
        /\ \A u \in Callers \ {t} : wr'[u] = wr[u] /\ rd'[u] = rd[u]
    BY <1>1 DEF Execute, ProcessInv, ProcessTypes, EndType
  <2>4. ClosedAt(ex'[t], wr'[t], rd'[t]) /\ WaitedAt(ex'[t])
    BY <1>0, <1>1, <2>1, <2>2 DEF ClosedAt, WaitedAt, Execute
  <2>. QED BY <1>1, <2>1, <2>3, <2>4, StepKeeps DEF Execute
<1>2. CASE PipeFails(t)
  <2>1. OneFrame(t) /\ ex'[t].pc = "threw"
    BY <1>2, FrameFields DEF PipeFails, OneFrame, ProcessInv, ProcessTypes
  <2>2. ex'[t].pc = "threw" /\ ex[t].pc = "idle"
    BY <1>2, <2>1 DEF PipeFails, At
  <2>3. WaitedAt(ex'[t]) BY <2>2 DEF WaitedAt
  <2>. QED BY <1>2, <2>1, <2>2, <2>3, EndsRest DEF PipeFails
<1>3. CASE PosixSpawnFails(t)
  <2>1. OneFrame(t)
    BY <1>3, FrameFields DEF PosixSpawnFails, OneFrame, ProcessInv, ProcessTypes
  <2>2. ex'[t].pc \in {"leaked", "undefined"}
    BY <1>3, FrameFields DEF PosixSpawnFails, ProcessInv, ProcessTypes
  <2>3. WaitedAt(ex'[t]) BY <2>2 DEF WaitedAt
  <2>. QED BY <1>3, <2>1, <2>2, <2>3, EndsRest DEF PosixSpawnFails
<1>. QED BY <1>1, <1>2, <1>3

(* A child inherits ends the parent has, and gives the parent none.        *)
LEMMA SpawnKeeps ==
  ASSUME ProcessInv, NEW t \in Callers, PosixSpawn(t) \/ Win32Spawn(t)
  PROVE  ProcessInv'
<1>1. UNCHANGED <<system, reaper>> BY DEF PosixSpawn, Win32Spawn
<1>2. /\ wr' \in EndType /\ rd' \in EndType
      /\ \A u \in Callers \ {t}, p \in Pipes :
           (Parent \in wr'[u][p] => Parent \in wr[u][p]) /\ (Parent \in rd'[u][p] => Parent \in rd[u][p])
  <2>1. CASE PosixSpawn(t)
    BY <2>1 DEF PosixSpawn, ProcessInv, ProcessTypes, EndType
  <2>2. CASE Win32Spawn(t)
    BY <2>2 DEF Win32Spawn, ProcessInv, ProcessTypes, EndType
  <2>. QED BY <2>1, <2>2
<1>3. OneFrame(t)
  BY FrameFields DEF PosixSpawn, Win32Spawn, OneFrame, ProcessInv, ProcessTypes
<1>4. ex'[t].pc \in {"forked", "write", "undefined"} /\ ex'[t].child = "runs"
  BY FrameFields DEF PosixSpawn, Win32Spawn, ProcessInv, ProcessTypes
<1>5. ClosedAt(ex'[t], wr'[t], rd'[t]) /\ WaitedAt(ex'[t])
  BY <1>4 DEF ClosedAt, WaitedAt
<1>. QED BY <1>1, <1>2, <1>3, <1>5, StepKeeps


(* The parent closes some or all of its ends.                              *)
LEMMA CloseKeeps ==
  ASSUME ProcessInv, NEW t \in Callers,
         ParentCloses(t) \/ PosixInputDone(t) \/ Win32InputDone(t)
  PROVE  ProcessInv'
<1>0. WaitedAt(ex[t]) BY FrameWaited
<1>1. UNCHANGED <<system, reaper>> BY DEF ParentCloses, PosixInputDone, Win32InputDone
<1>2. /\ wr' \in EndType /\ rd' \in EndType
      /\ \A u \in Callers \ {t} : wr'[u] = wr[u] /\ rd'[u] = rd[u]
  <2>1. CASE ParentCloses(t)
    BY <2>1 DEF ParentCloses, ProcessInv, ProcessTypes, EndType, Pipes
  <2>2. CASE PosixInputDone(t)
    BY <2>2 DEF PosixInputDone, ProcessInv, ProcessTypes, EndType, Pipes
  <2>3. CASE Win32InputDone(t)
    BY <2>3 DEF Win32InputDone, ProcessInv, ProcessTypes, EndType
  <2>. QED BY <2>1, <2>2, <2>3
<1>3. OneFrame(t) /\ ex'[t].child = ex[t].child
  BY FrameFields DEF ParentCloses, PosixInputDone, Win32InputDone, OneFrame, ProcessInv, ProcessTypes
<1>4. \/ ex'[t].pc = "write" /\ ex[t].pc = "forked"
      \/ ex'[t].pc = "wait" /\ ex[t].pc = "write"
      \/ ex'[t].pc = "code" /\ system = "win32"
  BY FrameFields DEF ParentCloses, PosixInputDone, Win32InputDone, At, ProcessInv, ProcessTypes
<1>5. ClosedAt(ex'[t], wr'[t], rd'[t]) /\ WaitedAt(ex'[t])
  BY <1>0, <1>1, <1>3, <1>4 DEF ClosedAt, WaitedAt
<1>. QED BY <1>1, <1>2, <1>3, <1>5, StepKeeps

(* close_all() of a caller closes its own pipes and no other. *)
LEMMA CloseAllCloses ==
  ASSUME ProcessInv, NEW t \in Callers, CloseAll(t)
  PROVE  /\ wr' \in EndType /\ rd' \in EndType
         /\ \A u \in Callers \ {t} : wr'[u] = wr[u] /\ rd'[u] = rd[u]
         /\ \A p \in Pipes : Parent \notin wr'[t][p] /\ Parent \notin rd'[t][p]
BY DEF CloseAll, ProcessInv, ProcessTypes, EndType

(* The ways out of execute(). *)
LEMMA LeaveKeeps ==
  ASSUME ProcessInv, NEW t \in Callers, Win32SpawnFails(t) \/ Return(t)
  PROVE  ProcessInv'
<1>0. WaitedAt(ex[t]) BY FrameWaited
<1>1. UNCHANGED <<system, reaper>> /\ CloseAll(t) BY DEF Win32SpawnFails, Return
<1>2. /\ OneFrame(t) /\ ex'[t].child = ex[t].child /\ ex'[t].status = ex[t].status
      /\ ex'[t].plan = ex[t].plan
  BY FrameFields DEF Win32SpawnFails, Return, OneFrame, ProcessInv, ProcessTypes
<1>3. ex'[t].pc = "threw" \/ (ex'[t].pc = "done" /\ ex[t].pc = "return")
  BY FrameFields DEF Win32SpawnFails, Return, At, ProcessInv, ProcessTypes
<1>4. WaitedAt(ex'[t]) BY <1>0, <1>1, <1>2, <1>3 DEF WaitedAt
<1>5. ClosedAt(ex'[t], wr'[t], rd'[t]) BY <1>1, CloseAllCloses DEF ClosedAt
<1>. QED BY <1>1, <1>2, <1>4, <1>5, CloseAllCloses, StepKeeps

(* waitpid: a zombie gives its code; when the handler was first, the code is *)
(* lost, but no child is left.                                              *)
LEMMA WaitKeeps ==
  ASSUME ProcessInv, NEW t \in Callers, Wait(t) \/ Win32ExitCode(t)
  PROVE  ProcessInv'
<1>0. WaitedAt(ex[t]) BY FrameWaited
<1>1. UNCHANGED <<wr, rd, system, reaper>> BY DEF Wait, Win32ExitCode, ends
<1>2. CASE Win32ExitCode(t)
  <2>1. OneFrame(t)
    BY <1>2, FrameFields DEF Win32ExitCode, OneFrame, ProcessInv, ProcessTypes
  <2>2. ex'[t].pc = "out"
    BY <1>2, FrameFields DEF Win32ExitCode, ProcessInv, ProcessTypes
  <2>3. system # "posix" BY <1>0, <1>2 DEF Win32ExitCode, At, WaitedAt
  <2>4. WaitedAt(ex'[t]) BY <2>3 DEF WaitedAt
  <2>. QED BY <1>1, <2>1, <2>2, <2>4, EndsRest
<1>3. CASE Wait(t) /\ ex[t].child = "zombie"
  <2>1. OneFrame(t)
    BY <1>3, FrameFields DEF Wait, OneFrame, ProcessInv, ProcessTypes
  <2>2. /\ ex'[t].pc = "out" /\ ex'[t].child = "reaped"
        /\ ex'[t].status = ex[t].plan.code /\ ex'[t].plan = ex[t].plan
    BY <1>3, FrameFields DEF Wait, ProcessInv, ProcessTypes
  <2>3. WaitedAt(ex'[t]) BY <2>2 DEF WaitedAt
  <2>. QED BY <1>1, <2>1, <2>2, <2>3, EndsRest
<1>4. CASE Wait(t) /\ ex[t].child = "reaped"
  <2>0. PICK s \in Codes : ex' = [ex EXCEPT ![t].pc = "out", ![t].status = s]
    BY <1>4 DEF Wait
  <2>1. OneFrame(t)
    BY <2>0, FrameFields DEF OneFrame, ProcessInv, ProcessTypes
  <2>2. ex'[t].pc = "out" /\ ex'[t].child = "reaped"
    BY <1>4, <2>0, FrameFields DEF ProcessInv, ProcessTypes
  <2>3. system = "posix" => reaper BY <1>0, <1>4 DEF Wait, At, WaitedAt
  <2>4. WaitedAt(ex'[t]) BY <2>2, <2>3 DEF WaitedAt
  <2>. QED BY <1>1, <2>1, <2>2, <2>4, EndsRest
<1>. QED BY <1>2, <1>3, <1>4 DEF Wait

(* The end of a stream.                                                    *)
LEMMA EndStreamKeeps ==
  ASSUME ProcessInv, NEW t \in Callers, NEW p \in {"out", "err"}, EndStream(t, p) \/ SinkFails(t, p)
  PROVE  ProcessInv'
<1>0. WaitedAt(ex[t]) BY FrameWaited
<1>1. UNCHANGED <<wr, system, reaper>> /\ ex[t].pc = p
  BY DEF EndStream, SinkFails, At
<1>2. /\ wr' \in EndType /\ rd' \in EndType
      /\ \A u \in Callers \ {t} : wr'[u] = wr[u] /\ rd'[u] = rd[u]
  <2>1. CASE rd' = rd BY <1>1, <2>1 DEF ProcessInv, ProcessTypes, EndType
  <2>2. CASE rd' = [rd EXCEPT ![t][p] = @ \ {Parent}]
    BY <1>1, <2>2 DEF ProcessInv, ProcessTypes, EndType, Pipes
  <2>. QED BY <2>1, <2>2 DEF EndStream, SinkFails
<1>3. OneFrame(t)
  BY FrameFields DEF EndStream, SinkFails, OneFrame, ProcessInv, ProcessTypes
<1>4. /\ ex'[t].pc \in {"err", "return"} /\ ex'[t].child = ex[t].child
      /\ ex'[t].status = ex[t].status /\ ex'[t].plan = ex[t].plan
  BY FrameFields DEF EndStream, SinkFails, After, ProcessInv, ProcessTypes
<1>5. ClosedAt(ex'[t], wr'[t], rd'[t]) /\ WaitedAt(ex'[t])
  BY <1>0, <1>1, <1>4 DEF ClosedAt, WaitedAt
<1>. QED BY <1>1, <1>2, <1>3, <1>5, StepKeeps

(* A child that ends takes its ends of all pipes with it.                  *)
LEMMA ExitKeeps ==
  ASSUME ProcessInv, NEW t \in Callers, ChildExits(t)
  PROVE  ProcessInv'
<1>0. WaitedAt(ex[t]) BY FrameWaited
<1>1. UNCHANGED <<system, reaper>> /\ ex[t].child = "runs" BY DEF ChildExits
<1>2. /\ wr' \in EndType /\ rd' \in EndType
      /\ \A u \in Callers, p \in Pipes :
           (Parent \in wr'[u][p] => Parent \in wr[u][p]) /\ (Parent \in rd'[u][p] => Parent \in rd[u][p])
  BY DEF ChildExits, ProcessInv, ProcessTypes, EndType
<1>3. OneFrame(t) BY FrameFields DEF ChildExits, OneFrame, ProcessInv, ProcessTypes
<1>4. ex'[t].pc = ex[t].pc /\ ex'[t].child = "zombie"
  BY FrameFields DEF ChildExits, ProcessInv, ProcessTypes
<1>5. ClosedAt(ex'[t], wr'[t], rd'[t])
  BY <1>2, <1>4 DEF ClosedAt, ProcessInv, EndsClosed
<1>6. WaitedAt(ex'[t])
  BY <1>0, <1>1, <1>4 DEF WaitedAt
<1>. QED BY <1>1, <1>2, <1>3, <1>5, <1>6, StepKeeps

(* The daemon's handlers.                                                  *)
LEMMA SignalKeeps ==
  ASSUME ProcessInv, CatchSignals \/ Sigchld
  PROVE  ProcessInv'
<1>1. UNCHANGED <<wr, rd, system>> /\ reaper' = TRUE
  <2>1. CASE CatchSignals BY <2>1 DEF CatchSignals, ends
  <2>2. CASE Sigchld
    <3>1. reaper /\ reaper' = reaper /\ UNCHANGED <<wr, rd, system>> BY <2>2 DEF Sigchld, ends
    <3>. QED BY <3>1
  <2>. QED BY <2>1, <2>2
<1>2. /\ DOMAIN ex' = Callers
      /\ \A t \in Callers : /\ DOMAIN ex'[t] = DOMAIN Idle /\ ex'[t].pc = ex[t].pc
                            /\ ex[t].child = "reaped" => ex'[t].child = "reaped"
  <2>1. CASE ex' = ex BY <2>1 DEF ProcessInv, ProcessTypes
  <2>2. CASE ex' = [t \in Callers |-> IF ex[t].child = "zombie"
                                      THEN [ex[t] EXCEPT !.child = "reaped"] ELSE ex[t]]
    BY <2>2, FrameFields DEF ProcessInv, ProcessTypes
  <2>. QED BY <2>1, <2>2 DEF CatchSignals, Sigchld
<1>3. ProcessTypes' BY <1>1, <1>2 DEF ProcessInv, ProcessTypes
<1>4. EndsClosed' BY <1>1, <1>2 DEF ProcessInv, EndsClosed
<1>5. WaitedFor' BY <1>1, <1>2 DEF ProcessInv, WaitedFor
<1>. QED BY <1>3, <1>4, <1>5 DEF ProcessInv

(* Every step keeps the invariant. *)
LEMMA ProcessStep == ProcessInv /\ [ProcessNext]_processVars => ProcessInv'
<1>. SUFFICES ASSUME ProcessInv, [ProcessNext]_processVars PROVE ProcessInv'
  OBVIOUS
<1>1. ASSUME NEW t \in Callers, Execute(t) \/ PipeFails(t) \/ PosixSpawnFails(t) PROVE ProcessInv'
  BY <1>1, StartKeeps
<1>2. ASSUME NEW t \in Callers, Win32SpawnFails(t) \/ Return(t) PROVE ProcessInv'
  BY <1>2, LeaveKeeps
<1>3. ASSUME NEW t \in Callers, PosixSpawn(t) \/ Win32Spawn(t) PROVE ProcessInv'
  BY <1>3, SpawnKeeps
<1>4. ASSUME NEW t \in Callers, ParentCloses(t) \/ PosixInputDone(t) \/ Win32InputDone(t) PROVE ProcessInv'
  BY <1>4, CloseKeeps
<1>5. ASSUME NEW t \in Callers, WriteInput(t) PROVE ProcessInv'
  BY <1>5, WriteKeeps
<1>6. ASSUME NEW t \in Callers, Win32ExitCode(t) \/ Wait(t) PROVE ProcessInv'
  BY <1>6, WaitKeeps
<1>7. ASSUME NEW t \in Callers, NEW p \in {"out", "err"}, EndStream(t, p) \/ SinkFails(t, p)
      PROVE  ProcessInv'
  BY <1>7, EndStreamKeeps
<1>8. ASSUME NEW t \in Callers,
             ChildReads(t) \/ \E p \in {"out", "err"} : ReadStream(t, p) \/ ChildWrites(t, p)
      PROVE  ProcessInv'
  BY <1>8, TransferKeeps
<1>9. ASSUME NEW t \in Callers, ChildExits(t) PROVE ProcessInv'
  BY <1>9, ExitKeeps
<1>10. CASE CatchSignals \/ Sigchld
  BY <1>10, SignalKeeps
<1>11. CASE UNCHANGED processVars
  BY <1>11 DEF processVars, ProcessInv, ProcessTypes, EndsClosed, WaitedFor
<1>. QED
  BY <1>1, <1>2, <1>3, <1>4, <1>5, <1>6, <1>7, <1>8, <1>9, <1>10, <1>11
  DEF ProcessNext, ParentStep, ChildStep

(* The initial states satisfy the invariant. *)
LEMMA ProcessStarts == ProcessInit => ProcessInv
<1>. SUFFICES ASSUME ProcessInit PROVE ProcessInv
  OBVIOUS
<1>1. \A t \in Callers : ex[t] = Idle /\ Idle.pc = "idle" /\ Idle.child = "none"
  BY DEF ProcessInit, Idle
<1>2. ProcessTypes BY <1>1 DEF ProcessInit, ProcessTypes
<1>3. EndsClosed BY DEF ProcessInit, EndsClosed
<1>4. WaitedFor BY <1>1 DEF WaitedFor
<1>. QED BY <1>2, <1>3, <1>4 DEF ProcessInv

(* process::execute, called by any number of threads at once, with or       *)
(* without the daemon's SIGCHLD handler: a call that returned has left no   *)
(* zombie, and however it ended, but for a failed vfork, the parent has no  *)
(* descriptor of its pipes.                                                 *)
THEOREM ExecuteSafe == ProcessSpec => []NothingLeft
<1>2. ProcessInv => NothingLeft
  BY DEF ProcessInv, EndsClosed, WaitedFor, NothingLeft, ChildReaped, DescriptorsClosed, At
<1>. QED BY <1>2, ProcessStarts, ProcessStep, PTL DEF ProcessSpec

-----------------------------------------------------------------------------
(* What passes through the buffer of execute().                            *)

(* A set of naturals has a least element. *)
LEMMA LeastNatural ==
  ASSUME NEW S \in SUBSET Nat, S # {}
  PROVE  \E m \in S : \A k \in S : m <= k
<1>1. \A k, m \in Nat : k < m => <<k, m>> \in OpToRel(<, Nat)
  BY DEF OpToRel
<1>2. PICK R : IsWellFoundedOn(R, Nat) /\ \A k, m \in Nat : k < m => <<k, m>> \in R
  BY <1>1, NatLessThanWellFounded
<1>3. IsWellFoundedOn(R, Nat)
  BY <1>2
<1>4. PICK m \in S : \A k \in S : ~(<<k, m>> \in R)
  BY <1>3, WFMin
<1>5. \A k \in S : ~(k < m)
  BY <1>2, <1>4
<1>. QED BY <1>5

(* Induction over Nat for a set, from the least counterexample. *)
LEMMA Induction ==
  ASSUME NEW S, 0 \in S, \A n \in Nat : n \in S => n + 1 \in S
  PROVE  \A n \in Nat : n \in S
<1>. DEFINE Bad == {n \in Nat : n \notin S}
<1>1. SUFFICES ASSUME Bad # {} PROVE FALSE OBVIOUS
<1>2. PICK m \in Bad : \A k \in Bad : m <= k
  <2>1. Bad \in SUBSET Nat OBVIOUS
  <2>. QED BY <1>1, <2>1, LeastNatural
<1>3. m # 0 OBVIOUS
<1>4. m - 1 \in Nat /\ m - 1 \in S BY <1>2, <1>3
<1>. QED BY <1>4

Iterable(S, b, F) == \E g \in [Nat -> S] : g[0] = b /\ \A n \in Nat : g[n + 1] = F[n][g[n]]
(* The function that iterates another one over Nat exists. *)
LEMMA Iteration ==
  ASSUME NEW S, NEW b \in S, NEW F \in [Nat -> [S -> S]]
  PROVE  Iterable(S, b, F)
<1>. DEFINE Good(n) == {h \in [0 .. n -> S] : h[0] = b /\ \A i \in 0 .. (n - 1) : h[i + 1] = F[i][h[i]]}
            Has == {n \in Nat : Good(n) # {}}
<1>1. \A n \in Nat : n \in Has
  <2>1. 0 \in Has
    <3>1. [i \in 0 .. 0 |-> b] \in Good(0) OBVIOUS
    <3>. QED BY <3>1
  <2>2. ASSUME NEW n \in Nat, n \in Has PROVE n + 1 \in Has
    <3>1. PICK h \in Good(n) : TRUE BY <2>2
    <3>2. PICK g : g = [i \in 0 .. (n + 1) |-> IF i = n + 1 THEN F[n][h[n]] ELSE h[i]] OBVIOUS
    <3>3. g \in Good(n + 1)
      <4>0. h[n] \in S /\ F[n][h[n]] \in S BY <3>1
      <4>1. g \in [0 .. (n + 1) -> S] BY <3>1, <3>2, <4>0
      <4>2. g[0] = b BY <3>1, <3>2
      <4>3. \A i \in 0 .. (n + 1 - 1) : g[i + 1] = F[i][g[i]] BY <3>1, <3>2
      <4>. QED BY <4>1, <4>2, <4>3
    <3>. QED BY <3>3
  <2>. HIDE DEF Has
  <2>. QED BY <2>1, <2>2, Induction
<1>g. \A n \in Nat : \A h \in Good(n) : /\ h \in [0 .. n -> S] /\ h[0] = b
                                      /\ \A i \in 0 .. (n - 1) : h[i + 1] = F[i][h[i]]
  OBVIOUS
<1>h. \A n \in Nat : Good(n) # {} BY <1>1
<1>. HIDE DEF Good, Has
<1>2. \A i \in Nat : \A m, n \in Nat : i <= m /\ i <= n => \A h \in Good(m), k \in Good(n) : h[i] = k[i]
  <2>. DEFINE Same == {i \in Nat : \A m, n \in Nat : i <= m /\ i <= n => \A h \in Good(m), k \in Good(n) : h[i] = k[i]}
  <2>1. 0 \in Same BY <1>g
  <2>2. ASSUME NEW i \in Nat, i \in Same PROVE i + 1 \in Same
    <3>1. ASSUME NEW m \in Nat, NEW n \in Nat, i + 1 <= m, i + 1 <= n, NEW h \in Good(m), NEW k \in Good(n)
          PROVE  h[i + 1] = k[i + 1]
      <4>1. i <= m /\ i <= n /\ i \in 0 .. (m - 1) /\ i \in 0 .. (n - 1) BY <3>1
      <4>2. h[i] = k[i] BY <2>2, <4>1
      <4>. QED BY <1>g, <4>1, <4>2
    <3>. QED BY <3>1
  <2>. HIDE DEF Same
  <2>3. \A i \in Nat : i \in Same BY <2>1, <2>2, Induction
  <2>. QED BY <2>3 DEF Same
<1>3. PICK c : c = [n \in Nat |-> CHOOSE h : h \in Good(n)] OBVIOUS
<1>4. \A n \in Nat : c[n] \in Good(n) BY <1>h, <1>3
<1>5. PICK g : g = [n \in Nat |-> c[n][n]] OBVIOUS
<1>6. g \in [Nat -> S]
  <2>1. ASSUME NEW n \in Nat PROVE c[n][n] \in S BY <1>4, <1>g
  <2>. QED BY <1>5, <2>1
<1>7. g[0] = b BY <1>4, <1>5, <1>g
<1>8. ASSUME NEW n \in Nat PROVE g[n + 1] = F[n][g[n]]
  <2>1. c[n + 1] \in Good(n + 1) /\ c[n] \in Good(n) BY <1>4
  <2>2. c[n + 1][n] = c[n][n]
    <3>1. n \in Nat /\ n + 1 \in Nat /\ n <= n /\ n <= n + 1 OBVIOUS
    <3>. QED BY <1>2, <2>1, <3>1
  <2>3. c[n + 1][n + 1] = F[n][c[n + 1][n]] BY <1>g, <2>1
  <2>. QED BY <1>5, <2>2, <2>3
<1>. QED BY <1>6, <1>7, <1>8 DEF Iterable

(* What the read loops hand on is cut at its first NUL. *)
HasNul(s) == \E i \in 1 .. Len(s) : s[i] = "0"

(* A line cut at its first NUL. *)
LEMMA UpToNulFacts ==
  ASSUME NEW X, NEW s \in Seq(X)
  PROVE  /\ UpToNul(s) \in Seq(X) /\ Len(UpToNul(s)) <= Len(s)
         /\ ~HasNul(s) => UpToNul(s) = s
         /\ HasNul(s) => Len(UpToNul(s)) < Len(s)
<1>. DEFINE nuls == {i \in DOMAIN s : s[i] = "0"}
<1>1. DOMAIN s = 1 .. Len(s) /\ Len(s) \in Nat OBVIOUS
<1>2. CASE ~HasNul(s)
  <2>1. nuls = {} BY <1>1, <1>2 DEF HasNul
  <2>2. UpToNul(s) = s BY <2>1, Zenon DEF UpToNul
  <2>. QED BY <1>1, <1>2, <2>2
<1>3. CASE HasNul(s)
  <2>1. nuls # {} /\ nuls \in SUBSET Nat /\ nuls \subseteq 1 .. Len(s) BY <1>1, <1>3 DEF HasNul
  <2>2. PICK m : m = CHOOSE i \in nuls : \A j \in nuls : i <= j OBVIOUS
  <2>3. m \in nuls
    <3>. HIDE DEF nuls
    <3>1. \E i \in nuls : \A j \in nuls : i <= j BY <2>1, LeastNatural, Zenon
    <3>. QED BY <2>2, <3>1, Zenon
  <2>4. m \in 1 .. Len(s) BY <2>1, <2>3
  <2>5. UpToNul(s) = SubSeq(s, 1, m - 1) BY <2>1, <2>2, Zenon DEF UpToNul
  <2>6. SubSeq(s, 1, m - 1) \in Seq(X) /\ Len(SubSeq(s, 1, m - 1)) = m - 1
    <3>1. m - 1 \in 0 .. Len(s) /\ 1 \in 1 .. Len(s) + 1 /\ \A i \in 1 .. (m - 1) : s[i] \in X BY <2>4, <1>1
    <3>. QED BY <3>1, <2>4, <1>1
  <2>. QED BY <1>1, <1>3, <2>4, <2>5, <2>6
<1>. QED BY <1>2, <1>3

State(X) == [text : Seq(X), part : Seq(X)]
Begin == [text |-> <<>>, part |-> <<>>]
(* One symbol.                                                             *)
Put(x, c, stops) ==
  LET part == Append(x.part, c)
  IN  IF c \in stops \/ Len(part) = BUF_SIZE - 1
      THEN [text |-> x.text \o UpToNul(part), part |-> <<>>]
      ELSE [text |-> x.text, part |-> part]

(* A symbol more keeps the state of a reader one. *)
LEMMA PutType ==
  ASSUME NEW X, NEW x \in State(X), NEW c \in X, NEW stops
  PROVE  Put(x, c, stops) \in State(X)
<1>1. x.text \in Seq(X) /\ x.part \in Seq(X) BY DEF State
<1>a. Append(x.part, c) \in Seq(X) BY <1>1
<1>2. PICK part \in Seq(X) : part = Append(x.part, c) BY <1>a, Zenon
<1>3. UpToNul(part) \in Seq(X) BY UpToNulFacts
<1>4. x.text \o UpToNul(part) \in Seq(X) /\ <<>> \in Seq(X) BY <1>1, <1>3
<1>. QED BY <1>1, <1>2, <1>4, Zenon DEF Put, State

(* The pass of Pieces as a function on Nat.                                *)
Passes(g, s, stops) == g[0] = Begin /\ \A n \in 0 .. (Len(s) - 1) : g[n + 1] = Put(g[n], s[n + 1], stops)

(* A reader's states over a sequence exist. *)
LEMMA PassExists ==
  ASSUME NEW X, NEW s \in Seq(X), NEW stops
  PROVE  \E g \in [Nat -> State(X)] : Passes(g, s, stops)
<1>1. PICK F : F = [n \in Nat |-> [x \in State(X) |-> IF n + 1 \in 1 .. Len(s) THEN Put(x, s[n + 1], stops) ELSE x]]
  OBVIOUS
<1>2. F \in [Nat -> [State(X) -> State(X)]]
  <2>1. ASSUME NEW n \in Nat, NEW x \in State(X)
        PROVE  (IF n + 1 \in 1 .. Len(s) THEN Put(x, s[n + 1], stops) ELSE x) \in State(X)
    <3>1. CASE n + 1 \in 1 .. Len(s)
      <4>1. s[n + 1] \in X BY <3>1
      <4>. QED BY <3>1, <4>1, PutType
    <3>. QED BY <3>1
  <2>. QED BY <1>1, <2>1
<1>3. Begin \in State(X) BY DEF Begin, State
<1>4. Iterable(State(X), Begin, F) BY <1>2, <1>3, Iteration, Zenon
<1>5. PICK g \in [Nat -> State(X)] : g[0] = Begin /\ \A n \in Nat : g[n + 1] = F[n][g[n]]
  BY <1>4, Zenon DEF Iterable
<1>6. ASSUME NEW n \in 0 .. (Len(s) - 1) PROVE g[n + 1] = Put(g[n], s[n + 1], stops)
  <2>1. n \in Nat /\ n + 1 \in 1 .. Len(s) OBVIOUS
  <2>2. g[n] \in State(X) BY <2>1
  <2>3. F[n][g[n]] = Put(g[n], s[n + 1], stops) BY <1>1, <2>1, <2>2, Zenon
  <2>. QED BY <1>5, <2>1, <2>3, Zenon
<1>. QED BY <1>5, <1>6, Zenon DEF Passes

(* Pieces is the last of them. *)
LEMMA PiecesIsPass ==
  ASSUME NEW X, NEW s \in Seq(X), NEW stops, NEW g \in [Nat -> State(X)], Passes(g, s, stops)
  PROVE  Pieces(s, stops) = g[Len(s)]
<1>. DEFINE Eq(f) == f = [i \in 0 .. Len(s) |-> IF i = 0 THEN Begin ELSE Put(f[i - 1], s[i], stops)]
<1>0. Len(s) \in Nat OBVIOUS
<1>1. Pieces(s, stops) = (CHOOSE f : Eq(f))[Len(s)] BY Zenon DEF Pieces, Put, Begin
<1>2. PICK h : h = [i \in 0 .. Len(s) |-> g[i]] OBVIOUS
<1>3. Eq(h)
  <2>1. ASSUME NEW i \in 0 .. Len(s) PROVE g[i] = IF i = 0 THEN Begin ELSE Put(h[i - 1], s[i], stops)
    <3>1. CASE i = 0 BY <3>1 DEF Passes
    <3>2. CASE i # 0
      <4>1. i - 1 \in 0 .. (Len(s) - 1) /\ i - 1 + 1 = i /\ i - 1 \in 0 .. Len(s) BY <1>0, <3>2
      <4>2. h[i - 1] = g[i - 1] BY <1>2, <4>1, Zenon
      <4>3. g[i - 1 + 1] = Put(g[i - 1], s[i - 1 + 1], stops) BY <4>1, Zenon DEF Passes
      <4>. QED BY <3>2, <4>1, <4>2, <4>3, Zenon
    <3>. QED BY <3>1, <3>2
  <2>. QED BY <1>2, <2>1, Zenon
<1>4. PICK f : f = (CHOOSE q : Eq(q)) OBVIOUS
<1>5. Eq(f) BY <1>3, <1>4, Zenon
<1>6. \A i \in 0 .. Len(s) : f[i] = IF i = 0 THEN Begin ELSE Put(f[i - 1], s[i], stops) BY <1>5, Zenon
<1>7. \A i \in 0 .. Len(s) : h[i] = IF i = 0 THEN Begin ELSE Put(h[i - 1], s[i], stops) BY <1>3, Zenon
<1>8. \A n \in Nat : n \in 0 .. Len(s) => f[n] = h[n]
  <2>. DEFINE Agree == {n \in Nat : n \in 0 .. Len(s) => f[n] = h[n]}
  <2>1. 0 \in Agree
    <3>1. 0 \in 0 .. Len(s) BY <1>0
    <3>2. f[0] = Begin /\ h[0] = Begin BY <1>6, <1>7, <3>1, Zenon
    <3>. QED BY <3>2
  <2>2. ASSUME NEW n \in Nat, n \in Agree PROVE n + 1 \in Agree
    <3>1. ASSUME n + 1 \in 0 .. Len(s) PROVE f[n + 1] = h[n + 1]
      <4>1. n \in 0 .. Len(s) /\ n + 1 # 0 /\ n + 1 - 1 = n BY <1>0, <3>1
      <4>2. f[n] = h[n] BY <2>2, <4>1
      <4>3. PICK j \in 0 .. Len(s) : j = n + 1 BY <3>1
      <4>4. j # 0 /\ j - 1 = n BY <4>1, <4>3
      <4>5. f[j] = Put(f[j - 1], s[j], stops) BY <1>6, <4>4, Zenon
      <4>6. h[j] = Put(h[j - 1], s[j], stops) BY <1>7, <4>4, Zenon
      <4>. QED BY <4>2, <4>3, <4>4, <4>5, <4>6, Zenon
    <3>. QED BY <3>1
  <2>. HIDE DEF Agree
  <2>3. \A n \in Nat : n \in Agree BY <2>1, <2>2, Induction
  <2>. QED BY <2>3 DEF Agree
<1>9. Len(s) \in 0 .. Len(s) BY <1>0
<1>. QED BY <1>0, <1>1, <1>2, <1>4, <1>8, <1>9, Zenon

Carried(i, s, x) ==
  /\ Len(x.text) + Len(x.part) <= i
  /\ (\A j \in 1 .. i : s[j] # "0") =>
       /\ Len(x.text) + Len(x.part) = i
       /\ \A k \in 1 .. Len(x.text) : x.text[k] = s[k]
       /\ \A k \in 1 .. Len(x.part) : x.part[k] = s[Len(x.text) + k]
  /\ (\E j \in 1 .. i : s[j] = "0") => Len(x.text) + Len(x.part) < i \/ HasNul(x.part)

(* A symbol more that reaches the reader. *)
LEMMA PutCarries ==
  ASSUME NEW X, NEW s \in Seq(X), NEW i \in 0 .. (Len(s) - 1), NEW x \in State(X), NEW stops,
         Carried(i, s, x)
  PROVE  Carried(i + 1, s, Put(x, s[i + 1], stops))
<1>0. i \in Nat /\ Len(s) \in Nat /\ i + 1 \in 1 .. Len(s) /\ s[i + 1] \in X OBVIOUS
<1>1. PICK text \in Seq(X), last \in Seq(X), c \in X : text = x.text /\ last = x.part /\ c = s[i + 1]
  BY <1>0 DEF State
<1>2. PICK part \in Seq(X) : part = Append(last, c)
  <2>1. Append(last, c) \in Seq(X) OBVIOUS
  <2>. QED BY <2>1, Zenon
<1>3. /\ Len(text) \in Nat /\ Len(last) \in Nat /\ Len(part) = Len(last) + 1
      /\ part[Len(last) + 1] = c /\ \A k \in 1 .. Len(last) : part[k] = last[k]
  BY <1>2
<1>4. HasNul(part) <=> HasNul(last) \/ c = "0"
  <2>0. PICK n \in Nat : n = Len(last) BY <1>3, Zenon
  <2>1. \A k : k \in 1 .. (n + 1) <=> k \in 1 .. n \/ k = n + 1 OBVIOUS
  <2>2. Len(part) = n + 1 /\ part[n + 1] = c /\ \A k \in 1 .. n : part[k] = last[k] BY <1>3, <2>0, Zenon
  <2>3. (\E k \in 1 .. (n + 1) : part[k] = "0") <=> (\E k \in 1 .. n : last[k] = "0") \/ c = "0"
    BY <2>1, <2>2, Zenon
  <2>. QED BY <2>0, <2>2, <2>3, Zenon DEF HasNul
<1>5. /\ Len(text) + Len(last) <= i
      /\ (\A j \in 1 .. i : s[j] # "0") =>
           /\ Len(text) + Len(last) = i
           /\ \A k \in 1 .. Len(text) : text[k] = s[k]
           /\ \A k \in 1 .. Len(last) : last[k] = s[Len(text) + k]
      /\ (\E j \in 1 .. i : s[j] = "0") => Len(text) + Len(last) < i \/ HasNul(last)
  BY <1>1, Zenon DEF Carried
<1>6. ASSUME \A j \in 1 .. (i + 1) : s[j] # "0"
      PROVE  /\ Len(text) + Len(part) = i + 1
             /\ \A k \in 1 .. Len(text) : text[k] = s[k]
             /\ \A k \in 1 .. Len(part) : part[k] = s[Len(text) + k]
             /\ ~HasNul(part)
  <2>1. \A j \in 1 .. i : s[j] # "0" BY <1>0, <1>6
  <2>2. /\ Len(text) + Len(last) = i
        /\ \A k \in 1 .. Len(text) : text[k] = s[k]
        /\ \A k \in 1 .. Len(last) : last[k] = s[Len(text) + k]
    BY <1>5, <2>1
  <2>a. Len(text) + Len(last) = i /\ \A k \in 1 .. Len(last) : last[k] = s[Len(text) + k] BY <2>2, Zenon
  <2>b. PICK a \in Nat, b \in Nat : a = Len(text) /\ b = Len(last) BY <1>3
  <2>c. a + b = i /\ Len(part) = b + 1 BY <1>3, <2>a, <2>b, Zenon
  <2>4. Len(text) + Len(part) = i + 1
    <3>1. a + (b + 1) = i + 1 BY <2>c
    <3>. QED BY <2>b, <2>c, <3>1, Zenon
  <2>3. ASSUME NEW k \in 1 .. Len(part) PROVE part[k] = s[Len(text) + k]
    <3>1. k \in 1 .. (b + 1) BY <2>c
    <3>2. CASE k = b + 1
      <4>1. a + k = i + 1 BY <2>c, <3>2
      <4>. QED BY <1>1, <1>3, <2>b, <3>2, <4>1, Zenon
    <3>3. CASE k # b + 1
      <4>1. k \in 1 .. b BY <3>1, <3>3
      <4>. QED BY <1>3, <2>a, <2>b, <4>1, Zenon
    <3>. QED BY <3>2, <3>3
  <2>5. ~HasNul(part)
    <3>1. ASSUME NEW k \in 1 .. Len(part) PROVE part[k] # "0"
      <4>1. Len(text) + k \in 1 .. (i + 1) BY <1>0, <1>3, <2>4
      <4>. QED BY <1>6, <2>3, <4>1
    <3>. QED BY <3>1 DEF HasNul
  <2>. QED BY <2>2, <2>3, <2>4, <2>5
<1>7. ASSUME \E j \in 1 .. (i + 1) : s[j] = "0"
      PROVE  Len(text) + Len(part) < i + 1 \/ HasNul(part)
  <2>1. CASE c = "0" BY <1>4, <2>1
  <2>2. CASE c # "0"
    <3>1. \E j \in 1 .. i : s[j] = "0" 
      <4>1. PICK j \in 1 .. (i + 1) : s[j] = "0" BY <1>7
      <4>2. j # i + 1 BY <1>1, <2>2, <4>1
      <4>3. j \in 1 .. i BY <1>0, <4>2
      <4>. QED BY <4>1, <4>3, Zenon
    <3>2. Len(text) + Len(last) < i \/ HasNul(last) BY <1>5, <3>1
    <3>3. CASE HasNul(last) BY <1>4, <3>3, Zenon
    <3>4. CASE Len(text) + Len(last) < i BY <1>0, <1>3, <3>4
    <3>. QED BY <3>2, <3>3, <3>4
  <2>. QED BY <2>1, <2>2
<1>8. Len(text) + Len(part) <= i + 1 BY <1>0, <1>3, <1>5
<1>9. CASE ~(c \in stops \/ Len(part) = BUF_SIZE - 1)
  <2>1. Put(x, c, stops) = [text |-> text, part |-> part] BY <1>1, <1>2, <1>9, Zenon DEF Put
  <2>2. PICK y : y = Put(x, c, stops) OBVIOUS
  <2>3. y.text = text /\ y.part = part BY <2>1, <2>2
  <2>4. Carried(i + 1, s, y) BY <1>6, <1>7, <1>8, <2>3, Zenon DEF Carried
  <2>. QED BY <1>1, <2>2, <2>4, Zenon
<1>10. CASE c \in stops \/ Len(part) = BUF_SIZE - 1
  <2>0. PICK cut \in Seq(X) :
          /\ cut = UpToNul(part) /\ Len(cut) <= Len(part)
          /\ ~HasNul(part) => cut = part
          /\ HasNul(part) => Len(cut) < Len(part)
    BY UpToNulFacts, Zenon
  <2>1. Put(x, c, stops) = [text |-> text \o cut, part |-> <<>>] BY <1>1, <1>2, <1>10, <2>0, Zenon DEF Put
  <2>2. PICK y : y = Put(x, c, stops) OBVIOUS
  <2>3. y.text = text \o cut /\ y.part = <<>> BY <2>1, <2>2
  <2>4. PICK new \in Seq(X) : new = text \o cut
    <3>1. text \o cut \in Seq(X) OBVIOUS
    <3>. QED BY <3>1, Zenon
  <2>5. /\ Len(new) = Len(text) + Len(cut) /\ Len(cut) \in Nat
        /\ \A k \in 1 .. Len(new) : new[k] = IF k <= Len(text) THEN text[k] ELSE cut[k - Len(text)]
    BY <2>4
  <2>6. y.text = new /\ y.part = <<>> /\ Len(y.part) = 0 BY <2>3, <2>4
  <2>7. Len(new) + 0 <= i + 1 BY <1>0, <1>3, <1>8, <2>0, <2>5
  <2>8. ASSUME \A j \in 1 .. (i + 1) : s[j] # "0"
        PROVE  Len(new) + 0 = i + 1 /\ \A k \in 1 .. Len(new) : new[k] = s[k]
    <3>1. cut = part BY <1>6, <2>0, <2>8
    <3>2. /\ Len(text) + Len(part) = i + 1
          /\ \A k \in 1 .. Len(text) : text[k] = s[k]
          /\ \A k \in 1 .. Len(part) : part[k] = s[Len(text) + k]
      BY <1>6, <2>8
    <3>3. Len(new) = i + 1 BY <2>5, <3>1, <3>2
    <3>4. ASSUME NEW k \in 1 .. Len(new) PROVE new[k] = s[k]
      <4>1. new[k] = IF k <= Len(text) THEN text[k] ELSE cut[k - Len(text)] BY <2>5
      <4>2. CASE k <= Len(text)
        <5>1. k \in 1 .. Len(text) BY <1>3, <4>2
        <5>. QED BY <3>2, <4>1, <4>2, <5>1
      <4>3. CASE ~(k <= Len(text))
        <5>1. k - Len(text) \in 1 .. Len(part) /\ Len(text) + (k - Len(text)) = k BY <1>0, <1>3, <3>2, <3>3, <4>3
        <5>. QED BY <3>1, <3>2, <4>1, <4>3, <5>1
      <4>. QED BY <4>2, <4>3
    <3>. QED BY <3>3, <3>4, <1>0
  <2>9. ASSUME \E j \in 1 .. (i + 1) : s[j] = "0" PROVE Len(new) + 0 < i + 1
    BY <1>0, <1>3, <1>7, <1>8, <2>0, <2>5, <2>9
  <2>10. \A k \in 1 .. Len(y.part) : y.part[k] = s[Len(y.text) + k] BY <2>6
  <2>11. Carried(i + 1, s, y) BY <2>6, <2>7, <2>8, <2>9, <2>10, Zenon DEF Carried
  <2>. QED BY <1>1, <2>2, <2>11, Zenon
<1>. QED BY <1>9, <1>10

(* The buffer of execute() passes a text without a NUL whole and in order,  *)
(* whatever its length and the size of the buffer; with one, less of it.    *)
LEMMA SentWhole ==
  ASSUME NEW X, NEW s \in Seq(X), NEW stops
  PROVE  /\ Sent(Pieces(s, stops)) \in Seq(X)
         /\ ~HasNul(s) => Sent(Pieces(s, stops)) = s
         /\ HasNul(s) => Len(Sent(Pieces(s, stops))) < Len(s)
<1>0. Len(s) \in Nat OBVIOUS
<1>1. PICK g \in [Nat -> State(X)] : Passes(g, s, stops) BY PassExists
<1>2. \A n \in Nat : n \in 0 .. Len(s) => Carried(n, s, g[n])
  <2>. DEFINE Good == {n \in Nat : n \in 0 .. Len(s) => Carried(n, s, g[n])}
  <2>1. 0 \in Good
    <3>1. g[0].text = <<>> /\ g[0].part = <<>> BY <1>1 DEF Passes, Begin
    <3>2. PICK y : y = g[0] OBVIOUS
    <3>3. Carried(0, s, y) BY <3>1, <3>2 DEF Carried
    <3>. QED BY <3>2, <3>3
  <2>2. ASSUME NEW n \in Nat, n \in Good PROVE n + 1 \in Good
    <3>1. ASSUME n + 1 \in 0 .. Len(s) PROVE Carried(n + 1, s, g[n + 1])
      <4>1. n \in 0 .. Len(s) /\ n \in 0 .. (Len(s) - 1) BY <1>0, <3>1
      <4>2. Carried(n, s, g[n]) /\ g[n] \in State(X) BY <2>2, <4>1
      <4>3. g[n + 1] = Put(g[n], s[n + 1], stops) BY <1>1, <4>1, Zenon DEF Passes
      <4>4. Carried(n + 1, s, Put(g[n], s[n + 1], stops)) BY <4>1, <4>2, PutCarries
      <4>. QED BY <4>3, <4>4, Zenon
    <3>. QED BY <3>1
  <2>. HIDE DEF Good
  <2>3. \A n \in Nat : n \in Good BY <2>1, <2>2, Induction
  <2>. QED BY <2>3 DEF Good
<1>3. Carried(Len(s), s, g[Len(s)]) BY <1>0, <1>2
<1>4. Pieces(s, stops) = g[Len(s)] BY <1>1, PiecesIsPass
<1>5. g[Len(s)] \in State(X) BY <1>0
<1>6. PICK text \in Seq(X), part \in Seq(X) : text = g[Len(s)].text /\ part = g[Len(s)].part BY <1>5 DEF State
<1>7. PICK cut \in Seq(X) :
          /\ cut = UpToNul(part) /\ Len(cut) <= Len(part)
          /\ ~HasNul(part) => cut = part
          /\ HasNul(part) => Len(cut) < Len(part)
  BY UpToNulFacts, Zenon
<1>8. Sent(Pieces(s, stops)) = text \o cut BY <1>4, <1>6, <1>7, Zenon DEF Sent
<1>9. PICK new \in Seq(X) : new = text \o cut
  <2>1. text \o cut \in Seq(X) OBVIOUS
  <2>. QED BY <2>1, Zenon
<1>10. /\ Len(new) = Len(text) + Len(cut) /\ Len(cut) \in Nat /\ Len(text) \in Nat /\ Len(part) \in Nat
       /\ \A k \in 1 .. Len(new) : new[k] = IF k <= Len(text) THEN text[k] ELSE cut[k - Len(text)]
  BY <1>9
<1>11. /\ Len(text) + Len(part) <= Len(s)
       /\ (\A j \in 1 .. Len(s) : s[j] # "0") =>
            /\ Len(text) + Len(part) = Len(s)
            /\ \A k \in 1 .. Len(text) : text[k] = s[k]
            /\ \A k \in 1 .. Len(part) : part[k] = s[Len(text) + k]
       /\ (\E j \in 1 .. Len(s) : s[j] = "0") => Len(text) + Len(part) < Len(s) \/ HasNul(part)
  BY <1>3, <1>6, Zenon DEF Carried
<1>12. ASSUME ~HasNul(s) PROVE new = s
  <2>1. /\ Len(text) + Len(part) = Len(s)
        /\ \A k \in 1 .. Len(text) : text[k] = s[k]
        /\ \A k \in 1 .. Len(part) : part[k] = s[Len(text) + k]
    BY <1>11, <1>12 DEF HasNul
  <2>2. ~HasNul(part)
    <3>1. ASSUME NEW k \in 1 .. Len(part) PROVE part[k] # "0"
      <4>1. Len(text) + k \in 1 .. Len(s) BY <1>0, <1>10, <2>1
      <4>. QED BY <1>12, <2>1, <4>1 DEF HasNul
    <3>. QED BY <3>1 DEF HasNul
  <2>3. cut = part BY <1>7, <2>2
  <2>4. Len(new) = Len(s) BY <1>0, <1>10, <2>1, <2>3
  <2>5. ASSUME NEW k \in 1 .. Len(new) PROVE new[k] = s[k]
    <3>1. new[k] = IF k <= Len(text) THEN text[k] ELSE cut[k - Len(text)] BY <1>10
    <3>2. CASE k <= Len(text)
      <4>1. k \in 1 .. Len(text) BY <1>10, <3>2
      <4>. QED BY <2>1, <3>1, <3>2, <4>1
    <3>3. CASE ~(k <= Len(text))
      <4>1. k - Len(text) \in 1 .. Len(part) /\ Len(text) + (k - Len(text)) = k BY <1>0, <1>10, <2>1, <2>4, <3>3
      <4>. QED BY <2>1, <2>3, <3>1, <3>3, <4>1
    <3>. QED BY <3>2, <3>3
  <2>. QED BY <2>4, <2>5, SeqEqual
<1>13. ASSUME HasNul(s) PROVE Len(new) < Len(s)
  <2>1. Len(text) + Len(part) < Len(s) \/ HasNul(part) BY <1>11, <1>13 DEF HasNul
  <2>. QED BY <1>0, <1>7, <1>10, <1>11, <2>1
<1>. QED BY <1>8, <1>9, <1>12, <1>13, Zenon

-----------------------------------------------------------------------------
(* One frame of execute(): every step keeps what its streams rest on.      *)

(* A symbol at the head of one sequence moves to the end of the one before. *)
LEMMA MoveHead ==
  ASSUME NEW X, NEW x \in Seq(X), NEW s \in Seq(X), s # <<>>
  PROVE  /\ Head(s) \in X /\ Tail(s) \in Seq(X) /\ Append(x, Head(s)) \in Seq(X)
         /\ Append(x, Head(s)) \o Tail(s) = x \o s
<1>1. Head(s) \in X /\ Tail(s) \in Seq(X) OBVIOUS
<1>2. Append(x, Head(s)) \in Seq(X) BY <1>1
<1>a. Append(x, Head(s)) \o Tail(s) \in Seq(X) /\ x \o s \in Seq(X) BY <1>1, <1>2, ConcatProperties
<1>3. PICK a \in Seq(X), c \in Seq(X) : a = Append(x, Head(s)) \o Tail(s) /\ c = x \o s BY <1>a, Zenon
<1>4. Len(a) = Len(c) /\ \A i \in 1 .. Len(a) : a[i] = c[i] BY <1>1, <1>2, <1>3
<1>5. a = c BY <1>4, SeqEqual
<1>. QED BY <1>1, <1>2, <1>3, <1>5, Zenon

Assoc(x, y, z) == (x \o y) \o z = x \o (y \o z)
(* Concatenation is associative. *)
LEMMA Associative ==
  ASSUME NEW X, NEW x \in Seq(X), NEW y \in Seq(X), NEW z \in Seq(X)
  PROVE  Assoc(x, y, z)
BY ConcatAssociative DEF Assoc

Third(x, y, s) == (x \o Append(y, Head(s))) \o Tail(s) = (x \o y) \o s
(* The head of the last of three sequences moves to the end of the second. *)
LEMMA MoveThird ==
  ASSUME NEW X, NEW x \in Seq(X), NEW y \in Seq(X), NEW s \in Seq(X), s # <<>>
  PROVE  Third(x, y, s)
<1>1. /\ Tail(s) \in Seq(X) /\ Append(y, Head(s)) \in Seq(X)
      /\ Append(y, Head(s)) \o Tail(s) = y \o s
  BY MoveHead, Zenon
<1>2. (x \o Append(y, Head(s))) \o Tail(s) = x \o (Append(y, Head(s)) \o Tail(s))
  <2>1. PICK z \in Seq(X), u \in Seq(X) : z = Append(y, Head(s)) /\ u = Tail(s) BY <1>1, Zenon
  <2>2. Assoc(x, z, u) BY Associative, Zenon
  <2>. QED BY <2>1, <2>2, Zenon DEF Assoc
<1>3. (x \o y) \o s = x \o (y \o s) BY ConcatAssociative
<1>. QED BY <1>1, <1>2, <1>3, Zenon DEF Third

(* The head of the second of three sequences moves to the end of the first. *)
LEMMA MoveSecond ==
  ASSUME NEW X, NEW x \in Seq(X), NEW y \in Seq(X), NEW s \in Seq(X), y # <<>>
  PROVE  (Append(x, Head(y)) \o Tail(y)) \o s = (x \o y) \o s
<1>1. Append(x, Head(y)) \o Tail(y) = x \o y BY MoveHead
<1>. QED BY <1>1, Zenon

(* Concatenation with the empty sequence. *)
LEMMA EmptyConcat ==
  ASSUME NEW X, NEW x \in Seq(X)
  PROVE  x \o <<>> = x /\ <<>> \o x = x
BY ConcatEmptySeq

(* The data of a frame.                                                    *)
DataSame(g, f) ==
  /\ g.input = f.input /\ g.streams = f.streams /\ g.feed = f.feed /\ g.plan = f.plan
  /\ g.taken = f.taken /\ g.left = f.left /\ g.raw = f.raw /\ g.text = f.text /\ g.cut = f.cut

(* Ends of a pipe that are opened or closed by others.                     *)
OthersEnds(t, w, v) ==
  \A p \in Pipes : /\ t \in w[p] => t \in v[p]
                   /\ Parent \in w[p] => Parent \in v[p]
                   /\ w[p] = {} => v[p] = {}

(* What a caller's streams hold does not depend on the ends that others have. *)
LEMMA OthersKeep ==
  ASSUME NEW sys, NEW t, NEW f, NEW b, NEW w, NEW r, NEW w2, NEW r2,
         StreamAt(sys, t, f, b, w, r), OthersEnds(t, w, w2), OthersEnds(t, r, r2)
  PROVE  StreamAt(sys, t, f, b, w2, r2)
<1>0. {"in", "out", "err"} = Pipes /\ Outputs = {"out", "err"} BY DEF Pipes, Outputs
<1>1. EndsHeld(sys, t, f, w2, r2) BY <1>0 DEF StreamAt, EndsHeld, OthersEnds
<1>2. Drained(sys, f, b, w2) BY <1>0, Zenon DEF StreamAt, Drained, OthersEnds
<1>. QED BY <1>1, <1>2 DEF StreamAt

(* execute() ends before it has a child.                                   *)
LEMMA LeaveAt ==
  ASSUME NEW sys, NEW t, NEW f, NEW g, NEW b, NEW w, NEW r, NEW w2, NEW r2,
         StreamAt(sys, t, f, b, w, r), DataSame(g, f), g.child = f.child,
         f.pc \in {"idle", "pipes"}, g.pc \in {"threw", "leaked", "undefined"}
  PROVE  StreamAt(sys, t, g, b, w2, r2)
<1>0. g.child = "none" BY DEF StreamAt, EndsHeld
<1>1. StreamTypes(g, b) BY DEF StreamAt, StreamTypes, DataSame
<1>2. OutputKept(g, b) BY DEF StreamAt, OutputKept, DataSame, All
<1>3. InputKept(sys, g, b) BY <1>0 DEF InputKept, Started
<1>4. EndsHeld(sys, t, g, w2, r2) BY <1>0 DEF EndsHeld, Started
<1>5. Drained(sys, g, b, w2) BY <1>0 DEF Drained, Started, Past
<1>. QED BY <1>1, <1>2, <1>3, <1>4, <1>5 DEF StreamAt

(* execute() goes on, the input fed.                                       *)
Onward(sys, t, f, g, w, r, w2, r2) ==
  /\ DataSame(g, f) /\ f.feed = <<>>
  /\ g.child = f.child \/ (f.child = "zombie" /\ g.child = "reaped")
  /\ f.pc \in Started \ {"forked"} /\ g.pc \in Started \ {"forked", "write"}
  /\ g.pc = "wait" => sys = "posix"
  /\ \A p \in Outputs : Past(g, p) <=> Past(f, p)
  /\ \A p \in Pipes : (t \in w[p] => t \in w2[p]) /\ (t \in r[p] => t \in r2[p]) /\ (w[p] = {} => w2[p] = {})
  /\ \/ g.pc \in {"wait", "code"}
     \/ g.pc \in {"out", "err", "return"} /\ sys = "win32"
     => Parent \in r2["out"] /\ Parent \in r2["err"]

(* A step that moves no data keeps what the streams hold. *)
LEMMA GoOnAt ==
  ASSUME NEW sys, NEW t, NEW f, NEW g, NEW b, NEW w, NEW r, NEW w2, NEW r2,
         StreamAt(sys, t, f, b, w, r), Onward(sys, t, f, g, w, r, w2, r2)
  PROVE  StreamAt(sys, t, g, b, w2, r2)
<1>. USE DEF Onward
<1>0. Pipes = {"in", "out", "err"} /\ Outputs = {"out", "err"} BY DEF Pipes, Outputs
<1>1. StreamTypes(g, b) BY DEF StreamAt, StreamTypes, DataSame, Started
<1>2. OutputKept(g, b) BY DEF StreamAt, OutputKept, DataSame, All
<1>3. InputKept(sys, g, b) BY DEF StreamAt, InputKept, Started, DataSame, Wanted
<1>4. EndsHeld(sys, t, g, w2, r2) BY <1>0 DEF StreamAt, EndsHeld, Started
<1>5. Drained(sys, g, b, w2) BY <1>0 DEF StreamAt, Drained, Started, DataSame
<1>. QED BY <1>1, <1>2, <1>3, <1>4, <1>5 DEF StreamAt

(* The handler reaps the child.                                            *)
LEMMA ReapAt ==
  ASSUME NEW sys, NEW t, NEW f, NEW g, NEW b, NEW w, NEW r,
         StreamAt(sys, t, f, b, w, r), DataSame(g, f), g.pc = f.pc,
         f.child = "zombie", g.child = "reaped"
  PROVE  StreamAt(sys, t, g, b, w, r)
<1>0. f.pc # "idle" BY DEF StreamAt, EndsHeld
<1>1. StreamTypes(g, b) BY <1>0 DEF StreamAt, StreamTypes, DataSame
<1>2. OutputKept(g, b) BY DEF StreamAt, OutputKept, DataSame, All
<1>3. InputKept(sys, g, b) BY DEF StreamAt, InputKept, DataSame, Wanted
<1>4. EndsHeld(sys, t, g, w, r) BY DEF StreamAt, EndsHeld
<1>5. Drained(sys, g, b, w) BY DEF StreamAt, Drained, DataSame, Past
<1>. QED BY <1>1, <1>2, <1>3, <1>4, <1>5 DEF StreamAt

(* The data of a frame but for the fields K.                               *)
DataBut(g, f, K) ==
  \A k \in {"input", "streams", "feed", "plan", "child", "taken", "left", "raw", "text", "cut", "pc"} \ K : g[k] = f[k]

(* A symbol of input into the pipe.                                        *)
LEMMA FeedAt ==
  ASSUME NEW sys, NEW t, NEW f, NEW g, NEW b, NEW c, NEW w, NEW r,
         StreamAt(sys, t, f, b, w, r), f.pc = "write", f.feed # <<>>,
         DataBut(g, f, {"feed"}), g.feed = Tail(f.feed),
         c = [b EXCEPT !["in"] = Append(@, Head(f.feed))]
  PROVE  StreamAt(sys, t, g, c, w, r)
<1>0. /\ g.input = f.input /\ g.streams = f.streams /\ g.plan = f.plan /\ g.child = f.child
      /\ g.taken = f.taken /\ g.left = f.left /\ g.raw = f.raw /\ g.text = f.text /\ g.cut = f.cut /\ g.pc = f.pc
  BY DEF DataBut
<1>1. Pipes = {"in", "out", "err"} /\ Outputs = {"out", "err"} BY DEF Pipes, Outputs
<1>2. b \in [Pipes -> Seq(Symbols)] /\ f.feed \in Seq(Symbols) /\ f.taken \in Seq(Symbols)
  BY DEF StreamAt, StreamTypes
<1>3. b["in"] \in Seq(Symbols) BY <1>1, <1>2
<1>4. /\ Head(f.feed) \in Symbols /\ Tail(f.feed) \in Seq(Symbols) /\ Append(b["in"], Head(f.feed)) \in Seq(Symbols)
      /\ (f.taken \o Append(b["in"], Head(f.feed))) \o Tail(f.feed) = (f.taken \o b["in"]) \o f.feed
  <2>1. PICK x \in Seq(Symbols), y \in Seq(Symbols), s \in Seq(Symbols) : x = f.taken /\ y = b["in"] /\ s = f.feed
    BY <1>2, <1>3
  <2>2. s # <<>> BY <2>1
  <2>3. Head(s) \in Symbols /\ Tail(s) \in Seq(Symbols) /\ Append(y, Head(s)) \in Seq(Symbols)
    BY <2>2, MoveHead
  <2>4. Third(x, y, s) BY <2>2, MoveThird, Zenon
  <2>. QED BY <2>1, <2>3, <2>4, Zenon DEF Third
<1>5. c \in [Pipes -> Seq(Symbols)] /\ c["in"] = Append(b["in"], Head(f.feed)) /\ \A p \in Outputs : c[p] = b[p]
  BY <1>1, <1>2, <1>4
<1>6. StreamTypes(g, c) BY <1>0, <1>4, <1>5 DEF StreamAt, StreamTypes
<1>7. OutputKept(g, c) BY <1>0, <1>5, Zenon DEF StreamAt, OutputKept, All
<1>8. InputKept(sys, g, c)
  <2>1. f.child = "runs" => (g.taken \o c["in"]) \o g.feed = Wanted(sys, g)
    <3>1. f.child = "runs" => (f.taken \o b["in"]) \o f.feed = Wanted(sys, f) BY DEF StreamAt, InputKept, Started
    <3>2. Wanted(sys, g) = Wanted(sys, f) BY <1>0 DEF Wanted
    <3>. QED BY <1>0, <1>4, <1>5, <3>1, <3>2, Zenon
  <2>2. Wanted(sys, g) = Wanted(sys, f) BY <1>0 DEF Wanted
  <2>. QED BY <1>0, <2>1, <2>2 DEF StreamAt, InputKept, Started
<1>9. EndsHeld(sys, t, g, w, r) BY <1>0 DEF StreamAt, EndsHeld
<1>10. Drained(sys, g, c, w) BY <1>0, <1>5, Zenon DEF StreamAt, Drained, Past
<1>. QED BY <1>6, <1>7, <1>8, <1>9, <1>10 DEF StreamAt

(* A symbol nobody will read: the child has ended.                         *)
LEMMA LoseAt ==
  ASSUME NEW sys, NEW t, NEW f, NEW g, NEW b, NEW w, NEW r,
         StreamAt(sys, t, f, b, w, r), f.pc = "write", f.feed # <<>>, r["in"] = {},
         DataBut(g, f, {"feed"}), g.feed = Tail(f.feed)
  PROVE  StreamAt(sys, t, g, b, w, r)
<1>0. /\ g.input = f.input /\ g.streams = f.streams /\ g.plan = f.plan /\ g.child = f.child
      /\ g.taken = f.taken /\ g.left = f.left /\ g.raw = f.raw /\ g.text = f.text /\ g.cut = f.cut /\ g.pc = f.pc
  BY DEF DataBut
<1>1. f.child # "runs" BY DEF StreamAt, EndsHeld
<1>2. f.feed \in Seq(Symbols) BY DEF StreamAt, StreamTypes
<1>3. Tail(f.feed) \in Seq(Symbols) BY <1>2
<1>4. StreamTypes(g, b) BY <1>0, <1>3 DEF StreamAt, StreamTypes
<1>5. OutputKept(g, b) BY <1>0 DEF StreamAt, OutputKept, All
<1>6. InputKept(sys, g, b) BY <1>0, <1>1 DEF StreamAt, InputKept, Started, Wanted
<1>7. EndsHeld(sys, t, g, w, r) BY <1>0 DEF StreamAt, EndsHeld
<1>8. Drained(sys, g, b, w) BY <1>0 DEF StreamAt, Drained, Past
<1>. QED BY <1>4, <1>5, <1>6, <1>7, <1>8 DEF StreamAt

(* SIGPIPE ends the process of the parent.                                 *)
LEMMA KilledAt ==
  ASSUME NEW sys, NEW t, NEW f, NEW g, NEW b, NEW w, NEW r,
         StreamAt(sys, t, f, b, w, r), DataBut(g, f, {"pc"}), g.pc = "killed"
  PROVE  StreamAt(sys, t, g, b, w, r)
<1>0. /\ g.input = f.input /\ g.streams = f.streams /\ g.plan = f.plan /\ g.child = f.child /\ g.feed = f.feed
      /\ g.taken = f.taken /\ g.left = f.left /\ g.raw = f.raw /\ g.text = f.text /\ g.cut = f.cut
  BY DEF DataBut
<1>4. StreamTypes(g, b) BY <1>0 DEF StreamAt, StreamTypes
<1>5. OutputKept(g, b) BY <1>0 DEF StreamAt, OutputKept, All
<1>6. InputKept(sys, g, b) BY DEF InputKept, Started
<1>7. EndsHeld(sys, t, g, w, r) BY <1>0 DEF StreamAt, EndsHeld, Started
<1>8. Drained(sys, g, b, w) BY DEF Drained, Past, Started
<1>. QED BY <1>4, <1>5, <1>6, <1>7, <1>8 DEF StreamAt

(* The child reads a symbol.                                               *)
LEMMA TakeAt ==
  ASSUME NEW sys, NEW t, NEW f, NEW g, NEW b, NEW c, NEW w, NEW r,
         StreamAt(sys, t, f, b, w, r), f.child = "runs", b["in"] # <<>>,
         DataBut(g, f, {"taken"}), g.taken = Append(f.taken, Head(b["in"])),
         c = [b EXCEPT !["in"] = Tail(@)]
  PROVE  StreamAt(sys, t, g, c, w, r)
<1>0. /\ g.input = f.input /\ g.streams = f.streams /\ g.plan = f.plan /\ g.child = f.child
      /\ g.feed = f.feed /\ g.left = f.left /\ g.raw = f.raw /\ g.text = f.text /\ g.cut = f.cut /\ g.pc = f.pc
  BY DEF DataBut
<1>1. Pipes = {"in", "out", "err"} /\ Outputs = {"out", "err"} BY DEF Pipes, Outputs
<1>2. b \in [Pipes -> Seq(Symbols)] /\ f.feed \in Seq(Symbols) /\ f.taken \in Seq(Symbols)
  BY DEF StreamAt, StreamTypes
<1>3. b["in"] \in Seq(Symbols) BY <1>1, <1>2
<1>4. /\ Tail(b["in"]) \in Seq(Symbols) /\ g.taken \in Seq(Symbols)
      /\ (g.taken \o Tail(b["in"])) \o f.feed = (f.taken \o b["in"]) \o f.feed
  <2>1. PICK x \in Seq(Symbols), y \in Seq(Symbols), s \in Seq(Symbols) : x = f.taken /\ y = b["in"] /\ s = f.feed
    BY <1>2, <1>3
  <2>2. y # <<>> BY <2>1
  <2>3. Tail(y) \in Seq(Symbols) /\ Append(x, Head(y)) \in Seq(Symbols)
    BY <2>2, MoveHead
  <2>4. (Append(x, Head(y)) \o Tail(y)) \o s = (x \o y) \o s BY <2>2, MoveSecond
  <2>. QED BY <2>1, <2>3, <2>4, Zenon
<1>5. c \in [Pipes -> Seq(Symbols)] /\ c["in"] = Tail(b["in"]) /\ \A p \in Outputs : c[p] = b[p]
  BY <1>1, <1>2, <1>4
<1>a. f.pc \notin {"idle", "pipes", "forked"} BY DEF StreamAt, InputKept
<1>6. StreamTypes(g, c) BY <1>0, <1>4, <1>5, <1>a DEF StreamAt, StreamTypes
<1>7. OutputKept(g, c) BY <1>0, <1>5, Zenon DEF StreamAt, OutputKept, All
<1>8. InputKept(sys, g, c)
  <2>1. f.pc \in Started \ {"forked"} => (g.taken \o c["in"]) \o g.feed = Wanted(sys, g)
    <3>1. f.pc \in Started \ {"forked"} => (f.taken \o b["in"]) \o f.feed = Wanted(sys, f) BY DEF StreamAt, InputKept
    <3>2. Wanted(sys, g) = Wanted(sys, f) BY <1>0 DEF Wanted
    <3>. QED BY <1>0, <1>4, <1>5, <3>1, <3>2, Zenon
  <2>. QED BY <1>0, <1>a, <2>1 DEF StreamAt, InputKept
<1>9. EndsHeld(sys, t, g, w, r) BY <1>0 DEF StreamAt, EndsHeld
<1>10. Drained(sys, g, c, w) BY <1>0, <1>5, ZenonT(60) DEF StreamAt, Drained, Past
<1>. QED BY <1>6, <1>7, <1>8, <1>9, <1>10 DEF StreamAt

(* execute() reads what there is.                                          *)
LEMMA ReadAt ==
  ASSUME NEW sys, NEW t, NEW f, NEW g, NEW b, NEW c, NEW w, NEW r, NEW p \in Outputs,
         StreamAt(sys, t, f, b, w, r), f.pc = p,
         DataBut(g, f, {"raw"}), g.raw = [f.raw EXCEPT ![p] = @ \o b[p]],
         c = [b EXCEPT ![p] = <<>>]
  PROVE  StreamAt(sys, t, g, c, w, r)
<1>0. /\ g.input = f.input /\ g.streams = f.streams /\ g.plan = f.plan /\ g.child = f.child
      /\ g.feed = f.feed /\ g.left = f.left /\ g.taken = f.taken /\ g.text = f.text /\ g.cut = f.cut /\ g.pc = f.pc
  BY DEF DataBut
<1>1. Pipes = {"in", "out", "err"} /\ Outputs = {"out", "err"} BY DEF Pipes, Outputs
<1>2. b \in [Pipes -> Seq(Symbols)] /\ f.raw \in [Outputs -> Seq(Symbols)] /\ f.left \in [Outputs -> Seq(Symbols)]
  BY DEF StreamAt, StreamTypes
<1>3. PICK x \in Seq(Symbols), y \in Seq(Symbols) : x = f.raw[p] /\ y = b[p] BY <1>1, <1>2
<1>4. x \o y \in Seq(Symbols) /\ (x \o y) \o <<>> = x \o y BY ConcatProperties, ConcatEmptySeq
<1>5. /\ c \in [Pipes -> Seq(Symbols)] /\ c["in"] = b["in"] /\ c[p] = <<>>
      /\ \A q \in Outputs : q # p => c[q] = b[q]
  BY <1>1, <1>2
<1>6. /\ g.raw \in [Outputs -> Seq(Symbols)] /\ g.raw[p] = x \o y
      /\ \A q \in Outputs : q # p => g.raw[q] = f.raw[q]
  BY <1>1, <1>2, <1>3, <1>4, ZenonT(60)
<1>7. StreamTypes(g, c) BY <1>0, <1>1, <1>5, <1>6 DEF StreamAt, StreamTypes
<1>8. OutputKept(g, c)
  <2>1. ASSUME NEW q \in Outputs PROVE (g.raw[q] \o c[q]) \o g.left[q] = All(g, q)
    <3>1. (f.raw[q] \o b[q]) \o f.left[q] = All(f, q) /\ All(g, q) = All(f, q)
      BY <1>0, Zenon DEF StreamAt, OutputKept, All
    <3>2. CASE q = p
      <4>1. g.raw[p] \o c[p] = f.raw[p] \o b[p] BY <1>3, <1>4, <1>5, <1>6, Zenon
      <4>. QED BY <1>0, <3>1, <3>2, <4>1, Zenon
    <3>3. CASE q # p BY <1>0, <1>5, <1>6, <3>1, <3>3, Zenon
    <3>. QED BY <3>2, <3>3
  <2>. QED BY <2>1 DEF OutputKept
<1>9. InputKept(sys, g, c) BY <1>0, <1>1, <1>5 DEF StreamAt, InputKept, Started, Wanted
<1>10. EndsHeld(sys, t, g, w, r) BY <1>0 DEF StreamAt, EndsHeld
<1>11. Drained(sys, g, c, w)
  <2>1. ASSUME NEW q \in Outputs, Past(g, q) PROVE Past(f, q) /\ q # p
    BY <1>0, <1>1, <2>1 DEF Past
  <2>. SUFFICES ASSUME f.streams, ~f.cut PROVE Drained(sys, g, c, w)
    BY <1>0, Zenon DEF Drained
  <2>2. /\ f.child \in {"zombie", "reaped"} /\ f.pc \in Started => \A q \in Outputs : f.left[q] = <<>>
        /\ \A q \in Outputs : Past(f, q) =>
             /\ w[q] = {} /\ b[q] = <<>> /\ f.left[q] = <<>>
             /\ f.text[q] = IF sys = "posix" THEN Printed(f.raw[q]) ELSE f.raw[q]
    BY Zenon DEF StreamAt, Drained
  <2>3. ASSUME NEW q \in Outputs, Past(g, q)
        PROVE  /\ w[q] = {} /\ c[q] = <<>> /\ g.left[q] = <<>>
               /\ g.text[q] = IF sys = "posix" THEN Printed(g.raw[q]) ELSE g.raw[q]
    <3>1. Past(f, q) /\ q # p BY <2>1, <2>3
    <3>2. c[q] = b[q] /\ g.raw[q] = f.raw[q] BY <1>5, <1>6, <3>1
    <3>. QED BY <1>0, <2>2, <3>1, <3>2, ZenonT(60)
  <2>. QED BY <1>0, <2>2, <2>3, Zenon DEF Drained
<1>. QED BY <1>7, <1>8, <1>9, <1>10, <1>11 DEF StreamAt

(* The end of a stream: the child has closed its end, so it has ended, and  *)
(* not by an error in writing.                                              *)
LEMMA EndAt ==
  ASSUME NEW sys, NEW t, NEW f, NEW g, NEW b, NEW w, NEW r, NEW r2, NEW p \in Outputs,
         StreamAt(sys, t, f, b, w, r), f.pc = p, g.pc = After(p),
         f.streams => b[p] = <<>> /\ w[p] = {},
         DataBut(g, f, {"text", "pc"}),
         g.text = [f.text EXCEPT ![p] = IF sys = "posix" THEN Printed(f.raw[p]) ELSE f.raw[p]],
         Printed(f.raw[p]) \in Seq(Symbols),
         sys = "win32" => r2 = r, r2["in"] = r["in"]
  PROVE  StreamAt(sys, t, g, b, w, r2)
<1>0. /\ g.input = f.input /\ g.streams = f.streams /\ g.plan = f.plan /\ g.child = f.child
      /\ g.feed = f.feed /\ g.left = f.left /\ g.taken = f.taken /\ g.raw = f.raw /\ g.cut = f.cut
  BY DEF DataBut
<1>1. Pipes = {"in", "out", "err"} /\ Outputs = {"out", "err"} BY DEF Pipes, Outputs
<1>a. g.pc \in {"err", "return"} /\ f.pc \in Started /\ g.pc \in Started /\ f.pc \notin {"idle", "forked", "write"}
  BY <1>1 DEF After, Started
<1>2. /\ f.text \in [Outputs -> Seq(Symbols)] /\ f.raw \in [Outputs -> Seq(Symbols)]
  BY DEF StreamAt, StreamTypes
<1>3. /\ g.text \in [Outputs -> Seq(Symbols)]
      /\ g.text[p] = IF sys = "posix" THEN Printed(f.raw[p]) ELSE f.raw[p]
      /\ \A q \in Outputs : q # p => g.text[q] = f.text[q]
  BY <1>2
<1>4. StreamTypes(g, b) BY <1>0, <1>1, <1>3, <1>a DEF StreamAt, StreamTypes
<1>5. OutputKept(g, b) BY <1>0 DEF StreamAt, OutputKept, All
<1>6. InputKept(sys, g, b) BY <1>0, <1>1, <1>a DEF StreamAt, InputKept, Started, Wanted
<1>7. EndsHeld(sys, t, g, w, r2) BY <1>0, <1>1, <1>a DEF StreamAt, EndsHeld, Started
<1>8. Drained(sys, g, b, w)
  <2>. SUFFICES ASSUME f.streams, ~f.cut PROVE Drained(sys, g, b, w)
    BY <1>0, Zenon DEF Drained
  <2>1. w[p] = {} /\ b[p] = <<>> OBVIOUS
  <2>2. f.child \in {"zombie", "reaped"} => \A q \in Outputs : f.left[q] = <<>>
    BY <1>a, Zenon DEF StreamAt, Drained
  <2>3. f.child # "runs" BY <1>1, <2>1 DEF StreamAt, EndsHeld
  <2>4. f.child # "none" BY <1>a DEF StreamAt, EndsHeld
  <2>5. ASSUME f.child \in {"zombie", "reaped"} PROVE Drained(sys, g, b, w)
    <3>1. ASSUME NEW q \in Outputs, Past(g, q)
          PROVE  /\ w[q] = {} /\ b[q] = <<>> /\ g.left[q] = <<>>
                 /\ g.text[q] = IF sys = "posix" THEN Printed(g.raw[q]) ELSE g.raw[q]
      <4>1. CASE q = p BY <1>0, <1>3, <2>1, <2>2, <2>5, <4>1, Zenon
      <4>2. CASE q # p
        <5>1. Past(f, q) BY <1>1, <3>1, <4>2 DEF Past, After
        <5>2. /\ w[q] = {} /\ b[q] = <<>> /\ f.left[q] = <<>>
              /\ f.text[q] = IF sys = "posix" THEN Printed(f.raw[q]) ELSE f.raw[q]
          BY <5>1, Zenon DEF StreamAt, Drained
        <5>3. g.text[q] = f.text[q] BY <1>3, <4>2
        <5>. QED BY <1>0, <5>2, <5>3, Zenon
      <4>. QED BY <4>1, <4>2
    <3>. QED BY <1>0, <2>2, <3>1, Zenon DEF Drained
  <2>6. f.child \in {"runs", "none", "zombie", "reaped"} BY DEF StreamAt, StreamTypes
  <2>. QED BY <2>3, <2>4, <2>5, <2>6
<1>. QED BY <1>4, <1>5, <1>6, <1>7, <1>8 DEF StreamAt

(* The sink is no longer good.                                             *)
LEMMA SinkAt ==
  ASSUME NEW sys, NEW t, NEW f, NEW g, NEW b, NEW w, NEW r, NEW r2, NEW p \in Outputs,
         StreamAt(sys, t, f, b, w, r), f.pc = p, g.pc = After(p),
         DataBut(g, f, {"cut", "pc"}), g.cut,
         sys = "win32" => r2 = r, r2["in"] = r["in"]
  PROVE  StreamAt(sys, t, g, b, w, r2)
<1>0. /\ g.input = f.input /\ g.streams = f.streams /\ g.plan = f.plan /\ g.child = f.child
      /\ g.feed = f.feed /\ g.left = f.left /\ g.taken = f.taken /\ g.raw = f.raw /\ g.text = f.text
  BY DEF DataBut
<1>1. Pipes = {"in", "out", "err"} /\ Outputs = {"out", "err"} BY DEF Pipes, Outputs
<1>a. g.pc \in {"err", "return"} /\ f.pc \in Started /\ g.pc \in Started /\ f.pc \notin {"idle", "forked", "write"}
  BY <1>1 DEF After, Started
<1>4. StreamTypes(g, b) BY <1>0, <1>1, <1>a DEF StreamAt, StreamTypes
<1>5. OutputKept(g, b) BY <1>0 DEF StreamAt, OutputKept, All
<1>6. InputKept(sys, g, b) BY <1>0, <1>1, <1>a DEF StreamAt, InputKept, Started, Wanted
<1>7. EndsHeld(sys, t, g, w, r2) BY <1>0, <1>1, <1>a DEF StreamAt, EndsHeld, Started
<1>8. Drained(sys, g, b, w) BY Zenon DEF Drained
<1>. QED BY <1>4, <1>5, <1>6, <1>7, <1>8 DEF StreamAt

(* The child writes a symbol: its end is open, so nobody is past the pipe.  *)
LEMMA PrintAt ==
  ASSUME NEW sys, NEW t, NEW f, NEW g, NEW b, NEW c, NEW w, NEW r, NEW p \in Outputs,
         StreamAt(sys, t, f, b, w, r), f.child = "runs", f.left[p] # <<>>,
         DataBut(g, f, {"left"}), g.left = [f.left EXCEPT ![p] = Tail(@)],
         c = [b EXCEPT ![p] = Append(@, Head(f.left[p]))]
  PROVE  StreamAt(sys, t, g, c, w, r)
<1>0. /\ g.input = f.input /\ g.streams = f.streams /\ g.plan = f.plan /\ g.child = f.child
      /\ g.feed = f.feed /\ g.raw = f.raw /\ g.taken = f.taken /\ g.text = f.text /\ g.cut = f.cut /\ g.pc = f.pc
  BY DEF DataBut
<1>1. Pipes = {"in", "out", "err"} /\ Outputs = {"out", "err"} BY DEF Pipes, Outputs
<1>2. b \in [Pipes -> Seq(Symbols)] /\ f.raw \in [Outputs -> Seq(Symbols)] /\ f.left \in [Outputs -> Seq(Symbols)]
  BY DEF StreamAt, StreamTypes
<1>3. PICK x \in Seq(Symbols), y \in Seq(Symbols), s \in Seq(Symbols) : x = f.raw[p] /\ y = b[p] /\ s = f.left[p]
  BY <1>1, <1>2
<1>4. Tail(s) \in Seq(Symbols) /\ Append(y, Head(s)) \in Seq(Symbols) /\ Third(x, y, s)
  <2>1. s # <<>> BY <1>3
  <2>2. Third(x, y, s) BY <2>1, MoveThird, Zenon
  <2>3. Tail(s) \in Seq(Symbols) /\ Append(y, Head(s)) \in Seq(Symbols) BY <2>1, MoveHead
  <2>. QED BY <2>2, <2>3
<1>5. /\ c \in [Pipes -> Seq(Symbols)] /\ c["in"] = b["in"] /\ c[p] = Append(y, Head(s))
      /\ \A q \in Outputs : q # p => c[q] = b[q]
  BY <1>1, <1>2, <1>3, <1>4
<1>6. /\ g.left \in [Outputs -> Seq(Symbols)] /\ g.left[p] = Tail(s)
      /\ \A q \in Outputs : q # p => g.left[q] = f.left[q]
  BY <1>1, <1>2, <1>3, <1>4
<1>a. f.pc # "idle" BY DEF StreamAt, EndsHeld
<1>7. StreamTypes(g, c) BY <1>0, <1>1, <1>5, <1>6, <1>a DEF StreamAt, StreamTypes
<1>8. OutputKept(g, c)
  <2>1. ASSUME NEW q \in Outputs PROVE (g.raw[q] \o c[q]) \o g.left[q] = All(g, q)
    <3>1. (f.raw[q] \o b[q]) \o f.left[q] = All(f, q) /\ All(g, q) = All(f, q)
      BY <1>0, Zenon DEF StreamAt, OutputKept, All
    <3>2. CASE q = p
      <4>1. (x \o Append(y, Head(s))) \o Tail(s) = (x \o y) \o s BY <1>4, Zenon DEF Third
      <4>2. (x \o y) \o s = All(g, p) BY <1>3, <3>1, <3>2, Zenon
      <4>3. g.raw[p] = x /\ c[p] = Append(y, Head(s)) /\ g.left[p] = Tail(s) BY <1>0, <1>3, <1>5, <1>6, Zenon
      <4>. QED BY <3>2, <4>1, <4>2, <4>3, Zenon
    <3>3. CASE q # p BY <1>0, <1>5, <1>6, <3>1, <3>3, Zenon
    <3>. QED BY <3>2, <3>3
  <2>. QED BY <2>1 DEF OutputKept
<1>9. InputKept(sys, g, c) BY <1>0, <1>1, <1>5 DEF StreamAt, InputKept, Started, Wanted
<1>10. EndsHeld(sys, t, g, w, r) BY <1>0 DEF StreamAt, EndsHeld
<1>11. Drained(sys, g, c, w)
  <2>. SUFFICES ASSUME f.streams, ~f.cut PROVE Drained(sys, g, c, w)
    BY <1>0, Zenon DEF Drained
  <2>1. t \in w["out"] /\ t \in w["err"] BY DEF StreamAt, EndsHeld
  <2>2. ASSUME NEW q \in Outputs, Past(g, q) PROVE FALSE
    <3>1. Past(f, q) BY <1>0, <2>2 DEF Past
    <3>2. w[q] = {} BY <3>1, Zenon DEF StreamAt, Drained
    <3>. QED BY <1>1, <2>1, <3>2
  <2>3. g.child \notin {"zombie", "reaped"} BY <1>0
  <2>. QED BY <2>2, <2>3, Zenon DEF Drained
<1>. QED BY <1>7, <1>8, <1>9, <1>10, <1>11 DEF StreamAt

(* The child ends.  It can't have met a pipe nobody reads while execute()   *)
(* still wants its output; one that reads its input has seen the end of it. *)
LEMMA ExitAt ==
  ASSUME NEW sys \in {"posix", "win32"}, NEW t, NEW f, NEW g, NEW b, NEW w, NEW r, NEW w2, NEW r2,
         StreamAt(sys, t, f, b, w, r), f.child = "runs", g.child = "zombie", DataBut(g, f, {"child"}),
         sys = "posix" => f.pc \notin {"out", "err", "return", "done"},
         \/ /\ \A p \in Outputs : f.left[p] = <<>>
            /\ f.plan.reads => b["in"] = <<>> /\ w["in"] = {}
         \/ \E p \in Outputs : f.left[p] # <<>> /\ r[p] = {},
         \A p \in Pipes : w2[p] = w[p] \ {t} /\ r2[p] = r[p] \ {t},
         t # Parent
  PROVE  StreamAt(sys, t, g, b, w2, r2)
<1>0. /\ g.input = f.input /\ g.streams = f.streams /\ g.plan = f.plan /\ g.left = f.left
      /\ g.feed = f.feed /\ g.raw = f.raw /\ g.taken = f.taken /\ g.text = f.text /\ g.cut = f.cut /\ g.pc = f.pc
  BY DEF DataBut
<1>1. Pipes = {"in", "out", "err"} /\ Outputs = {"out", "err"} BY DEF Pipes, Outputs
<1>a. f.pc # "idle" BY DEF StreamAt, EndsHeld
<1>2. StreamTypes(g, b) BY <1>0, <1>1, <1>a DEF StreamAt, StreamTypes
<1>3. OutputKept(g, b) BY <1>0 DEF StreamAt, OutputKept, All
<1>4. EndsHeld(sys, t, g, w2, r2) BY <1>0, <1>1 DEF StreamAt, EndsHeld
<1>5. InputKept(sys, g, b)
  <2>1. ASSUME g.plan.reads, g.pc \notin {"killed", "undefined"}, \A p \in Outputs : g.left[p] = <<>>
        PROVE  g.taken = Wanted(sys, g)
    <3>1. b["in"] = <<>> /\ w["in"] = {} BY <1>0, <2>1
    <3>2. f.pc \in Started \ {"forked", "write"}
      <4>1. f.pc \notin {"pipes", "forked", "write", "threw", "leaked", "idle"} BY <3>1 DEF StreamAt, EndsHeld
      <4>2. f.pc \in Started \cup {"idle", "pipes", "threw", "leaked", "undefined", "killed"}
        BY DEF StreamAt, StreamTypes
      <4>. QED BY <1>0, <2>1, <4>1, <4>2
    <3>3. f.feed = <<>> /\ (f.taken \o b["in"]) \o f.feed = Wanted(sys, f)
      BY <3>2 DEF StreamAt, InputKept
    <3>4. PICK x \in Seq(Symbols) : x = f.taken BY DEF StreamAt, StreamTypes
    <3>5. x \o <<>> = x BY ConcatEmptySeq
    <3>6. Wanted(sys, g) = Wanted(sys, f) BY <1>0 DEF Wanted
    <3>. QED BY <1>0, <3>1, <3>3, <3>4, <3>5, <3>6, Zenon
  <2>2. Wanted(sys, g) = Wanted(sys, f) BY <1>0 DEF Wanted
  <2>3. f.pc \in Started \ {"forked", "write"} => f.feed = <<>> BY DEF StreamAt, InputKept
  <2>4. f.pc \in {"idle", "pipes", "forked"} => f.taken = <<>> /\ b["in"] = <<>> BY DEF StreamAt, InputKept
  <2>. QED BY <1>0, <2>1, <2>3, <2>4, Zenon DEF InputKept
<1>6. Drained(sys, g, b, w2)
  <2>. SUFFICES ASSUME f.streams, ~f.cut PROVE Drained(sys, g, b, w2)
    BY <1>0, Zenon DEF Drained
  <2>1. t \in w["out"] /\ t \in w["err"] BY DEF StreamAt, EndsHeld
  <2>2. ASSUME NEW q \in Outputs, Past(g, q) PROVE FALSE
    <3>1. Past(f, q) BY <1>0, <2>2 DEF Past
    <3>2. w[q] = {} BY <3>1, Zenon DEF StreamAt, Drained
    <3>. QED BY <1>1, <2>1, <3>2
  <2>3. ASSUME f.pc \in Started PROVE \A p \in Outputs : f.left[p] = <<>>
    <3>1. Past(g, "out") => FALSE BY <1>1, <2>2
    <3>2. f.pc \in {"forked", "write", "wait", "code"} \/ (f.pc = "out" /\ sys = "win32")
      BY <1>0, <2>3, <3>1 DEF Started, Past
    <3>3. Parent \in r["out"] /\ Parent \in r["err"] BY <3>2 DEF StreamAt, EndsHeld
    <3>. QED BY <1>1, <3>3
  <2>. QED BY <1>0, <2>2, <2>3, Zenon DEF Drained
<1>. QED BY <1>2, <1>3, <1>4, <1>5, <1>6 DEF StreamAt

(* A call.                                                                 *)
LEMMA CallAt ==
  ASSUME NEW sys, NEW t, NEW f, NEW g, NEW b, NEW w, NEW r, NEW w2, NEW r2, NEW j \in Jobs,
         StreamAt(sys, t, f, b, w, r), f.pc = "idle",
         DataBut(g, f, {"pc", "input", "streams", "plan", "left"}),
         g.pc = "pipes", g.input = j.input, g.plan = j.plan,
         g.left = [p \in {"out", "err"} |-> IF p = "out" THEN j.plan.out ELSE j.plan.err],
         \A p \in Pipes : w2[p] = {Parent} /\ r2[p] = {Parent}
  PROVE  StreamAt(sys, t, g, b, w2, r2)
<1>0. /\ g.child = f.child /\ g.feed = f.feed /\ g.raw = f.raw /\ g.taken = f.taken /\ g.text = f.text
  BY DEF DataBut
<1>1. Pipes = {"in", "out", "err"} /\ Outputs = {"out", "err"} BY DEF Pipes, Outputs
<1>2. f = Idle /\ b = [p \in Pipes |-> <<>>] BY DEF StreamAt, StreamTypes
<1>3. /\ g.child = "none" /\ g.feed = <<>> /\ g.taken = <<>>
      /\ g.raw = [p \in {"out", "err"} |-> <<>>] /\ g.text = [p \in {"out", "err"} |-> <<>>]
  BY <1>0, <1>2 DEF Idle
<1>4. j.input \in Seq(Symbols) /\ j.plan.out \in Seq(Symbols) /\ j.plan.err \in Seq(Symbols)
  BY ProcessAssumption
<1>a. <<>> \in Seq(Symbols) OBVIOUS
<1>b. g.raw \in [Outputs -> Seq(Symbols)] /\ g.text \in [Outputs -> Seq(Symbols)] BY <1>1, <1>3, <1>a
<1>c. g.left \in [Outputs -> Seq(Symbols)] BY <1>1, <1>4
<1>5. /\ <<>> \in Seq(Symbols) /\ \A k \in {"left", "raw", "text"} : g[k] \in [Outputs -> Seq(Symbols)]
  BY <1>a, <1>b, <1>c
<1>6. StreamTypes(g, b) BY <1>1, <1>2, <1>3, <1>4, <1>5 DEF StreamTypes
<1>7. OutputKept(g, b)
  <2>1. ASSUME NEW p \in Outputs PROVE (g.raw[p] \o b[p]) \o g.left[p] = All(g, p)
    <3>1. PICK x \in Seq(Symbols) : x = All(g, p) /\ g.left[p] = x BY <1>1, <1>4 DEF All
    <3>2. <<>> \o x = x /\ <<>> \o <<>> = <<>> BY <1>5, ConcatEmptySeq
    <3>3. g.raw[p] = <<>> /\ b[p] = <<>> BY <1>1, <1>2, <1>3
    <3>. QED BY <3>1, <3>2, <3>3, Zenon
  <2>. QED BY <2>1 DEF OutputKept
<1>8. InputKept(sys, g, b) BY <1>1, <1>2, <1>3 DEF InputKept, Started
<1>9. EndsHeld(sys, t, g, w2, r2) BY <1>1, <1>3 DEF EndsHeld, Started
<1>10. Drained(sys, g, b, w2) BY <1>3 DEF Drained, Past, Started
<1>. QED BY <1>6, <1>7, <1>8, <1>9, <1>10 DEF StreamAt

(* A child is started, by vfork or by CreateProcess.                       *)
LEMMA ForkAt ==
  ASSUME NEW sys, NEW t, NEW f, NEW g, NEW b, NEW w, NEW r, NEW w2, NEW r2,
         StreamAt(sys, t, f, b, w, r), f.pc = "pipes", g.pc = "forked", g.child = "runs",
         DataBut(g, f, {"pc", "child"}), sys = "posix",
         w2["in"] = {Parent}, r2["in"] = {Parent, t},
         \A p \in Outputs : w2[p] = {Parent, t} /\ r2[p] = {Parent}
  PROVE  StreamAt(sys, t, g, b, w2, r2)
<1>0. /\ g.input = f.input /\ g.streams = f.streams /\ g.plan = f.plan /\ g.left = f.left
      /\ g.feed = f.feed /\ g.raw = f.raw /\ g.taken = f.taken /\ g.text = f.text /\ g.cut = f.cut
  BY DEF DataBut
<1>1. Pipes = {"in", "out", "err"} /\ Outputs = {"out", "err"} BY DEF Pipes, Outputs
<1>2. StreamTypes(g, b) BY <1>0 DEF StreamAt, StreamTypes, Started
<1>3. OutputKept(g, b) BY <1>0 DEF StreamAt, OutputKept, All
<1>4. InputKept(sys, g, b) BY <1>0 DEF StreamAt, InputKept, Started
<1>5. EndsHeld(sys, t, g, w2, r2) BY <1>1 DEF EndsHeld, Started
<1>6. Drained(sys, g, b, w2) BY DEF Drained, Past
<1>. QED BY <1>2, <1>3, <1>4, <1>5, <1>6 DEF StreamAt

(* So does CreateProcess(). *)
LEMMA CreateAt ==
  ASSUME NEW sys, NEW t, NEW f, NEW g, NEW b, NEW w, NEW r, NEW w2, NEW r2,
         StreamAt(sys, t, f, b, w, r), f.pc = "pipes", g.pc \in {"write", "undefined"}, g.child = "runs",
         DataBut(g, f, {"pc", "child", "feed"}), g.feed = f.input, sys = "win32",
         \A p \in Pipes : /\ w2[p] = w[p] \cup (IF p # "in" /\ Parent \in w[p] THEN {t} ELSE {})
                          /\ r2[p] = r[p] \cup (IF p = "in" /\ Parent \in r[p] THEN {t} ELSE {})
  PROVE  StreamAt(sys, t, g, b, w2, r2)
<1>0. /\ g.input = f.input /\ g.streams = f.streams /\ g.plan = f.plan /\ g.left = f.left
      /\ g.raw = f.raw /\ g.taken = f.taken /\ g.text = f.text /\ g.cut = f.cut
  BY DEF DataBut
<1>1. Pipes = {"in", "out", "err"} /\ Outputs = {"out", "err"} BY DEF Pipes, Outputs
<1>2. StreamTypes(g, b) BY <1>0 DEF StreamAt, StreamTypes, Started
<1>3. OutputKept(g, b) BY <1>0 DEF StreamAt, OutputKept, All
<1>4. InputKept(sys, g, b)
  <2>1. f.taken = <<>> /\ b["in"] = <<>> BY DEF StreamAt, InputKept
  <2>2. PICK x \in Seq(Symbols) : x = f.input BY DEF StreamAt, StreamTypes
  <2>3. <<>> \o x = x /\ <<>> \o <<>> = <<>> BY ConcatEmptySeq
  <2>4. Wanted(sys, g) = x BY <1>0, <2>2 DEF Wanted
  <2>5. (g.taken \o b["in"]) \o g.feed = Wanted(sys, g) BY <1>0, <2>1, <2>2, <2>3, <2>4, Zenon
  <2>. QED BY <2>5 DEF InputKept, Started
<1>5. EndsHeld(sys, t, g, w2, r2)
  <2>1. \A p \in Pipes : Parent \in w[p] /\ Parent \in r[p] BY DEF StreamAt, EndsHeld
  <2>. QED BY <1>1, <2>1 DEF EndsHeld, Started
<1>6. Drained(sys, g, b, w2) BY DEF Drained, Past
<1>. QED BY <1>2, <1>3, <1>4, <1>5, <1>6 DEF StreamAt

(* The parent closes the ends of the child and has the input.              *)
LEMMA CloseAt ==
  ASSUME NEW sys, NEW t, NEW f, NEW g, NEW b, NEW w, NEW r, NEW w2, NEW r2,
         StreamAt(sys, t, f, b, w, r), f.pc = "forked", g.pc = "write",
         DataBut(g, f, {"pc", "feed"}), g.feed = Fed(f.input), Fed(f.input) \in Seq(Symbols),
         t # Parent, w2["in"] = w["in"], r2["in"] = r["in"] \ {Parent},
         \A p \in Outputs : w2[p] = w[p] \ {Parent} /\ r2[p] = r[p]
  PROVE  StreamAt(sys, t, g, b, w2, r2)
<1>0. /\ g.input = f.input /\ g.streams = f.streams /\ g.plan = f.plan /\ g.left = f.left /\ g.child = f.child
      /\ g.raw = f.raw /\ g.taken = f.taken /\ g.text = f.text /\ g.cut = f.cut
  BY DEF DataBut
<1>1. Pipes = {"in", "out", "err"} /\ Outputs = {"out", "err"} BY DEF Pipes, Outputs
<1>2. StreamTypes(g, b) BY <1>0 DEF StreamAt, StreamTypes, Started
<1>3. OutputKept(g, b) BY <1>0 DEF StreamAt, OutputKept, All
<1>4. InputKept(sys, g, b)
  <2>1. f.taken = <<>> /\ b["in"] = <<>> /\ sys = "posix" BY DEF StreamAt, InputKept, EndsHeld
  <2>2. PICK x \in Seq(Symbols) : x = Fed(f.input) OBVIOUS
  <2>3. <<>> \o x = x /\ <<>> \o <<>> = <<>> BY ConcatEmptySeq
  <2>4. Wanted(sys, g) = x /\ Wanted(sys, g) = Wanted(sys, f) BY <1>0, <2>1, <2>2 DEF Wanted
  <2>5. (g.taken \o b["in"]) \o g.feed = Wanted(sys, g) BY <1>0, <2>1, <2>2, <2>3, <2>4, Zenon
  <2>6. /\ f.child \in {"zombie", "reaped"} /\ f.plan.reads /\ \A p \in Outputs : f.left[p] = <<>>
        => f.taken = Wanted(sys, f)
    BY DEF StreamAt, InputKept
  <2>. QED BY <1>0, <2>4, <2>5, <2>6 DEF InputKept, Started
<1>5. EndsHeld(sys, t, g, w2, r2) BY <1>0, <1>1 DEF StreamAt, EndsHeld, Started
<1>6. Drained(sys, g, b, w2) BY <1>0, <1>1 DEF StreamAt, Drained, Past, Started
<1>. QED BY <1>2, <1>3, <1>4, <1>5, <1>6 DEF StreamAt

-----------------------------------------------------------------------------
(* The same for the steps of the specification.                            *)

(* A step of one caller keeps the invariant if its own streams do. *)
LEMMA StreamKeeps ==
  ASSUME StreamInv, NEW t \in Callers, system' = system, DOMAIN buf' = DOMAIN buf,
         \A u \in Callers \ {t} : /\ ex'[u] = ex[u] /\ buf'[u] = buf[u]
                                  /\ OthersEnds(u, wr[u], wr'[u]) /\ OthersEnds(u, rd[u], rd'[u]),
         StreamAt(system, t, ex'[t], buf'[t], wr'[t], rd'[t])
  PROVE  StreamInv'
<1>1. ASSUME NEW u \in Callers PROVE StreamAt(system', u, ex'[u], buf'[u], wr'[u], rd'[u])
  <2>1. CASE u = t BY <2>1
  <2>2. CASE u # t
    <3>1. StreamAt(system, u, ex[u], buf[u], wr[u], rd[u]) BY DEF StreamInv
    <3>2. OthersEnds(u, wr[u], wr'[u]) /\ OthersEnds(u, rd[u], rd'[u]) /\ ex'[u] = ex[u] /\ buf'[u] = buf[u]
      BY <2>2
    <3>3. StreamAt(system, u, ex[u], buf[u], wr'[u], rd'[u]) BY <3>1, <3>2, OthersKeep
    <3>. QED BY <3>2, <3>3
  <2>. QED BY <2>1, <2>2
<1>2. system' \in {"posix", "win32"} /\ DOMAIN buf' = Callers BY DEF StreamInv
<1>. QED BY <1>1, <1>2 DEF StreamInv

(* Ends that do not change. *)
LEMMA SameEnds == ASSUME NEW u, NEW w PROVE OthersEnds(u, w, w)
BY DEF OthersEnds

(* When the ends and the other frames stay.                                *)
LEMMA FrameKeeps ==
  ASSUME StreamInv, NEW t \in Callers, system' = system, DOMAIN buf' = DOMAIN buf,
         \A u \in Callers \ {t} : ex'[u] = ex[u] /\ buf'[u] = buf[u] /\ wr'[u] = wr[u] /\ rd'[u] = rd[u],
         StreamAt(system, t, ex'[t], buf'[t], wr'[t], rd'[t])
  PROVE  StreamInv'
<1>1. \A u \in Callers \ {t} : OthersEnds(u, wr[u], wr'[u]) /\ OthersEnds(u, rd[u], rd'[u])
  BY SameEnds
<1>. QED BY <1>1, StreamKeeps

(* The frame that a step changes, field by field.                          *)
LEMMA FieldsOf ==
  ASSUME ProcessInv, NEW t \in Callers
  PROVE  /\ DOMAIN ex = Callers /\ DOMAIN ex[t] = DOMAIN Idle
         /\ wr \in [Callers -> [Pipes -> SUBSET (Callers \cup {Parent})]]
         /\ rd \in [Callers -> [Pipes -> SUBSET (Callers \cup {Parent})]]
BY DEF ProcessInv, ProcessTypes

(* What the invariant says of one caller. *)
LEMMA StreamOf ==
  ASSUME StreamInv, NEW t \in Callers
  PROVE  /\ StreamAt(system, t, ex[t], buf[t], wr[t], rd[t])
         /\ system \in {"posix", "win32"} /\ t # Parent
         /\ DOMAIN buf[t] = Pipes /\ buf[t] \in [Pipes -> Seq(Symbols)]
BY ProcessAssumption DEF StreamInv, StreamAt, StreamTypes, Parent

(* execute() up to the child, and its failures. *)
LEMMA StreamStart ==
  ASSUME ProcessInv, StreamInv, NEW t \in Callers, Execute(t) \/ PipeFails(t) \/ PosixSpawnFails(t) \/ Win32SpawnFails(t)
  PROVE  StreamInv'
<1>0. StreamAt(system, t, ex[t], buf[t], wr[t], rd[t]) BY StreamOf
<1>1. CASE Execute(t)
  <2>0. PICK j \in Jobs :
          ex' = [ex EXCEPT ![t].pc = "pipes", ![t].input = j.input, ![t].streams = j.streams, ![t].plan = j.plan,
                           ![t].left = [p \in {"out", "err"} |-> IF p = "out" THEN j.plan.out ELSE j.plan.err]]
    BY <1>1 DEF Execute
  <2>1. PICK left : left = [p \in {"out", "err"} |-> IF p = "out" THEN j.plan.out ELSE j.plan.err] OBVIOUS
  <2>2. PICK mid : mid = [ex EXCEPT ![t].pc = "pipes", ![t].input = j.input] OBVIOUS
  <2>3. /\ DOMAIN mid = Callers /\ DOMAIN mid[t] = DOMAIN Idle
        /\ \A u \in Callers \ {t} : mid[u] = ex[u]
        /\ mid[t].pc = "pipes" /\ mid[t].input = j.input /\ DataBut(mid[t], ex[t], {"pc", "input"})
    BY <2>2, FieldsOf, FrameFields DEF DataBut
  <2>4. ex' = [mid EXCEPT ![t].streams = j.streams, ![t].plan = j.plan, ![t].left = left]
    BY <2>0, <2>1, <2>2
  <2>5. /\ \A u \in Callers \ {t} : ex'[u] = ex[u]
        /\ ex'[t].pc = "pipes" /\ ex'[t].input = j.input /\ ex'[t].plan = j.plan /\ ex'[t].left = left
        /\ DataBut(ex'[t], mid[t], {"streams", "plan", "left"})
    BY <2>3, <2>4, FrameFields DEF DataBut
  <2>6. DataBut(ex'[t], ex[t], {"pc", "input", "streams", "plan", "left"})
    BY <2>3, <2>5 DEF DataBut
  <2>7. /\ \A u \in Callers \ {t} : wr'[u] = wr[u] /\ rd'[u] = rd[u]
        /\ \A p \in Pipes : wr'[t][p] = {Parent} /\ rd'[t][p] = {Parent}
        /\ buf' = buf /\ system' = system /\ ex[t].pc = "idle"
    BY <1>1, FieldsOf DEF Execute, At
  <2>8. StreamAt(system, t, ex'[t], buf[t], wr'[t], rd'[t])
    BY <1>0, <2>1, <2>5, <2>6, <2>7, CallAt
  <2>. QED BY <2>5, <2>7, <2>8, FrameKeeps
<1>2. CASE PipeFails(t) \/ PosixSpawnFails(t)
  <2>1. /\ \A u \in Callers \ {t} : ex'[u] = ex[u]
        /\ ex'[t].pc \in {"threw", "leaked", "undefined"} /\ ex'[t].child = ex[t].child /\ DataSame(ex'[t], ex[t])
    BY <1>2, FieldsOf, FrameFields, ZenonT(60) DEF PipeFails, PosixSpawnFails, DataSame
  <2>2. UNCHANGED <<buf, wr, rd, system>> /\ ex[t].pc \in {"idle", "pipes"}
    BY <1>2 DEF PipeFails, PosixSpawnFails, At
  <2>3. StreamAt(system, t, ex'[t], buf[t], wr[t], rd[t]) BY <1>0, <2>1, <2>2, LeaveAt
  <2>. QED BY <2>1, <2>2, <2>3, FrameKeeps
<1>3. CASE Win32SpawnFails(t)
  <2>1. /\ \A u \in Callers \ {t} : ex'[u] = ex[u]
        /\ ex'[t].pc = "threw" /\ ex'[t].child = ex[t].child /\ DataSame(ex'[t], ex[t])
    BY <1>3, FieldsOf, FrameFields DEF Win32SpawnFails, DataSame
  <2>2. UNCHANGED <<buf, system>> /\ ex[t].pc \in {"idle", "pipes"}
    BY <1>3 DEF Win32SpawnFails, At
  <2>3. \A u \in Callers \ {t} : wr'[u] = wr[u] /\ rd'[u] = rd[u]
    BY <1>3, FieldsOf DEF Win32SpawnFails, CloseAll
  <2>4. StreamAt(system, t, ex'[t], buf[t], wr'[t], rd'[t]) BY <1>0, <2>1, <2>2, LeaveAt
  <2>. QED BY <2>1, <2>2, <2>3, <2>4, FrameKeeps
<1>. QED BY <1>1, <1>2, <1>3

(* The child starts with its ends of the pipes. *)
LEMMA StreamSpawn ==
  ASSUME ProcessInv, StreamInv, NEW t \in Callers, PosixSpawn(t) \/ Win32Spawn(t)
  PROVE  StreamInv'
<1>0. StreamAt(system, t, ex[t], buf[t], wr[t], rd[t]) /\ t # Parent BY StreamOf
<1>1. Pipes = {"in", "out", "err"} /\ Outputs = {"out", "err"} BY DEF Pipes, Outputs
<1>2. CASE PosixSpawn(t)
  <2>1. /\ \A u \in Callers \ {t} : ex'[u] = ex[u]
        /\ ex'[t].pc = "forked" /\ ex'[t].child = "runs" /\ DataBut(ex'[t], ex[t], {"pc", "child"})
    BY <1>2, FieldsOf, FrameFields DEF PosixSpawn, DataBut
  <2>2. UNCHANGED <<buf, system>> /\ ex[t].pc = "pipes" /\ system = "posix"
    BY <1>2 DEF PosixSpawn, At
  <2>3. /\ wr'[t]["in"] = {Parent} /\ rd'[t]["in"] = {Parent, t}
        /\ \A p \in Outputs : wr'[t][p] = {Parent, t} /\ rd'[t][p] = {Parent}
    BY <1>1, <1>2 DEF PosixSpawn
  <2>4. ASSUME NEW u \in Callers \ {t}
        PROVE  OthersEnds(u, wr[u], wr'[u]) /\ OthersEnds(u, rd[u], rd'[u])
    <3>1. \A p \in Pipes : /\ wr'[u][p] = wr[u][p] \cup (IF Parent \in wr[u][p] THEN {t} ELSE {})
                           /\ rd'[u][p] = rd[u][p] \cup (IF Parent \in rd[u][p] THEN {t} ELSE {})
      BY <1>2 DEF PosixSpawn
    <3>. QED BY <3>1 DEF OthersEnds
  <2>5. StreamAt(system, t, ex'[t], buf[t], wr'[t], rd'[t]) BY <1>0, <2>1, <2>2, <2>3, ForkAt
  <2>. QED BY <2>1, <2>2, <2>4, <2>5, StreamKeeps
<1>3. CASE Win32Spawn(t)
  <2>1. /\ \A u \in Callers \ {t} : ex'[u] = ex[u]
        /\ ex'[t].pc \in {"write", "undefined"} /\ ex'[t].child = "runs" /\ ex'[t].feed = ex[t].input
        /\ DataBut(ex'[t], ex[t], {"pc", "child", "feed"})
    BY <1>3, FieldsOf, FrameFields DEF Win32Spawn, DataBut
  <2>2. UNCHANGED <<buf, system>> /\ ex[t].pc = "pipes" /\ system = "win32"
    BY <1>3 DEF Win32Spawn, At
  <2>3. \A u \in Callers, p \in Pipes :
          /\ wr'[u][p] = wr[u][p] \cup (IF p # "in" /\ Parent \in wr[u][p] THEN {t} ELSE {})
          /\ rd'[u][p] = rd[u][p] \cup (IF p = "in" /\ Parent \in rd[u][p] THEN {t} ELSE {})
    BY <1>3 DEF Win32Spawn
  <2>4. ASSUME NEW u \in Callers \ {t}
        PROVE  OthersEnds(u, wr[u], wr'[u]) /\ OthersEnds(u, rd[u], rd'[u])
    BY <2>3 DEF OthersEnds
  <2>5. StreamAt(system, t, ex'[t], buf[t], wr'[t], rd'[t]) BY <1>0, <2>1, <2>2, <2>3, CreateAt
  <2>. QED BY <2>1, <2>2, <2>4, <2>5, StreamKeeps
<1>. QED BY <1>2, <1>3

(* The parent closes the ends of the child. *)
LEMMA StreamClose ==
  ASSUME ProcessInv, StreamInv, NEW t \in Callers, ParentCloses(t)
  PROVE  StreamInv'
<1>0. StreamAt(system, t, ex[t], buf[t], wr[t], rd[t]) /\ t # Parent BY StreamOf
<1>1. Pipes = {"in", "out", "err"} /\ Outputs = {"out", "err"} BY DEF Pipes, Outputs
<1>2. /\ \A u \in Callers \ {t} : ex'[u] = ex[u]
      /\ ex'[t].pc = "write" /\ ex'[t].feed = Fed(ex[t].input) /\ DataBut(ex'[t], ex[t], {"pc", "feed"})
  BY FieldsOf, FrameFields DEF ParentCloses, DataBut
<1>3. UNCHANGED <<buf, system>> /\ ex[t].pc = "forked" BY DEF ParentCloses, At
<1>4. /\ \A u \in Callers \ {t} : wr'[u] = wr[u] /\ rd'[u] = rd[u]
      /\ wr'[t]["in"] = wr[t]["in"] /\ rd'[t]["in"] = rd[t]["in"] \ {Parent}
      /\ \A p \in Outputs : wr'[t][p] = wr[t][p] \ {Parent} /\ rd'[t][p] = rd[t][p]
  BY <1>1, FieldsOf DEF ParentCloses
<1>5. Fed(ex[t].input) \in Seq(Symbols)
  <2>1. ex[t].input \in Seq(Symbols) BY <1>0 DEF StreamAt, StreamTypes
  <2>. QED BY <2>1, SentWhole DEF Fed
<1>6. StreamAt(system, t, ex'[t], buf[t], wr'[t], rd'[t]) BY <1>0, <1>2, <1>3, <1>4, <1>5, CloseAt
<1>. QED BY <1>2, <1>3, <1>4, <1>6, FrameKeeps

(* The steps that move no data. *)
LEMMA StreamGoOn ==
  ASSUME ProcessInv, StreamInv, NEW t \in Callers,
         PosixInputDone(t) \/ Win32InputDone(t) \/ Win32ExitCode(t) \/ Wait(t) \/ Return(t)
  PROVE  StreamInv'
<1>0. StreamAt(system, t, ex[t], buf[t], wr[t], rd[t]) /\ t # Parent /\ system \in {"posix", "win32"} BY StreamOf
<1>1. Pipes = {"in", "out", "err"} /\ Outputs = {"out", "err"} BY DEF Pipes, Outputs
<1>2. /\ \A u \in Callers \ {t} : ex'[u] = ex[u]
      /\ DataSame(ex'[t], ex[t])
      /\ ex'[t].child = ex[t].child \/ (ex[t].child = "zombie" /\ ex'[t].child = "reaped")
  <2>1. CASE PosixInputDone(t) BY <2>1, FieldsOf, FrameFields DEF PosixInputDone, DataSame
  <2>2. CASE Win32InputDone(t) BY <2>2, FieldsOf, FrameFields DEF Win32InputDone, DataSame
  <2>3. CASE Win32ExitCode(t)
    <3>1. PICK e, s : ex' = [ex EXCEPT ![t].pc = "out", ![t].early = e, ![t].status = s] BY <2>3 DEF Win32ExitCode
    <3>. QED BY <3>1, FieldsOf, FrameFields DEF DataSame
  <2>4. CASE Wait(t)
    <3>1. \/ ex' = [ex EXCEPT ![t].pc = "out", ![t].child = "reaped", ![t].status = ex[t].plan.code] /\ ex[t].child = "zombie"
          \/ \E s : ex' = [ex EXCEPT ![t].pc = "out", ![t].status = s]
      BY <2>4 DEF Wait
    <3>2. CASE ex' = [ex EXCEPT ![t].pc = "out", ![t].child = "reaped", ![t].status = ex[t].plan.code] /\ ex[t].child = "zombie"
      BY <3>2, FieldsOf, FrameFields DEF DataSame
    <3>3. ASSUME NEW s, ex' = [ex EXCEPT ![t].pc = "out", ![t].status = s]
          PROVE  /\ \A u \in Callers \ {t} : ex'[u] = ex[u]
                 /\ DataSame(ex'[t], ex[t]) /\ ex'[t].child = ex[t].child
      BY <3>3, FieldsOf, FrameFields DEF DataSame
    <3>. QED BY <3>1, <3>2, <3>3
  <2>5. CASE Return(t) BY <2>5, FieldsOf, FrameFields DEF Return, DataSame
  <2>. QED BY <2>1, <2>2, <2>3, <2>4, <2>5
<1>3. \/ ex[t].pc = "write" /\ ex'[t].pc = "wait" /\ system = "posix" /\ ex[t].feed = <<>>
      \/ ex[t].pc = "write" /\ ex'[t].pc = "code" /\ system = "win32" /\ ex[t].feed = <<>>
      \/ ex[t].pc \in {"code", "wait"} /\ ex'[t].pc = "out"
      \/ ex[t].pc = "return" /\ ex'[t].pc = "done"
  <2>1. CASE PosixInputDone(t) BY <2>1, FieldsOf, FrameFields DEF PosixInputDone, At
  <2>2. CASE Win32InputDone(t) BY <2>2, FieldsOf, FrameFields DEF Win32InputDone, At
  <2>3. CASE Win32ExitCode(t) BY <2>3, FieldsOf, FrameFields DEF Win32ExitCode, At
  <2>4. CASE Wait(t) BY <2>4, FieldsOf, FrameFields DEF Wait, At
  <2>5. CASE Return(t) BY <2>5, FieldsOf, FrameFields DEF Return, At
  <2>. QED BY <2>1, <2>2, <2>3, <2>4, <2>5
<1>4. /\ UNCHANGED <<buf, system>>
      /\ ex[t].pc # "return" => rd' = rd
      /\ \A u \in Callers \ {t} : wr'[u] = wr[u] /\ rd'[u] = rd[u]
      /\ \A p \in Pipes : /\ wr'[t][p] \in {wr[t][p], wr[t][p] \ {Parent}}
                          /\ rd'[t][p] \in {rd[t][p], rd[t][p] \ {Parent}}
  <2>1. CASE PosixInputDone(t) BY <1>1, <2>1, FieldsOf DEF PosixInputDone, At
  <2>2. CASE Win32InputDone(t) BY <2>2, FieldsOf DEF Win32InputDone, At
  <2>3. CASE Win32ExitCode(t) \/ Wait(t) BY <2>3 DEF Win32ExitCode, Wait, ends
  <2>5. CASE Return(t) BY <2>5, FieldsOf DEF Return, CloseAll, At
  <2>. QED BY <2>1, <2>2, <2>3, <2>5
<1>5. /\ ex[t].feed = <<>> /\ ex[t].pc \in Started \ {"forked"} /\ ex'[t].pc \in Started \ {"forked", "write"}
      /\ ex'[t].pc = "wait" => system = "posix"
      /\ \A p \in Outputs : Past(ex'[t], p) <=> Past(ex[t], p)
  <2>1. ex[t].pc \in {"code", "wait", "return"} => ex[t].feed = <<>> BY <1>0 DEF StreamAt, InputKept, Started
  <2>. QED BY <1>1, <1>3, <2>1 DEF Started, Past
<1>6. \A p \in Pipes : /\ t \in wr[t][p] => t \in wr'[t][p]
                       /\ t \in rd[t][p] => t \in rd'[t][p]
                       /\ wr[t][p] = {} => wr'[t][p] = {}
  BY <1>0, <1>4
<1>7. \/ ex'[t].pc \in {"wait", "code"}
      \/ ex'[t].pc \in {"out", "err", "return"} /\ system = "win32"
      => Parent \in rd'[t]["out"] /\ Parent \in rd'[t]["err"]
  BY <1>0, <1>3, <1>4 DEF StreamAt, EndsHeld
<1>8. StreamAt(system, t, ex'[t], buf[t], wr'[t], rd'[t])
  <2>1. Onward(system, t, ex[t], ex'[t], wr[t], rd[t], wr'[t], rd'[t])
    BY <1>2, <1>5, <1>6, <1>7, Zenon DEF Onward
  <2>. QED BY <1>0, <2>1, GoOnAt, Zenon
<1>9. \A u \in Callers \ {t} : ex'[u] = ex[u] /\ buf'[u] = buf[u] /\ wr'[u] = wr[u] /\ rd'[u] = rd[u]
  BY <1>2, <1>4
<1>. QED BY <1>4, <1>8, <1>9, FrameKeeps

(* The parent writes input. *)
LEMMA StreamWrite ==
  ASSUME ProcessInv, StreamInv, NEW t \in Callers, WriteInput(t)
  PROVE  StreamInv'
<1>0. StreamAt(system, t, ex[t], buf[t], wr[t], rd[t]) /\ DOMAIN buf[t] = Pipes BY StreamOf
<1>1. UNCHANGED <<wr, rd, system>> /\ ex[t].pc = "write" /\ ex[t].feed # <<>> BY DEF WriteInput, At
<1>2. CASE ex' = [u \in Callers |-> [ex[u] EXCEPT !.pc = "killed"]] /\ buf' = buf
  <2>1. ASSUME NEW u \in Callers PROVE StreamAt(system', u, ex'[u], buf'[u], wr'[u], rd'[u])
    <3>1. StreamAt(system, u, ex[u], buf[u], wr[u], rd[u]) BY StreamOf
    <3>2. ex'[u].pc = "killed" /\ DataBut(ex'[u], ex[u], {"pc"})
      BY <1>2, FieldsOf, FrameFields DEF DataBut
    <3>3. StreamAt(system, u, ex'[u], buf[u], wr[u], rd[u]) BY <3>1, <3>2, KilledAt
    <3>. QED BY <1>1, <1>2, <3>3
  <2>2. system' \in {"posix", "win32"} /\ DOMAIN buf' = Callers BY <1>1, <1>2 DEF StreamInv
  <2>. QED BY <2>1, <2>2 DEF StreamInv
<1>3. CASE ex' = [ex EXCEPT ![t].feed = Tail(@)]
  <2>1. /\ \A u \in Callers \ {t} : ex'[u] = ex[u]
        /\ ex'[t].feed = Tail(ex[t].feed) /\ DataBut(ex'[t], ex[t], {"feed"})
    BY <1>3, FieldsOf, FrameFields DEF DataBut
  <2>2. CASE rd[t]["in"] = {} /\ buf' = buf
    <3>1. StreamAt(system, t, ex'[t], buf[t], wr[t], rd[t]) BY <1>0, <1>1, <2>1, <2>2, LoseAt
    <3>. QED BY <1>1, <2>1, <2>2, <3>1, FrameKeeps
  <2>3. CASE buf' = [buf EXCEPT ![t]["in"] = Append(@, Head(ex[t].feed))]
    <3>0. DOMAIN buf = Callers BY DEF StreamInv
    <3>1. /\ \A u \in Callers \ {t} : buf'[u] = buf[u]
          /\ DOMAIN buf' = DOMAIN buf
          /\ buf'[t] = [buf[t] EXCEPT !["in"] = Append(@, Head(ex[t].feed))]
      BY <2>3, <3>0
    <3>2. StreamAt(system, t, ex'[t], buf'[t], wr[t], rd[t]) BY <1>0, <1>1, <2>1, <3>1, FeedAt
    <3>. QED BY <1>1, <2>1, <3>1, <3>2, FrameKeeps
  <2>4. (rd[t]["in"] = {} /\ buf' = buf) \/ buf' = [buf EXCEPT ![t]["in"] = Append(@, Head(ex[t].feed))]
    BY DEF WriteInput
  <2>. QED BY <2>2, <2>3, <2>4
<1>. QED BY <1>2, <1>3 DEF WriteInput

(* The child reads and writes. *)
LEMMA StreamChild ==
  ASSUME ProcessInv, StreamInv, NEW t \in Callers,
         ChildReads(t) \/ \E p \in {"out", "err"} : ChildWrites(t, p)
  PROVE  StreamInv'
<1>0. StreamAt(system, t, ex[t], buf[t], wr[t], rd[t]) /\ DOMAIN buf[t] = Pipes BY StreamOf
<1>1. DOMAIN buf = Callers BY DEF StreamInv
<1>2. CASE ChildReads(t)
  <2>1. /\ \A u \in Callers \ {t} : ex'[u] = ex[u] /\ buf'[u] = buf[u]
        /\ DOMAIN buf' = DOMAIN buf
        /\ ex'[t].taken = Append(ex[t].taken, Head(buf[t]["in"])) /\ DataBut(ex'[t], ex[t], {"taken"})
        /\ buf'[t] = [buf[t] EXCEPT !["in"] = Tail(@)]
    BY <1>1, <1>2, FieldsOf, FrameFields DEF ChildReads, DataBut
  <2>2. UNCHANGED <<wr, rd, system>> /\ ex[t].child = "runs" /\ buf[t]["in"] # <<>> BY <1>2 DEF ChildReads
  <2>3. StreamAt(system, t, ex'[t], buf'[t], wr[t], rd[t]) BY <1>0, <2>1, <2>2, TakeAt
  <2>. QED BY <2>1, <2>2, <2>3, FrameKeeps
<1>3. ASSUME NEW p \in {"out", "err"}, ChildWrites(t, p) PROVE StreamInv'
  <2>0. p \in Outputs BY DEF Outputs
  <2>1. /\ \A u \in Callers \ {t} : ex'[u] = ex[u] /\ buf'[u] = buf[u]
        /\ DOMAIN buf' = DOMAIN buf
        /\ ex'[t].left = [ex[t].left EXCEPT ![p] = Tail(@)] /\ DataBut(ex'[t], ex[t], {"left"})
        /\ buf'[t] = [buf[t] EXCEPT ![p] = Append(@, Head(ex[t].left[p]))]
    BY <1>1, <1>3, FieldsOf, FrameFields DEF ChildWrites, DataBut
  <2>2. UNCHANGED <<wr, rd, system>> /\ ex[t].child = "runs" /\ ex[t].left[p] # <<>> BY <1>3 DEF ChildWrites
  <2>3. StreamAt(system, t, ex'[t], buf'[t], wr[t], rd[t])
    <3>1. PICK f, g : f = ex[t] /\ g = ex'[t] OBVIOUS
    <3>2. PICK b, c : b = buf[t] /\ c = buf'[t] OBVIOUS
    <3>3. /\ StreamAt(system, t, f, b, wr[t], rd[t]) /\ f.child = "runs" /\ f.left[p] # <<>>
          /\ DataBut(g, f, {"left"}) /\ g.left = [f.left EXCEPT ![p] = Tail(@)]
          /\ c = [b EXCEPT ![p] = Append(@, Head(f.left[p]))]
      BY <1>0, <2>1, <2>2, <3>1, <3>2
    <3>4. StreamAt(system, t, g, c, wr[t], rd[t]) BY <2>0, <3>3, PrintAt
    <3>. QED BY <3>1, <3>2, <3>4
  <2>. QED BY <2>1, <2>2, <2>3, FrameKeeps
<1>. QED BY <1>2, <1>3

(* The parent reads output, meets its end or fails to hand it on. *)
LEMMA StreamRead ==
  ASSUME ProcessInv, StreamInv, NEW t \in Callers, NEW p \in {"out", "err"},
         ReadStream(t, p) \/ EndStream(t, p) \/ SinkFails(t, p)
  PROVE  StreamInv'
<1>0. StreamAt(system, t, ex[t], buf[t], wr[t], rd[t]) /\ DOMAIN buf[t] = Pipes BY StreamOf
<1>1. DOMAIN buf = Callers /\ p \in Outputs /\ p # "in" BY DEF StreamInv, Outputs
<1>2. CASE ReadStream(t, p)
  <2>1. /\ \A u \in Callers \ {t} : ex'[u] = ex[u] /\ buf'[u] = buf[u]
        /\ DOMAIN buf' = DOMAIN buf
        /\ ex'[t].raw = [ex[t].raw EXCEPT ![p] = @ \o buf[t][p]] /\ DataBut(ex'[t], ex[t], {"raw"})
        /\ buf'[t] = [buf[t] EXCEPT ![p] = <<>>]
    BY <1>1, <1>2, FieldsOf, FrameFields DEF ReadStream, DataBut
  <2>2. UNCHANGED <<wr, rd, system>> /\ ex[t].pc = p BY <1>2 DEF ReadStream, At
  <2>3. StreamAt(system, t, ex'[t], buf'[t], wr[t], rd[t])
    <3>1. PICK f, g : f = ex[t] /\ g = ex'[t] OBVIOUS
    <3>2. PICK b, c : b = buf[t] /\ c = buf'[t] OBVIOUS
    <3>3. /\ StreamAt(system, t, f, b, wr[t], rd[t]) /\ f.pc = p
          /\ DataBut(g, f, {"raw"}) /\ g.raw = [f.raw EXCEPT ![p] = @ \o b[p]]
          /\ c = [b EXCEPT ![p] = <<>>]
      BY <1>0, <2>1, <2>2, <3>1, <3>2
    <3>4. StreamAt(system, t, g, c, wr[t], rd[t]) BY <1>1, <3>3, ReadAt
    <3>. QED BY <3>1, <3>2, <3>4
  <2>. QED BY <2>1, <2>2, <2>3, FrameKeeps
<1>3. ASSUME EndStream(t, p) \/ SinkFails(t, p)
      PROVE  /\ UNCHANGED <<buf, wr, system>> /\ ex[t].pc = p
             /\ \A u \in Callers \ {t} : rd'[u] = rd[u]
             /\ rd'[t]["in"] = rd[t]["in"] /\ (system = "win32" => rd'[t] = rd[t])
  <2>1. UNCHANGED <<buf, wr, system>> /\ ex[t].pc = p BY <1>3 DEF EndStream, SinkFails, At
  <2>2. rd' = IF system = "posix" THEN [rd EXCEPT ![t][p] = @ \ {Parent}] ELSE rd
    BY <1>3 DEF EndStream, SinkFails
  <2>. QED BY <1>1, <2>1, <2>2, FieldsOf
<1>4. CASE EndStream(t, p)
  <2>0. PICK text : text = IF system = "posix" THEN Printed(ex[t].raw[p]) ELSE ex[t].raw[p] OBVIOUS
  <2>1. ex' = [ex EXCEPT ![t].pc = After(p), ![t].text[p] = text]
    BY <1>4, <2>0 DEF EndStream
  <2>2. /\ \A u \in Callers \ {t} : ex'[u] = ex[u]
        /\ ex'[t].text = [ex[t].text EXCEPT ![p] = text] /\ ex'[t].pc = After(p)
        /\ DataBut(ex'[t], ex[t], {"text", "pc"})
    BY <2>1, FieldsOf, FrameFields DEF DataBut
  <2>3. ex[t].streams => buf[t][p] = <<>> /\ wr[t][p] = {} BY <1>4 DEF EndStream
  <2>4. Printed(ex[t].raw[p]) \in Seq(Symbols)
    <3>1. ex[t].raw[p] \in Seq(Symbols) BY <1>0, <1>1 DEF StreamAt, StreamTypes
    <3>. QED BY <3>1, SentWhole DEF Printed
  <2>5. StreamAt(system, t, ex'[t], buf[t], wr[t], rd'[t])
    <3>1. PICK f, g : f = ex[t] /\ g = ex'[t] OBVIOUS
    <3>2. PICK r : r = rd'[t] OBVIOUS
    <3>3. /\ StreamAt(system, t, f, buf[t], wr[t], rd[t]) /\ f.pc = p /\ g.pc = After(p)
          /\ f.streams => buf[t][p] = <<>> /\ wr[t][p] = {}
      BY <1>0, <1>3, <1>4, <2>2, <2>3, <3>1
    <3>4. /\ DataBut(g, f, {"text", "pc"}) /\ Printed(f.raw[p]) \in Seq(Symbols)
          /\ g.text = [f.text EXCEPT ![p] = IF system = "posix" THEN Printed(f.raw[p]) ELSE f.raw[p]]
      BY <2>0, <2>2, <2>4, <3>1
    <3>5. (system = "win32" => r = rd[t]) /\ r["in"] = rd[t]["in"] BY <1>3, <1>4, <3>2
    <3>6. StreamAt(system, t, g, buf[t], wr[t], r) BY <1>1, <3>3, <3>4, <3>5, EndAt
    <3>. QED BY <3>1, <3>2, <3>6
  <2>. QED BY <1>3, <1>4, <2>2, <2>5, FrameKeeps
<1>5. CASE SinkFails(t, p)
  <2>2. /\ \A u \in Callers \ {t} : ex'[u] = ex[u]
        /\ ex'[t].cut = TRUE /\ ex'[t].pc = After(p) /\ DataBut(ex'[t], ex[t], {"cut", "pc"})
    BY <1>5, FieldsOf, FrameFields DEF SinkFails, DataBut
  <2>5. StreamAt(system, t, ex'[t], buf[t], wr[t], rd'[t])
    BY <1>0, <1>1, <1>3, <1>5, <2>2, SinkAt
  <2>. QED BY <1>3, <1>5, <2>2, <2>5, FrameKeeps
<1>. QED BY <1>2, <1>4, <1>5

(* The child ends. *)
LEMMA StreamExit ==
  ASSUME ProcessInv, StreamInv, NEW t \in Callers, ChildExits(t)
  PROVE  StreamInv'
<1>0. StreamAt(system, t, ex[t], buf[t], wr[t], rd[t]) /\ t # Parent /\ system \in {"posix", "win32"} BY StreamOf
<1>1. /\ \A u \in Callers \ {t} : ex'[u] = ex[u]
      /\ ex'[t].child = "zombie" /\ DataBut(ex'[t], ex[t], {"child"})
  BY FieldsOf, FrameFields DEF ChildExits, DataBut
<1>2. UNCHANGED <<buf, system>> /\ ex[t].child = "runs" BY DEF ChildExits
<1>3. \A u \in Callers, p \in Pipes : wr'[u][p] = wr[u][p] \ {t} /\ rd'[u][p] = rd[u][p] \ {t} BY DEF ChildExits
<1>4. ASSUME NEW u \in Callers \ {t} PROVE OthersEnds(u, wr[u], wr'[u]) /\ OthersEnds(u, rd[u], rd'[u])
  BY <1>0, <1>3 DEF OthersEnds
<1>5. system = "posix" => ex[t].pc \notin {"out", "err", "return", "done"}
  BY <1>2 DEF ProcessInv, WaitedFor
<1>6. \/ /\ \A p \in Outputs : ex[t].left[p] = <<>>
         /\ ex[t].plan.reads => buf[t]["in"] = <<>> /\ wr[t]["in"] = {}
      \/ \E p \in Outputs : ex[t].left[p] # <<>> /\ rd[t][p] = {}
  BY DEF ChildExits, Outputs
<1>7. StreamAt(system, t, ex'[t], buf[t], wr'[t], rd'[t])
  BY <1>0, <1>1, <1>2, <1>3, <1>5, <1>6, ExitAt
<1>. QED BY <1>1, <1>2, <1>4, <1>7, StreamKeeps

(* Signals touch no stream. *)
LEMMA StreamSignal ==
  ASSUME ProcessInv, StreamInv, CatchSignals \/ Sigchld
  PROVE  StreamInv'
<1>1. UNCHANGED <<buf, wr, rd, system>> BY DEF CatchSignals, Sigchld, ends
<1>2. ASSUME NEW u \in Callers PROVE StreamAt(system, u, ex'[u], buf[u], wr[u], rd[u])
  <2>1. StreamAt(system, u, ex[u], buf[u], wr[u], rd[u]) BY StreamOf
  <2>2. CASE ex'[u] = ex[u] BY <2>1, <2>2
  <2>3. CASE ex[u].child = "zombie" /\ ex'[u] = [ex[u] EXCEPT !.child = "reaped"]
    <3>1. DataSame(ex'[u], ex[u]) /\ ex'[u].pc = ex[u].pc /\ ex'[u].child = "reaped"
      BY <2>3, FieldsOf, FrameFields DEF DataSame
    <3>. QED BY <2>1, <2>3, <3>1, ReapAt
  <2>. QED BY <2>2, <2>3 DEF CatchSignals, Sigchld
<1>. QED BY <1>1, <1>2 DEF StreamInv

(* Every step keeps the invariant of the streams. *)
LEMMA StreamStep == ProcessInv /\ StreamInv /\ [ProcessNext]_processVars => StreamInv'
<1>. SUFFICES ASSUME ProcessInv, StreamInv, [ProcessNext]_processVars PROVE StreamInv'
  OBVIOUS
<1>1. ASSUME NEW t \in Callers, Execute(t) \/ PipeFails(t) \/ PosixSpawnFails(t) \/ Win32SpawnFails(t)
      PROVE  StreamInv'
  BY <1>1, StreamStart
<1>2. ASSUME NEW t \in Callers, PosixSpawn(t) \/ Win32Spawn(t) PROVE StreamInv'
  BY <1>2, StreamSpawn
<1>3. ASSUME NEW t \in Callers, ParentCloses(t) PROVE StreamInv'
  BY <1>3, StreamClose
<1>4. ASSUME NEW t \in Callers,
             PosixInputDone(t) \/ Win32InputDone(t) \/ Win32ExitCode(t) \/ Wait(t) \/ Return(t)
      PROVE  StreamInv'
  BY <1>4, StreamGoOn
<1>5. ASSUME NEW t \in Callers, WriteInput(t) PROVE StreamInv'
  BY <1>5, StreamWrite
<1>6. ASSUME NEW t \in Callers, ChildReads(t) \/ \E p \in {"out", "err"} : ChildWrites(t, p) PROVE StreamInv'
  BY <1>6, StreamChild
<1>7. ASSUME NEW t \in Callers, NEW p \in {"out", "err"}, ReadStream(t, p) \/ EndStream(t, p) \/ SinkFails(t, p)
      PROVE  StreamInv'
  BY <1>7, StreamRead
<1>8. ASSUME NEW t \in Callers, ChildExits(t) PROVE StreamInv'
  BY <1>8, StreamExit
<1>9. CASE CatchSignals \/ Sigchld
  BY <1>9, StreamSignal
<1>10. CASE UNCHANGED processVars
  BY <1>10 DEF processVars, StreamInv
<1>. QED
  BY <1>1, <1>2, <1>3, <1>4, <1>5, <1>6, <1>7, <1>8, <1>9, <1>10
  DEF ProcessNext, ParentStep, ChildStep

(* The initial states satisfy it. *)
LEMMA StreamStarts == ProcessInit => StreamInv
<1>. SUFFICES ASSUME ProcessInit PROVE StreamInv
  OBVIOUS
<1>1. system \in {"posix", "win32"} /\ DOMAIN buf = Callers BY ProcessAssumption DEF ProcessInit
<1>2. ASSUME NEW t \in Callers PROVE StreamAt(system, t, ex[t], buf[t], wr[t], rd[t])
  <2>1. PICK f, b : f = ex[t] /\ b = buf[t] OBVIOUS
  <2>2. f = Idle /\ b = [p \in Pipes |-> <<>>] BY <1>2, <2>1 DEF ProcessInit
  <2>3. /\ f.pc = "idle" /\ f.child = "none" /\ f.input = <<>> /\ f.feed = <<>> /\ f.taken = <<>>
        /\ f.plan.out = <<>> /\ f.plan.err = <<>> /\ f.cut = FALSE
        /\ f["left"] = [p \in Outputs |-> <<>>] /\ f["raw"] = [p \in Outputs |-> <<>>]
        /\ f["text"] = [p \in Outputs |-> <<>>]
    BY <2>2 DEF Idle, NoPlan, Outputs
  <2>4. StreamTypes(f, b)
    <3>1. <<>> \in Seq(Symbols) OBVIOUS
    <3>2. b \in [Pipes -> Seq(Symbols)] BY <2>2, <3>1
    <3>3. PICK e : e = [p \in Outputs |-> <<>>] OBVIOUS
    <3>4. e \in [Outputs -> Seq(Symbols)] BY <3>1, <3>3
    <3>5. \A k \in {"left", "raw", "text"} : f[k] \in [Outputs -> Seq(Symbols)] BY <2>3, <3>3, <3>4
    <3>. QED BY <2>2, <2>3, <3>1, <3>2, <3>5, Zenon DEF StreamTypes, Started
  <2>5. OutputKept(f, b)
    <3>1. (<<>> \o <<>>) \o <<>> = <<>> OBVIOUS
    <3>. QED BY <2>2, <2>3, <3>1 DEF OutputKept, All, Outputs, Pipes
  <2>6. InputKept(system, f, b) BY <2>2, <2>3 DEF InputKept, Started, Pipes
  <2>7. EndsHeld(system, t, f, wr[t], rd[t]) BY <2>3 DEF EndsHeld, Started
  <2>8. Drained(system, f, b, wr[t]) BY <2>3 DEF Drained, Started, Past
  <2>. QED BY <2>1, <2>4, <2>5, <2>6, <2>7, <2>8 DEF StreamAt
<1>. QED BY <1>1, <1>2 DEF StreamInv

(* NUL is among the symbols of a sequence or it is not. *)
LEMMA RangeNul == ASSUME NEW X, NEW s \in Seq(X) PROVE "0" \in Range(s) <=> HasNul(s)
<1>1. DOMAIN s = 1 .. Len(s) OBVIOUS
<1>. QED BY <1>1 DEF Range, HasNul

(* What the invariant gives when execute() has returned.                   *)
LEMMA StreamsEnd == StreamInv => StreamsWhole
<1>. SUFFICES ASSUME StreamInv PROVE StreamsWhole
  OBVIOUS
<1>1. OutputWhole
  <2>. SUFFICES ASSUME NEW t \in Callers, ex[t].pc = "done", ex[t].streams, ~ex[t].cut, NEW p \in Outputs
                PROVE  IF system = "posix" /\ "0" \in Range(All(ex[t], p))
                       THEN Len(ex[t].text[p]) < Len(All(ex[t], p)) ELSE ex[t].text[p] = All(ex[t], p)
    BY DEF OutputWhole, At, All, Outputs
  <2>1. StreamAt(system, t, ex[t], buf[t], wr[t], rd[t]) BY StreamOf
  <2>2. /\ buf[t][p] = <<>> /\ ex[t].left[p] = <<>>
        /\ ex[t].text[p] = IF system = "posix" THEN Printed(ex[t].raw[p]) ELSE ex[t].raw[p]
    BY <2>1 DEF StreamAt, Drained, Past
  <2>3. (ex[t].raw[p] \o <<>>) \o <<>> = All(ex[t], p)
    BY <2>1, <2>2 DEF StreamAt, OutputKept
  <2>4. ex[t].raw[p] \in Seq(Symbols) BY <2>1 DEF StreamAt, StreamTypes
  <2>5. PICK s \in Seq(Symbols) : s = ex[t].raw[p] BY <2>4
  <2>6. s = All(ex[t], p)
    <3>1. (s \o <<>>) \o <<>> = s BY ConcatEmptySeq
    <3>. QED BY <2>3, <2>5, <3>1
  <2>7. (~HasNul(s) => Printed(s) = s) /\ (HasNul(s) => Len(Printed(s)) < Len(s)) BY SentWhole DEF Printed
  <2>8. "0" \in Range(s) <=> HasNul(s) BY RangeNul
  <2>9. ex[t].text[p] = IF system = "posix" THEN Printed(s) ELSE s BY <2>2, <2>5
  <2>. QED BY <2>6, <2>7, <2>8, <2>9
<1>2. InputWhole
  <2>. SUFFICES ASSUME NEW t \in Callers, ex[t].child \in {"zombie", "reaped"}, ex[t].plan.reads,
                       \A p \in Outputs : ex[t].left[p] = <<>>, ex[t].pc \notin {"killed", "undefined"},
                       system = "win32" \/ "0" \notin Range(ex[t].input)
                PROVE  ex[t].taken = ex[t].input
    BY DEF InputWhole, At, Outputs
  <2>1. StreamAt(system, t, ex[t], buf[t], wr[t], rd[t]) BY StreamOf
  <2>2. ex[t].taken = Wanted(system, ex[t]) BY <2>1 DEF StreamAt, InputKept
  <2>3. ex[t].input \in Seq(Symbols) BY <2>1 DEF StreamAt, StreamTypes
  <2>4. PICK s \in Seq(Symbols) : s = ex[t].input BY <2>3
  <2>5. ~HasNul(s) => Fed(s) = s BY SentWhole DEF Fed
  <2>6. "0" \in Range(s) <=> HasNul(s) BY RangeNul
  <2>. QED BY <2>2, <2>4, <2>5, <2>6 DEF Wanted
<1>. QED BY <1>1, <1>2 DEF StreamsWhole

(* process::execute, for every text, every size of the pipes and of the     *)
(* buffer and any number of calls at once that inherit each other's ends:   *)
(* the child gets the whole of _in and, when execute() returns with good    *)
(* streams, _out and _err have all the child wrote, in order; on POSIX a    *)
(* NUL, and nothing else, makes something go missing.                       *)
THEOREM StreamsSafe == ProcessSpec => []StreamsWhole
BY ProcessStarts, ProcessStep, StreamStarts, StreamStep, StreamsEnd, PTL DEF ProcessSpec

-----------------------------------------------------------------------------
(* The command line.                                                       *)

(* What is understood of a command line so far.                            *)
Pair(u, v) == <<u, v>>
Pairs == Words \X Words
Read(w, o, f) == [wants |-> w, opts |-> o, files |-> f]
Reading == [wants : Words, opts : Seq(Pairs), files : Seq(Pairs)]

(* A parameter with its value. *)
LEMMA PairType == ASSUME NEW u \in Words, NEW v \in Words PROVE Pair(u, v) \in Pairs
BY DEF Pair, Pairs

(* The fields of a reading. *)
LEMMA ReadFields ==
  ASSUME NEW w, NEW o, NEW f
  PROVE  Read(w, o, f).wants = w /\ Read(w, o, f).opts = o /\ Read(w, o, f).files = f
BY DEF Read

(* A reading of words and pairs is one. *)
LEMMA ReadType ==
  ASSUME NEW w \in Words, NEW o \in Seq(Pairs), NEW f \in Seq(Pairs)
  PROVE  Read(w, o, f) \in Reading
BY DEF Read, Reading

(* And its fields are those. *)
LEMMA ReadingFields ==
  ASSUME NEW x \in Reading
  PROVE  x.wants \in Words /\ x.opts \in Seq(Pairs) /\ x.files \in Seq(Pairs)
BY DEF Reading

(* The fields of an argument are words. *)
LEMMA ArgumentFields ==
  ASSUME NEW c \in Arguments
  PROVE  c.name \in Words /\ c.value \in Words /\ Word(c) \in Words /\ "" \in Words
<1>1. c.name \in Words /\ c.value \in Words BY DEF Arguments
<1>2. Word(c) \in Words BY <1>1, Zenon DEF Word
<1>3. "" \in Words BY CommandLineAssumption
<1>. QED BY <1>1, <1>2, <1>3

Apart(c) == TakesValue(c.name) /\ c.value = ""

(* What one more argument adds, case by case. *)
LEMMA TakenCases ==
  ASSUME NEW x, NEW c
  PROVE  /\ x.wants # "" => Taken(x, c) = Read("", Append(x.opts, Pair(x.wants, Word(c))), x.files)
         /\ x.wants = "" /\ IsOption(c) /\ Apart(c) => Taken(x, c) = Read(c.name, x.opts, x.files)
         /\ x.wants = "" /\ IsOption(c) /\ ~Apart(c) =>
              Taken(x, c) = Read("", Append(x.opts, Pair(c.name, c.value)), x.files)
         /\ x.wants = "" /\ ~IsOption(c) => Taken(x, c) = Read("", x.opts, Append(x.files, Pair("", c.value)))
<1>1. CASE x.wants # "" BY <1>1 DEF Taken, Read, Pair
<1>2. CASE x.wants = "" /\ IsOption(c) /\ Apart(c) BY <1>2 DEF Taken, Read, Apart
<1>3. CASE x.wants = "" /\ IsOption(c) /\ ~Apart(c) BY <1>3 DEF Taken, Read, Pair, Apart
<1>4. CASE x.wants = "" /\ ~IsOption(c) BY <1>4 DEF Taken, Read, Pair
<1>. QED BY <1>1, <1>2, <1>3, <1>4, Zenon

(* Append keeps the set of a sequence. *)
LEMMA AppendType == ASSUME NEW X, NEW s \in Seq(X), NEW e \in X PROVE Append(s, e) \in Seq(X)
OBVIOUS

(* One more argument keeps a reading one. *)
LEMMA TakenType ==
  ASSUME NEW x \in Reading, NEW c \in Arguments
  PROVE  Taken(x, c) \in Reading
<1>1. x.wants \in Words /\ x.opts \in Seq(Pairs) /\ x.files \in Seq(Pairs) BY ReadingFields
<1>2. c.name \in Words /\ c.value \in Words /\ Word(c) \in Words /\ "" \in Words BY ArgumentFields
<1>5. CASE x.wants # ""
  <2>1. Append(x.opts, Pair(x.wants, Word(c))) \in Seq(Pairs) BY <1>1, <1>2, PairType, AppendType, Zenon
  <2>. QED BY <1>1, <1>2, <1>5, <2>1, TakenCases, ReadType, Zenon
<1>6. CASE x.wants = "" /\ IsOption(c) /\ Apart(c)
  BY <1>1, <1>2, <1>6, TakenCases, ReadType, Zenon
<1>7. CASE x.wants = "" /\ IsOption(c) /\ ~Apart(c)
  <2>1. Append(x.opts, Pair(c.name, c.value)) \in Seq(Pairs) BY <1>1, <1>2, PairType, AppendType, Zenon
  <2>. QED BY <1>1, <1>2, <1>7, <2>1, TakenCases, ReadType, Zenon
<1>8. CASE x.wants = "" /\ ~IsOption(c)
  <2>1. Append(x.files, Pair("", c.value)) \in Seq(Pairs) BY <1>1, <1>2, PairType, AppendType, Zenon
  <2>. QED BY <1>1, <1>2, <1>8, <2>1, TakenCases, ReadType, Zenon
<1>. QED BY <1>5, <1>6, <1>7, <1>8

(* The pass of Understood as a function on Nat.                            *)
Reads(g, s) == g[0] = Begun /\ \A n \in 0 .. (Len(s) - 1) : g[n + 1] = Taken(g[n], s[n + 1])

(* The readings of a command line exist. *)
LEMMA ReadsExists ==
  ASSUME NEW s \in Seq(Arguments)
  PROVE  \E g \in [Nat -> Reading] : Reads(g, s)
<1>1. PICK F : F = [n \in Nat |-> [x \in Reading |-> IF n + 1 \in 1 .. Len(s) THEN Taken(x, s[n + 1]) ELSE x]]
  OBVIOUS
<1>2. F \in [Nat -> [Reading -> Reading]]
  <2>1. ASSUME NEW n \in Nat, NEW x \in Reading
        PROVE  (IF n + 1 \in 1 .. Len(s) THEN Taken(x, s[n + 1]) ELSE x) \in Reading
    <3>1. CASE n + 1 \in 1 .. Len(s)
      <4>1. s[n + 1] \in Arguments BY <3>1
      <4>. QED BY <3>1, <4>1, TakenType
    <3>. QED BY <3>1
  <2>. QED BY <1>1, <2>1
<1>3. Begun \in Reading
  <2>1. Begun = Read("", <<>>, <<>>) BY DEF Begun, Read
  <2>2. "" \in Words BY CommandLineAssumption
  <2>3. <<>> \in Seq(Pairs) OBVIOUS
  <2>. QED BY <2>1, <2>2, <2>3, ReadType, Zenon
<1>4. Iterable(Reading, Begun, F) BY <1>2, <1>3, Iteration, Zenon
<1>5. PICK g \in [Nat -> Reading] : g[0] = Begun /\ \A n \in Nat : g[n + 1] = F[n][g[n]]
  BY <1>4, Zenon DEF Iterable
<1>6. ASSUME NEW n \in 0 .. (Len(s) - 1) PROVE g[n + 1] = Taken(g[n], s[n + 1])
  <2>1. n \in Nat /\ n + 1 \in 1 .. Len(s) OBVIOUS
  <2>2. g[n] \in Reading BY <2>1
  <2>3. F[n][g[n]] = Taken(g[n], s[n + 1]) BY <1>1, <2>1, <2>2, Zenon
  <2>. QED BY <1>5, <2>1, <2>3, Zenon
<1>. QED BY <1>5, <1>6, Zenon DEF Reads

(* Understood is the last of them. *)
LEMMA UnderstoodIsRead ==
  ASSUME NEW s \in Seq(Arguments), NEW g \in [Nat -> Reading], Reads(g, s)
  PROVE  Understood(s) = g[Len(s)]
<1>. DEFINE Eq(f) == f = [i \in 0 .. Len(s) |-> IF i = 0 THEN Begun ELSE Taken(f[i - 1], s[i])]
<1>0. Len(s) \in Nat OBVIOUS
<1>1. Understood(s) = (CHOOSE f : Eq(f))[Len(s)] BY Zenon DEF Understood
<1>2. PICK h : h = [i \in 0 .. Len(s) |-> g[i]] OBVIOUS
<1>3. Eq(h)
  <2>1. ASSUME NEW i \in 0 .. Len(s) PROVE g[i] = IF i = 0 THEN Begun ELSE Taken(h[i - 1], s[i])
    <3>1. CASE i = 0 BY <3>1 DEF Reads
    <3>2. CASE i # 0
      <4>1. i - 1 \in 0 .. (Len(s) - 1) /\ i - 1 + 1 = i /\ i - 1 \in 0 .. Len(s) BY <1>0, <3>2
      <4>2. h[i - 1] = g[i - 1] BY <1>2, <4>1, Zenon
      <4>3. g[i - 1 + 1] = Taken(g[i - 1], s[i - 1 + 1]) BY <4>1, Zenon DEF Reads
      <4>. QED BY <3>2, <4>1, <4>2, <4>3, Zenon
    <3>. QED BY <3>1, <3>2
  <2>. QED BY <1>2, <2>1, Zenon
<1>4. PICK f : f = (CHOOSE q : Eq(q)) OBVIOUS
<1>5. Eq(f) BY <1>3, <1>4, Zenon
<1>6. \A i \in 0 .. Len(s) : f[i] = IF i = 0 THEN Begun ELSE Taken(f[i - 1], s[i]) BY <1>5, Zenon
<1>7. \A i \in 0 .. Len(s) : h[i] = IF i = 0 THEN Begun ELSE Taken(h[i - 1], s[i]) BY <1>3, Zenon
<1>8. \A n \in Nat : n \in 0 .. Len(s) => f[n] = h[n]
  <2>. DEFINE Agree == {n \in Nat : n \in 0 .. Len(s) => f[n] = h[n]}
  <2>1. 0 \in Agree
    <3>1. 0 \in 0 .. Len(s) BY <1>0
    <3>2. f[0] = Begun /\ h[0] = Begun BY <1>6, <1>7, <3>1, Zenon
    <3>. QED BY <3>2
  <2>2. ASSUME NEW n \in Nat, n \in Agree PROVE n + 1 \in Agree
    <3>1. ASSUME n + 1 \in 0 .. Len(s) PROVE f[n + 1] = h[n + 1]
      <4>1. n \in 0 .. Len(s) /\ n + 1 # 0 /\ n + 1 - 1 = n BY <1>0, <3>1
      <4>2. f[n] = h[n] BY <2>2, <4>1
      <4>3. PICK j \in 0 .. Len(s) : j = n + 1 BY <3>1
      <4>4. j # 0 /\ j - 1 = n BY <4>1, <4>3
      <4>5. f[j] = Taken(f[j - 1], s[j]) BY <1>6, <4>4, Zenon
      <4>6. h[j] = Taken(h[j - 1], s[j]) BY <1>7, <4>4, Zenon
      <4>. QED BY <4>2, <4>3, <4>4, <4>5, <4>6, Zenon
    <3>. QED BY <3>1
  <2>. HIDE DEF Agree
  <2>3. \A n \in Nat : n \in Agree BY <2>1, <2>2, Induction
  <2>. QED BY <2>3 DEF Agree
<1>9. Len(s) \in 0 .. Len(s) BY <1>0
<1>. QED BY <1>0, <1>1, <1>2, <1>4, <1>8, <1>9, Zenon

(* One reading is ahead of another by some options and files.              *)
Ahead(a, b, x, y) == a.wants = b.wants /\ a.opts = x \o b.opts /\ a.files = y \o b.files

Moves(x, b, e) == Append(x \o b, e) = x \o Append(b, e)
(* Append commutes with what stands ahead. *)
LEMMA AppendAhead ==
  ASSUME NEW X, NEW x \in Seq(X), NEW b \in Seq(X), NEW e \in X
  PROVE  Moves(x, b, e)
BY DEF Moves

(* A reading that differs in what stands ahead. *)
LEMMA ReadAhead ==
  ASSUME NEW w, NEW o, NEW f, NEW x, NEW y
  PROVE  Ahead(Read(w, x \o o, y \o f), Read(w, o, f), x, y)
BY DEF Ahead, Read

(* One more argument leaves it ahead. *)
LEMMA TakenAhead ==
  ASSUME NEW a \in Reading, NEW b \in Reading, NEW x \in Seq(Pairs), NEW y \in Seq(Pairs),
         NEW c \in Arguments, Ahead(a, b, x, y)
  PROVE  Ahead(Taken(a, c), Taken(b, c), x, y)
<1>1. b.wants \in Words /\ b.opts \in Seq(Pairs) /\ b.files \in Seq(Pairs) BY ReadingFields
<1>2. c.name \in Words /\ c.value \in Words /\ Word(c) \in Words /\ "" \in Words BY ArgumentFields
<1>4. a.wants = b.wants /\ a.opts = x \o b.opts /\ a.files = y \o b.files BY DEF Ahead
<1>3. PICK o \in Seq(Pairs), f \in Seq(Pairs) : o = b.opts /\ f = b.files BY <1>1
<1>5. CASE b.wants # ""
  <2>2. PICK e \in Pairs : e = Pair(b.wants, Word(c)) BY <1>1, <1>2, PairType
  <2>a. Moves(x, o, e) BY AppendAhead
  <2>3. Append(x \o o, e) = x \o Append(o, e) BY <2>a DEF Moves
  <2>4. Taken(a, c) = Read("", x \o Append(o, e), y \o f) BY <1>3, <1>4, <2>3, <1>5, <2>2, TakenCases, Zenon
  <2>5. Taken(b, c) = Read("", Append(o, e), f) BY <1>3, <1>5, <2>2, TakenCases, Zenon
  <2>. QED BY <2>4, <2>5, ReadAhead, Zenon
<1>6. CASE b.wants = "" /\ IsOption(c) /\ Apart(c)
  <2>4. Taken(a, c) = Read(c.name, x \o o, y \o f) BY <1>3, <1>4, <1>6, TakenCases, Zenon
  <2>5. Taken(b, c) = Read(c.name, o, f) BY <1>3, <1>6, TakenCases, Zenon
  <2>. QED BY <2>4, <2>5, ReadAhead, Zenon
<1>7. CASE b.wants = "" /\ IsOption(c) /\ ~Apart(c)
  <2>2. PICK e \in Pairs : e = Pair(c.name, c.value) BY <1>1, <1>2, PairType
  <2>a. Moves(x, o, e) BY AppendAhead
  <2>3. Append(x \o o, e) = x \o Append(o, e) BY <2>a DEF Moves
  <2>4. Taken(a, c) = Read("", x \o Append(o, e), y \o f) BY <1>3, <1>4, <2>3, <1>7, <2>2, TakenCases, Zenon
  <2>5. Taken(b, c) = Read("", Append(o, e), f) BY <1>3, <1>7, <2>2, TakenCases, Zenon
  <2>. QED BY <2>4, <2>5, ReadAhead, Zenon
<1>8. CASE b.wants = "" /\ ~IsOption(c)
  <2>2. PICK e \in Pairs : e = Pair("", c.value) BY <1>1, <1>2, PairType
  <2>a. Moves(y, f, e) BY AppendAhead
  <2>3. Append(y \o f, e) = y \o Append(f, e) BY <2>a DEF Moves
  <2>4. Taken(a, c) = Read("", x \o o, y \o Append(f, e)) BY <1>3, <1>4, <2>3, <1>8, <2>2, TakenCases, Zenon
  <2>5. Taken(b, c) = Read("", o, Append(f, e)) BY <1>3, <1>8, <2>2, TakenCases, Zenon
  <2>. QED BY <2>4, <2>5, ReadAhead, Zenon
<1>. QED BY <1>5, <1>6, <1>7, <1>8

(* A command line t that lacks the d arguments of s from k on.             *)
Lacks(s, t, k, d) ==
  /\ k \in 1 .. Len(s) /\ Len(s) = Len(t) + d
  /\ \A i \in 1 .. (k - 1) : t[i] = s[i]
  /\ \A i \in k .. Len(t) : t[i] = s[i + d]

SameAt(g, h, i) == g[i] = h[i]
(* Before the missing arguments two command lines read the same. *)
LEMMA SameBefore ==
  ASSUME NEW s \in Seq(Arguments), NEW t \in Seq(Arguments), NEW k \in Nat, NEW d \in Nat, Lacks(s, t, k, d),
         k + d <= Len(s) + 1,
         NEW g, NEW h, Reads(g, s), Reads(h, t)
  PROVE  SameAt(g, h, k - 1)
<1>. DEFINE Same == {n \in Nat : n <= k - 1 => g[n] = h[n]}
<1>0. Len(s) \in Nat /\ Len(t) \in Nat /\ k >= 1 /\ k - 1 <= Len(t) BY DEF Lacks
<1>1. 0 \in Same BY DEF Reads
<1>2. ASSUME NEW n \in Nat, n \in Same PROVE n + 1 \in Same
  <2>1. ASSUME n + 1 <= k - 1 PROVE g[n + 1] = h[n + 1]
    <3>1. n <= k - 1 /\ n \in 0 .. (Len(s) - 1) /\ n \in 0 .. (Len(t) - 1) /\ n + 1 \in 1 .. (k - 1)
      BY <1>0, <2>1 DEF Lacks
    <3>2. g[n] = h[n] BY <1>2, <3>1
    <3>3. t[n + 1] = s[n + 1] BY <3>1, Zenon DEF Lacks
    <3>4. g[n + 1] = Taken(g[n], s[n + 1]) BY <3>1, Zenon DEF Reads
    <3>5. h[n + 1] = Taken(h[n], t[n + 1]) BY <3>1, Zenon DEF Reads
    <3>. QED BY <3>2, <3>3, <3>4, <3>5, Zenon
  <2>. QED BY <2>1
<1>. HIDE DEF Same
<1>3. \A n \in Nat : n \in Same BY <1>1, <1>2, Induction
<1>4. k - 1 \in Nat /\ k - 1 \in Same /\ k - 1 <= k - 1 BY <1>0, <1>3
<1>. QED BY <1>4 DEF Same, SameAt

(* After them one reading stays ahead of the other. *)
LEMMA AheadAfter ==
  ASSUME NEW s \in Seq(Arguments), NEW t \in Seq(Arguments), NEW k \in Nat, NEW d \in Nat, Lacks(s, t, k, d),
         k + d <= Len(s) + 1,
         NEW g \in [Nat -> Reading], NEW h \in [Nat -> Reading], Reads(g, s), Reads(h, t),
         NEW x \in Seq(Pairs), NEW y \in Seq(Pairs), Ahead(g[k - 1 + d], h[k - 1], x, y)
  PROVE  Ahead(g[Len(s)], h[Len(t)], x, y)
<1>0. Len(s) \in Nat /\ Len(t) \in Nat /\ k >= 1 /\ k - 1 <= Len(t) /\ Len(s) = Len(t) + d BY DEF Lacks
<1>. DEFINE Good == {n \in Nat : k - 1 + n <= Len(t) => Ahead(g[k - 1 + n + d], h[k - 1 + n], x, y)}
<1>1. 0 \in Good
  <2>1. k - 1 + 0 = k - 1 /\ k - 1 + 0 + d = k - 1 + d BY <1>0
  <2>. QED BY <2>1
<1>2. ASSUME NEW n \in Nat, n \in Good PROVE n + 1 \in Good
  <2>1. ASSUME k - 1 + (n + 1) <= Len(t) PROVE Ahead(g[k - 1 + (n + 1) + d], h[k - 1 + (n + 1)], x, y)
    <3>0. k - 1 + n \in Nat /\ k - 1 + n + d \in Nat BY <1>0
    <3>1. PICK i \in Nat, j \in Nat : i = k - 1 + n /\ j = k - 1 + n + d BY <3>0, Zenon
    <3>2. /\ i \in 0 .. (Len(t) - 1) /\ j \in 0 .. (Len(s) - 1) /\ i + 1 \in k .. Len(t) /\ i + 1 + d = j + 1
          /\ k - 1 + (n + 1) = i + 1 /\ k - 1 + (n + 1) + d = j + 1 /\ k - 1 + n <= Len(t)
          /\ j + 1 \in 1 .. Len(s)
      BY <1>0, <2>1, <3>1
    <3>3. Ahead(g[j], h[i], x, y) BY <1>2, <3>1, <3>2
    <3>4. t[i + 1] = s[i + 1 + d] BY <3>2, Zenon DEF Lacks
    <3>5. PICK c \in Arguments : c = s[j + 1] BY <3>2
    <3>6. g[j + 1] = Taken(g[j], c) BY <3>2, <3>5, Zenon DEF Reads
    <3>7. h[i + 1] = Taken(h[i], c) BY <3>2, <3>4, <3>5, Zenon DEF Reads
    <3>8. g[j] \in Reading /\ h[i] \in Reading OBVIOUS
    <3>9. Ahead(Taken(g[j], c), Taken(h[i], c), x, y) BY <3>3, <3>8, TakenAhead, Zenon
    <3>. QED BY <3>2, <3>6, <3>7, <3>9, Zenon
  <2>. QED BY <2>1
<1>. HIDE DEF Good
<1>3. \A n \in Nat : n \in Good BY <1>1, <1>2, Induction
<1>a. Len(t) - (k - 1) \in Nat BY <1>0
<1>4. PICK n \in Nat : n = Len(t) - (k - 1) BY <1>a, Zenon
<1>5. k - 1 + n = Len(t) /\ k - 1 + n + d = Len(s) /\ k - 1 + n <= Len(t) BY <1>0, <1>4
<1>6. n \in Good BY <1>3
<1>. QED BY <1>5, <1>6 DEF Good

(* A sequence without one of its elements. *)
LEMMA WithoutFacts ==
  ASSUME NEW X, NEW s \in Seq(X), NEW k \in 1 .. Len(s)
  PROVE  /\ Without(s, k) \in Seq(X) /\ Len(Without(s, k)) = Len(s) - 1
         /\ \A i \in 1 .. (Len(s) - 1) : Without(s, k)[i] = IF i < k THEN s[i] ELSE s[i + 1]
<1>0. Len(s) \in Nat /\ k \in Nat OBVIOUS
<1>1. PICK a : a = SubSeq(s, 1, k - 1) OBVIOUS
<1>2. PICK b : b = SubSeq(s, k + 1, Len(s)) OBVIOUS
<1>3. a \in Seq(X) /\ Len(a) = k - 1 /\ \A i \in 1 .. (k - 1) : a[i] = s[i]
  BY <1>0, <1>1
<1>4. b \in Seq(X) /\ Len(b) = Len(s) - k /\ \A i \in 1 .. (Len(s) - k) : b[i] = s[k + i]
  BY <1>0, <1>2
<1>5. Without(s, k) = a \o b BY <1>1, <1>2, Zenon DEF Without
<1>6. a \o b \in Seq(X) /\ Len(a \o b) = Len(s) - 1 BY <1>0, <1>3, <1>4
<1>7. ASSUME NEW i \in 1 .. (Len(s) - 1) PROVE (a \o b)[i] = IF i < k THEN s[i] ELSE s[i + 1]
  BY <1>0, <1>3, <1>4
<1>. QED BY <1>5, <1>6, <1>7

(* A command line without one argument. *)
LEMMA LacksOne ==
  ASSUME NEW s \in Seq(Arguments), NEW k \in 1 .. Len(s)
  PROVE  Without(s, k) \in Seq(Arguments) /\ Lacks(s, Without(s, k), k, 1)
<1>1. PICK t : t = Without(s, k) OBVIOUS
<1>2. t \in Seq(Arguments) /\ Len(t) = Len(s) - 1 /\ \A i \in 1 .. (Len(s) - 1) : t[i] = IF i < k THEN s[i] ELSE s[i + 1]
  BY <1>1, WithoutFacts
<1>3. Len(s) \in Nat /\ k \in Nat OBVIOUS
<1>4. Lacks(s, t, k, 1)
  <2>1. \A i \in 1 .. (k - 1) : i \in 1 .. (Len(s) - 1) /\ i < k BY <1>3
  <2>2. \A i \in k .. Len(t) : i \in 1 .. (Len(s) - 1) /\ ~(i < k) BY <1>2, <1>3
  <2>3. Len(s) = Len(t) + 1 BY <1>2, <1>3
  <2>. QED BY <1>2, <2>1, <2>2, <2>3, Zenon DEF Lacks
<1>. QED BY <1>1, <1>2, <1>4

(* A command line without an option and its value. *)
LEMMA LacksTwo ==
  ASSUME NEW s \in Seq(Arguments), NEW k \in 1 .. Len(s), k < Len(s)
  PROVE  /\ Without(Without(s, k + 1), k) \in Seq(Arguments)
         /\ Lacks(s, Without(Without(s, k + 1), k), k, 2)
<1>0. Len(s) \in Nat /\ k \in Nat /\ k + 1 \in 1 .. Len(s) OBVIOUS
<1>1. PICK t : t = Without(s, k + 1) OBVIOUS
<1>2. /\ t \in Seq(Arguments) /\ Len(t) = Len(s) - 1
      /\ \A i \in 1 .. (Len(s) - 1) : t[i] = IF i < k + 1 THEN s[i] ELSE s[i + 1]
  BY <1>0, <1>1, WithoutFacts
<1>3. k \in 1 .. Len(t) BY <1>0, <1>2
<1>4. PICK u : u = Without(t, k) OBVIOUS
<1>5. /\ u \in Seq(Arguments) /\ Len(u) = Len(t) - 1
      /\ \A i \in 1 .. (Len(t) - 1) : u[i] = IF i < k THEN t[i] ELSE t[i + 1]
  BY <1>2, <1>3, <1>4, WithoutFacts
<1>6. Lacks(s, u, k, 2)
  <2>1. ASSUME NEW i \in 1 .. (k - 1) PROVE u[i] = s[i]
    <3>1. i \in 1 .. (Len(t) - 1) /\ i < k /\ i \in 1 .. (Len(s) - 1) /\ i < k + 1 BY <1>0, <1>2
    <3>. QED BY <1>2, <1>5, <3>1, Zenon
  <2>2. ASSUME NEW i \in k .. Len(u) PROVE u[i] = s[i + 2]
    <3>1. /\ i \in 1 .. (Len(t) - 1) /\ ~(i < k) /\ i + 1 \in 1 .. (Len(s) - 1) /\ ~(i + 1 < k + 1) /\ i + 1 + 1 = i + 2
      BY <1>0, <1>2, <1>5
    <3>. QED BY <1>2, <1>5, <3>1, Zenon
  <2>3. Len(s) = Len(u) + 2 BY <1>0, <1>2, <1>5
  <2>. QED BY <2>1, <2>2, <2>3, Zenon DEF Lacks
<1>. QED BY <1>1, <1>4, <1>5, <1>6

(* A command line without its first argument. *)
LEMMA LacksFirst ==
  ASSUME NEW s \in Seq(Arguments), s # <<>>
  PROVE  Tail(s) \in Seq(Arguments) /\ Lacks(s, Tail(s), 1, 1)
<1>1. PICK t : t = Tail(s) OBVIOUS
<1>2. t \in Seq(Arguments) /\ Len(t) = Len(s) - 1 /\ Len(s) \in Nat /\ Len(s) >= 1 /\ \A i \in 1 .. Len(t) : t[i] = s[i + 1]
  BY <1>1
<1>3. Lacks(s, t, 1, 1) BY <1>2 DEF Lacks
<1>. QED BY <1>1, <1>2, <1>3

(* Before the first option there are only files.                           *)
Blank(x) == x.wants = "" /\ x.opts = <<>>
(* A command line that has begun with file names only has no options yet. *)
LEMMA OnlyFiles ==
  ASSUME NEW s \in Seq(Arguments), NEW g \in [Nat -> Reading], Reads(g, s), NEW k \in Nat, k <= Len(s),
         \A i \in 1 .. k : ~IsOption(s[i])
  PROVE  Blank(g[k])
<1>0. Len(s) \in Nat OBVIOUS
<1>. DEFINE Good == {n \in Nat : n <= k => Blank(g[n])}
<1>1. 0 \in Good
  <2>1. g[0] = Begun BY DEF Reads
  <2>2. Blank(Begun) BY DEF Blank, Begun
  <2>. QED BY <2>1, <2>2
<1>2. ASSUME NEW n \in Nat, n \in Good PROVE n + 1 \in Good
  <2>1. ASSUME n + 1 <= k PROVE Blank(g[n + 1])
    <3>1. n <= k /\ n \in 0 .. (Len(s) - 1) /\ n + 1 \in 1 .. k BY <1>0, <2>1
    <3>2. Blank(g[n]) BY <1>2, <3>1
    <3>3. g[n + 1] = Taken(g[n], s[n + 1]) BY <3>1, Zenon DEF Reads
    <3>4. ~IsOption(s[n + 1]) BY <3>1
    <3>5. PICK x, y : x = g[n] /\ y = g[n + 1] OBVIOUS
    <3>6. PICK c : c = s[n + 1] OBVIOUS
    <3>7. x.wants = "" /\ x.opts = <<>> BY <3>2, <3>5 DEF Blank
    <3>8. y = Read("", x.opts, Append(x.files, Pair("", c.value)))
      BY <3>3, <3>4, <3>5, <3>6, <3>7, TakenCases, Zenon
    <3>9. Blank(y) BY <3>7, <3>8 DEF Read, Blank
    <3>. QED BY <3>5, <3>9
  <2>. QED BY <2>1
<1>. HIDE DEF Good
<1>3. \A n \in Nat : n \in Good BY <1>1, <1>2, Induction
<1>4. k \in Good BY <1>3
<1>. QED BY <1>4 DEF Good

(* What is understood of s is e and then what is understood of t.          *)
Sooner(s, t, e) == InOrder(Understood(s)) = <<e>> \o InOrder(Understood(t))

(* What stands ahead is handed over first. *)
LEMMA AheadSooner ==
  ASSUME NEW a \in Reading, NEW b \in Reading, NEW e \in Pairs,
         Ahead(a, b, <<e>>, <<>>) \/ (Ahead(a, b, <<>>, <<e>>) /\ b.opts = <<>>)
  PROVE  InOrder(a) = <<e>> \o InOrder(b)
<1>0. b.opts \in Seq(Pairs) /\ b.files \in Seq(Pairs) BY ReadingFields
<1>1. PICK o \in Seq(Pairs), f \in Seq(Pairs) : o = b.opts /\ f = b.files BY <1>0
<1>2. InOrder(b) = o \o f BY <1>1 DEF InOrder
<1>3. CASE Ahead(a, b, <<e>>, <<>>)
  <2>1. InOrder(a) = (<<e>> \o o) \o (<<>> \o f) BY <1>1, <1>3 DEF InOrder, Ahead
  <2>2. (<<e>> \o o) \o (<<>> \o f) = <<e>> \o (o \o f) OBVIOUS
  <2>. QED BY <1>2, <2>1, <2>2
<1>4. CASE Ahead(a, b, <<>>, <<e>>) /\ b.opts = <<>>
  <2>1. InOrder(a) = (<<>> \o <<>>) \o (<<e>> \o f) /\ o = <<>> BY <1>1, <1>4 DEF InOrder, Ahead
  <2>2. (<<>> \o <<>>) \o (<<e>> \o f) = <<e>> \o (<<>> \o f) OBVIOUS
  <2>. QED BY <1>2, <2>1, <2>2
<1>. QED BY <1>3, <1>4

(* When the arguments that t lacks gave e.                                 *)
Gave(a, b, e) == Ahead(a, b, <<e>>, <<>>) \/ Ahead(a, b, <<>>, <<e>>)
(* The argument that is taken out is the first of those understood. *)
LEMMA LackingSooner ==
  ASSUME NEW s \in Seq(Arguments), NEW t \in Seq(Arguments), NEW k \in Nat, NEW d \in Nat, Lacks(s, t, k, d),
         k + d <= Len(s) + 1,
         NEW g \in [Nat -> Reading], NEW h \in [Nat -> Reading], Reads(g, s), Reads(h, t),
         NEW e \in Pairs, Gave(g[k - 1 + d], h[k - 1], e),
         Ahead(g[k - 1 + d], h[k - 1], <<>>, <<e>>) => h[Len(t)].opts = <<>>
  PROVE  Sooner(s, t, e)
<1>0. Len(s) \in Nat /\ Len(t) \in Nat OBVIOUS
<1>1. <<e>> \in Seq(Pairs) /\ <<>> \in Seq(Pairs) OBVIOUS
<1>2. \/ Ahead(g[Len(s)], h[Len(t)], <<e>>, <<>>)
      \/ Ahead(g[Len(s)], h[Len(t)], <<>>, <<e>>) /\ h[Len(t)].opts = <<>>
  <2>1. CASE Ahead(g[k - 1 + d], h[k - 1], <<e>>, <<>>)
    <3>1. Ahead(g[Len(s)], h[Len(t)], <<e>>, <<>>) BY <1>1, <2>1, AheadAfter
    <3>. QED BY <3>1
  <2>2. CASE Ahead(g[k - 1 + d], h[k - 1], <<>>, <<e>>)
    <3>1. Ahead(g[Len(s)], h[Len(t)], <<>>, <<e>>) BY <1>1, <2>2, AheadAfter
    <3>. QED BY <2>2, <3>1
  <2>. QED BY <2>1, <2>2 DEF Gave
<1>3. g[Len(s)] \in Reading /\ h[Len(t)] \in Reading BY <1>0
<1>4. InOrder(g[Len(s)]) = <<e>> \o InOrder(h[Len(t)]) BY <1>2, <1>3, AheadSooner
<1>5. Understood(s) = g[Len(s)] /\ Understood(t) = h[Len(t)] BY UnderstoodIsRead
<1>. QED BY <1>4, <1>5, Zenon DEF Sooner

(* One parameter that is added stands ahead. *)
LEMMA AddedAhead ==
  ASSUME NEW f \in Seq(Pairs), NEW e \in Pairs, NEW b, Blank(b), b.files = f
  PROVE  /\ Ahead(Read("", Append(<<>>, e), f), b, <<e>>, <<>>)
         /\ f = <<>> => Ahead(Read("", <<>>, Append(<<>>, e)), b, <<>>, <<e>>)
<1>1. Append(<<>>, e) = <<e>> \o <<>> /\ <<>> \o f = f /\ <<>> \o <<>> = <<>> OBVIOUS
<1>2. PICK o : o = Append(<<>>, e) OBVIOUS
<1>3. PICK z : z = Read("", o, f) OBVIOUS
<1>4. z.wants = "" /\ z.opts = o /\ z.files = f BY <1>3 DEF Read
<1>5. PICK y : y = Read("", <<>>, o) OBVIOUS
<1>6. y.wants = "" /\ y.opts = <<>> /\ y.files = o BY <1>5 DEF Read
<1>7. b.wants = "" /\ b.opts = <<>> BY DEF Blank
<1>8. Ahead(z, b, <<e>>, <<>>) BY <1>1, <1>2, <1>4, <1>7, Zenon DEF Ahead
<1>9. f = <<>> => Ahead(y, b, <<>>, <<e>>) BY <1>1, <1>2, <1>6, <1>7, Zenon DEF Ahead
<1>. QED BY <1>2, <1>3, <1>5, <1>8, <1>9, Zenon

(* An option by itself.                                                    *)
LEMMA OptionSooner ==
  ASSUME NEW s \in Seq(Arguments), NEW k \in 1 .. Len(s), IsOption(s[k]), ~Apart(s[k]),
         \A i \in 1 .. (k - 1) : ~IsOption(s[i])
  PROVE  Sooner(s, Without(s, k), Pair(s[k].name, s[k].value))
<1>0. /\ Len(s) \in Nat /\ k \in Nat /\ k - 1 \in Nat /\ k - 1 <= Len(s) /\ k - 1 \in 0 .. (Len(s) - 1)
      /\ k - 1 + 1 = k /\ 1 \in Nat /\ k + 1 <= Len(s) + 1
  OBVIOUS
<1>1. PICK t \in Seq(Arguments) : t = Without(s, k) /\ Lacks(s, t, k, 1) BY LacksOne
<1>2. PICK g \in [Nat -> Reading] : Reads(g, s) BY ReadsExists
<1>3. PICK h \in [Nat -> Reading] : Reads(h, t) BY ReadsExists
<1>4. SameAt(g, h, k - 1) BY <1>0, <1>1, <1>2, <1>3, SameBefore
<1>5. PICK b \in Reading : b = h[k - 1] BY <1>0
<1>6. Blank(b) /\ g[k - 1] = b
  <2>1. Blank(g[k - 1]) BY <1>0, <1>2, OnlyFiles
  <2>. QED BY <1>4, <1>5, <2>1, Zenon DEF SameAt
<1>7. PICK c \in Arguments : c = s[k] OBVIOUS
<1>8. PICK e \in Pairs : e = Pair(c.name, c.value) BY ArgumentFields, PairType
<1>9. g[k - 1 + 1] = Taken(g[k - 1], s[k - 1 + 1]) BY <1>0, <1>2, Zenon DEF Reads
<1>10. Taken(b, c) = Read("", Append(<<>>, e), b.files) BY <1>6, <1>7, <1>8, TakenCases, Zenon DEF Blank
<1>11. b.files \in Seq(Pairs) BY ReadingFields
<1>12. Ahead(Taken(b, c), b, <<e>>, <<>>) BY <1>6, <1>10, <1>11, AddedAhead, Zenon
<1>13. Ahead(g[k - 1 + 1], h[k - 1], <<e>>, <<>>) BY <1>0, <1>5, <1>6, <1>7, <1>9, <1>12, Zenon
<1>14. Blank(b) /\ ~Ahead(Taken(b, c), b, <<>>, <<e>>)
  <2>1. PICK o : o = Append(<<>>, e) OBVIOUS
  <2>2. PICK z : z = Read("", o, b.files) OBVIOUS
  <2>3. z.opts = o BY <2>2 DEF Read
  <2>4. o # <<>> /\ <<>> \o <<>> = <<>> BY <2>1
  <2>. QED BY <1>6, <1>10, <2>1, <2>2, <2>3, <2>4, Zenon DEF Ahead, Blank
<1>15. ~Ahead(g[k - 1 + 1], h[k - 1], <<>>, <<e>>) BY <1>0, <1>5, <1>6, <1>7, <1>9, <1>14, Zenon
<1>16. Sooner(s, t, e) BY <1>0, <1>1, <1>2, <1>3, <1>13, <1>15, LackingSooner DEF Gave
<1>. QED BY <1>1, <1>7, <1>8, <1>16, Zenon

(* An option and the argument after it.                                    *)
LEMMA ValueSooner ==
  ASSUME NEW s \in Seq(Arguments), NEW k \in 1 .. Len(s), k < Len(s), IsOption(s[k]), Apart(s[k]),
         \A i \in 1 .. (k - 1) : ~IsOption(s[i])
  PROVE  Sooner(s, Without(Without(s, k + 1), k), Pair(s[k].name, Word(s[k + 1])))
<1>0. /\ Len(s) \in Nat /\ k \in Nat /\ k - 1 \in Nat /\ k - 1 <= Len(s) /\ k - 1 \in 0 .. (Len(s) - 1)
      /\ k - 1 + 1 = k /\ 2 \in Nat /\ k + 2 <= Len(s) + 1 /\ k \in 0 .. (Len(s) - 1) /\ k + 1 \in 1 .. Len(s)
      /\ k - 1 + 2 = k + 1
  OBVIOUS
<1>1. PICK t \in Seq(Arguments) : t = Without(Without(s, k + 1), k) /\ Lacks(s, t, k, 2) BY LacksTwo
<1>2. PICK g \in [Nat -> Reading] : Reads(g, s) BY ReadsExists
<1>3. PICK h \in [Nat -> Reading] : Reads(h, t) BY ReadsExists
<1>4. SameAt(g, h, k - 1) BY <1>0, <1>1, <1>2, <1>3, SameBefore
<1>5. PICK b \in Reading : b = h[k - 1] BY <1>0
<1>6. Blank(b) /\ g[k - 1] = b
  <2>1. Blank(g[k - 1]) BY <1>0, <1>2, OnlyFiles
  <2>. QED BY <1>4, <1>5, <2>1, Zenon DEF SameAt
<1>7. PICK c \in Arguments : c = s[k] OBVIOUS
<1>a. PICK v \in Arguments : v = s[k + 1] BY <1>0
<1>8. PICK e \in Pairs : e = Pair(c.name, Word(v)) BY ArgumentFields, PairType
<1>9. /\ g[k - 1 + 1] = Taken(g[k - 1], s[k - 1 + 1]) /\ g[k + 1] = Taken(g[k], s[k + 1])
  BY <1>0, <1>2, Zenon DEF Reads
<1>b. PICK m : m = Taken(b, c) OBVIOUS
<1>c. m = Read(c.name, <<>>, b.files) BY <1>6, <1>7, <1>b, TakenCases, Zenon DEF Blank
<1>d. m.wants = c.name /\ m.opts = <<>> /\ m.files = b.files /\ c.name # ""
  <2>1. PICK f, w : f = b.files /\ w = c.name OBVIOUS
  <2>2. m = Read(w, <<>>, f) BY <1>c, <2>1, Zenon
  <2>3. m.wants = w /\ m.opts = <<>> /\ m.files = f BY <2>2 DEF Read
  <2>4. c.name # "" BY <1>7 DEF IsOption
  <2>. QED BY <2>1, <2>3, <2>4, Zenon
<1>10. Taken(m, v) = Read("", Append(<<>>, e), b.files) BY <1>8, <1>d, TakenCases, Zenon
<1>e. g[k + 1] = Taken(m, v) BY <1>0, <1>6, <1>7, <1>9, <1>a, <1>b, Zenon
<1>11. b.files \in Seq(Pairs) BY ReadingFields
<1>12. Ahead(Taken(m, v), b, <<e>>, <<>>) BY <1>6, <1>10, <1>11, AddedAhead, Zenon
<1>13. Ahead(g[k - 1 + 2], h[k - 1], <<e>>, <<>>) BY <1>0, <1>5, <1>12, <1>e, Zenon
<1>14. ~Ahead(Taken(m, v), b, <<>>, <<e>>)
  <2>1. PICK o : o = Append(<<>>, e) OBVIOUS
  <2>2. PICK z : z = Read("", o, b.files) OBVIOUS
  <2>3. z.opts = o BY <2>2 DEF Read
  <2>4. o # <<>> /\ <<>> \o <<>> = <<>> BY <2>1
  <2>. QED BY <1>6, <1>10, <2>1, <2>2, <2>3, <2>4, Zenon DEF Ahead, Blank
<1>15. ~Ahead(g[k - 1 + 2], h[k - 1], <<>>, <<e>>) BY <1>0, <1>5, <1>14, <1>e, Zenon
<1>16. Sooner(s, t, e) BY <1>0, <1>1, <1>2, <1>3, <1>13, <1>15, LackingSooner DEF Gave
<1>. QED BY <1>1, <1>7, <1>8, <1>16, <1>a, Zenon

(* A file, when no options are left.                                       *)
LEMMA FileSooner ==
  ASSUME NEW s \in Seq(Arguments), s # <<>>, \A k \in DOMAIN s : ~IsOption(s[k])
  PROVE  Sooner(s, Tail(s), Pair("", Head(s).value))
<1>1. PICK t \in Seq(Arguments) : t = Tail(s) /\ Lacks(s, t, 1, 1) BY LacksFirst
<1>0. /\ Len(s) \in Nat /\ 1 \in Nat /\ 1 - 1 = 0 /\ 1 - 1 + 1 = 1 /\ 0 + 1 = 1 /\ 1 + 1 <= Len(s) + 1 /\ 0 \in 0 .. (Len(s) - 1)
      /\ Len(t) \in Nat /\ Len(t) <= Len(t) /\ 1 \in DOMAIN s /\ Head(s) = s[1] /\ 0 \in Nat
      /\ \A i \in 1 .. Len(t) : t[i] = s[i + 1] /\ i + 1 \in DOMAIN s
  BY <1>1
<1>2. PICK g \in [Nat -> Reading] : Reads(g, s) BY ReadsExists
<1>3. PICK h \in [Nat -> Reading] : Reads(h, t) BY ReadsExists
<1>4. g[0] = Begun /\ h[0] = Begun BY <1>2, <1>3 DEF Reads
<1>5. PICK b : b = Begun OBVIOUS
<1>6. Blank(b) /\ b.wants = "" /\ b.opts = <<>> /\ b.files = <<>> BY <1>5 DEF Blank, Begun
<1>7. PICK c \in Arguments : c = s[1] BY <1>0
<1>8. PICK e \in Pairs : e = Pair("", c.value) BY ArgumentFields, PairType
<1>9. g[0 + 1] = Taken(g[0], s[0 + 1]) BY <1>0, <1>2, Zenon DEF Reads
<1>a. ~IsOption(c) BY <1>0, <1>7
<1>10. Taken(b, c) = Read("", <<>>, Append(<<>>, e)) BY <1>6, <1>8, <1>a, TakenCases, Zenon
<1>11. <<>> \in Seq(Pairs) OBVIOUS
<1>12. Ahead(Taken(b, c), b, <<>>, <<e>>) BY <1>6, <1>10, <1>11, AddedAhead, Zenon
<1>13. Ahead(g[1 - 1 + 1], h[1 - 1], <<>>, <<e>>) BY <1>0, <1>4, <1>5, <1>7, <1>9, <1>12, Zenon
<1>14. h[Len(t)].opts = <<>>
  <2>1. \A i \in 1 .. Len(t) : ~IsOption(t[i]) BY <1>0
  <2>2. Blank(h[Len(t)]) BY <1>0, <1>3, <2>1, OnlyFiles
  <2>. QED BY <2>2 DEF Blank
<1>15. Gave(g[1 - 1 + 1], h[1 - 1], e) BY <1>13, Zenon DEF Gave
<1>16. Sooner(s, t, e) BY <1>0, <1>1, <1>2, <1>3, <1>14, <1>15, LackingSooner
<1>. QED BY <1>0, <1>1, <1>7, <1>8, <1>16, Zenon

(* An empty command line holds nothing. *)
LEMMA NothingUnderstood == ASSUME NEW s \in Seq(Arguments), s = <<>> PROVE InOrder(Understood(s)) = <<>>
<1>1. Len(s) = 0 OBVIOUS
<1>2. PICK g \in [Nat -> Reading] : Reads(g, s) BY ReadsExists
<1>3. Understood(s) = g[Len(s)] BY <1>2, UnderstoodIsRead
<1>a. g[0] = Begun BY <1>2, Zenon DEF Reads
<1>4. Understood(s) = Begun BY <1>1, <1>3, <1>a, Zenon
<1>5. PICK b : b = Begun OBVIOUS
<1>6. b.opts = <<>> /\ b.files = <<>> BY <1>5 DEF Begun
<1>7. <<>> \o <<>> = <<>> OBVIOUS
<1>. QED BY <1>4, <1>5, <1>6, <1>7, Zenon DEF InOrder

(* Append before a concatenation. *)
LEMMA AppendConcat ==
  ASSUME NEW X, NEW s \in Seq(X), NEW e \in X, NEW w \in Seq(X)
  PROVE  Append(s, e) \o w = s \o (<<e>> \o w)
OBVIOUS

(* What is understood is a sequence of pairs. *)
LEMMA InOrderType == ASSUME NEW s \in Seq(Arguments) PROVE InOrder(Understood(s)) \in Seq(Pairs)
<1>1. Len(s) \in Nat OBVIOUS
<1>2. PICK g \in [Nat -> Reading] : Reads(g, s) BY ReadsExists
<1>3. Understood(s) = g[Len(s)] BY <1>2, UnderstoodIsRead
<1>4. PICK x \in Reading : x = Understood(s) BY <1>1, <1>3
<1>5. x.opts \in Seq(Pairs) /\ x.files \in Seq(Pairs) BY ReadingFields
<1>6. x.opts \o x.files \in Seq(Pairs) BY <1>5
<1>. QED BY <1>4, <1>6, Zenon DEF InOrder

(* What a handler is given comes next in what is understood.               *)
LEMMA DeliverKeeps ==
  ASSUME CommandLineInv, phase = "init", NEW n \in Words, NEW v \in Words, NEW left \in Seq(Arguments),
         Deliver(n, v, left),
         Short(given) => Short(left) /\ Sooner(argv, left, Pair(n, v))
  PROVE  CommandLineInv'
<1>1. /\ argv \in Seq(Arguments) /\ given \in Seq(Arguments) /\ got \in Seq(Pairs)
      /\ \A k \in DOMAIN got : GoesOn(got[k][1])
      /\ Short(given) => got \o InOrder(Understood(argv)) = Served
  BY DEF CommandLineInv, Parsed, Pairs, ServiceOptions
<1>2. /\ got' = Append(got, Pair(n, v)) /\ argv' = left /\ given' = given
      /\ phase' = IF n \in ServiceOptions THEN n ELSE IF GoesOn(n) THEN "init" ELSE "exit"
  BY Zenon DEF Deliver, Rest, Pair
<1>3. PICK e \in Pairs : e = Pair(n, v) BY PairType
<1>4. got' \in Seq(Pairs) BY <1>1, <1>2, <1>3, AppendType
<1>5. Served' = Served BY <1>2 DEF Served
<1>6. phase' \in {"init", "exit"} \cup ServiceOptions /\ (phase' = "init" => GoesOn(n))
  BY <1>2 DEF ServiceOptions
<1>7. phase' = "init" => \A k \in DOMAIN got' : GoesOn(got'[k][1])
  <2>1. SUFFICES ASSUME GoesOn(n), NEW k \in DOMAIN got' PROVE GoesOn(got'[k][1]) BY <1>6
  <2>2. DOMAIN got' = 1 .. (Len(got) + 1) /\ Len(got) \in Nat BY <1>1, <1>2, <1>3
  <2>3. CASE k \in DOMAIN got
    <3>1. got'[k] = got[k] BY <1>1, <1>2, <1>3, <2>3
    <3>. QED BY <1>1, <2>3, <3>1, Zenon
  <2>4. CASE k = Len(got) + 1
    <3>1. got'[k] = e BY <1>1, <1>2, <1>3, <2>4
    <3>2. e[1] = n BY <1>3 DEF Pair
    <3>. QED BY <2>1, <3>1, <3>2, Zenon
  <2>. QED BY <1>1, <2>2, <2>3, <2>4
<1>8. Short(given) => Append(got, e) \o InOrder(Understood(left)) = Served
  <2>1. SUFFICES ASSUME Short(given) PROVE Append(got, e) \o InOrder(Understood(left)) = Served OBVIOUS
  <2>2. PICK w \in Seq(Pairs) : w = InOrder(Understood(left)) BY InOrderType
  <2>3. InOrder(Understood(argv)) = <<e>> \o w BY <1>3, <2>1, <2>2, Zenon DEF Sooner
  <2>4. Append(got, e) \o w = got \o (<<e>> \o w) BY <1>1, AppendConcat
  <2>. QED BY <1>1, <2>1, <2>2, <2>3, <2>4, Zenon
<1>9. Parsed' BY <1>2, <1>3, <1>5, <1>6, <1>8, Zenon DEF Parsed
<1>. QED BY <1>1, <1>2, <1>4, <1>6, <1>7, <1>9 DEF CommandLineInv, Pairs

(* A part of a command line without long options has none. *)
LEMMA ShortLeft ==
  ASSUME NEW s \in Seq(Arguments), NEW t \in Seq(Arguments), NEW k \in Nat, NEW d \in Nat, Lacks(s, t, k, d), Short(s)
  PROVE  Short(t)
<1>1. Len(s) \in Nat /\ Len(t) \in Nat /\ DOMAIN t = 1 .. Len(t) /\ DOMAIN s = 1 .. Len(s) OBVIOUS
<1>2. ASSUME NEW i \in DOMAIN t PROVE ~t[i].long
  <2>1. CASE i < k
    <3>1. i \in 1 .. (k - 1) /\ i \in DOMAIN s BY <1>1, <2>1 DEF Lacks
    <3>2. t[i] = s[i] BY <3>1, Zenon DEF Lacks
    <3>. QED BY <3>1, <3>2, Zenon DEF Short
  <2>2. CASE ~(i < k)
    <3>1. i \in k .. Len(t) /\ i + d \in DOMAIN s BY <1>1, <2>2 DEF Lacks
    <3>2. t[i] = s[i + d] BY <3>1, Zenon DEF Lacks
    <3>. QED BY <3>1, <3>2, Zenon DEF Short
  <2>. QED BY <2>1, <2>2
<1>. QED BY <1>2, Zenon DEF Short

(* The steps after the command line, and those that end the program. *)
LEMMA ErrorKeeps ==
  ASSUME CommandLineInv, UNCHANGED <<argv, given, got>>,
         \/ phase' \in {"exit", "killed"}
         \/ /\ phase' \notin {"init"} \cup ServiceOptions
            /\ phase \notin {"init", "exit", "killed"} \cup ServiceOptions
  PROVE  CommandLineInv'
<1>1. Served' = Served /\ (Short(given) => Short(argv)) BY DEF Served, CommandLineInv, Parsed
<1>2. Short(given) /\ phase \notin {"init", "exit", "killed"} \cup ServiceOptions => got = Served
  BY DEF CommandLineInv, Parsed
<1>3. Parsed' BY <1>1, <1>2 DEF Parsed
<1>. QED BY <1>3 DEF CommandLineInv, ServiceOptions

(* The types that the steps below need. *)
LEMMA LineTypes ==
  ASSUME CommandLineInv
  PROVE  /\ argv \in Seq(Arguments) /\ given \in Seq(Arguments) /\ (Short(given) => Short(argv))
BY DEF CommandLineInv, Parsed

(* getopt_long() returns an option. *)
LEMMA OptionKeeps == CommandLineInv /\ ParseOption => CommandLineInv'
<1>. SUFFICES ASSUME CommandLineInv, ParseOption PROVE CommandLineInv' OBVIOUS
<1>a. phase = "init" BY Zenon DEF ParseOption
<1>b. argv \in Seq(Arguments) BY LineTypes
<1>0. phase = "init" /\ argv \in Seq(Arguments) /\ DOMAIN argv = 1 .. Len(argv) /\ Len(argv) \in Nat
  BY <1>a, <1>b
<1>1. PICK k \in 1 .. Len(argv) :
        /\ IsOption(argv[k]) /\ \A j \in 1 .. (k - 1) : ~IsOption(argv[j])
        /\ \E wants \in {TakesValue(argv[k].name)} \cup (IF argv[k].long THEN {TRUE} ELSE {}) :
             \/ SyntaxError
             \/ /\ wants /\ argv[k].value = "" /\ k < Len(argv)
                /\ Deliver(argv[k].name, Word(argv[k + 1]), Without(Without(argv, k + 1), k))
             \/ ~(wants /\ argv[k].value = "") /\ Deliver(argv[k].name, argv[k].value, Without(argv, k))
  BY <1>0, Zenon DEF ParseOption
<1>2. PICK wants \in {TakesValue(argv[k].name)} \cup (IF argv[k].long THEN {TRUE} ELSE {}) :
             \/ SyntaxError
             \/ /\ wants /\ argv[k].value = "" /\ k < Len(argv)
                /\ Deliver(argv[k].name, Word(argv[k + 1]), Without(Without(argv, k + 1), k))
             \/ ~(wants /\ argv[k].value = "") /\ Deliver(argv[k].name, argv[k].value, Without(argv, k))
  BY <1>1, Zenon
<1>3. Short(given) => Short(argv) /\ wants = TakesValue(argv[k].name)
  BY <1>0, <1>2, LineTypes DEF Short
<1>4. argv[k] \in Arguments BY <1>0
<1>5. argv[k].name \in Words /\ argv[k].value \in Words BY <1>4, ArgumentFields
<1>6. CASE SyntaxError
  <2>1. phase' = "exit" /\ UNCHANGED <<argv, given, got>> BY <1>6 DEF SyntaxError, Rest
  <2>. QED BY <2>1, ErrorKeeps
<1>7. CASE /\ wants /\ argv[k].value = "" /\ k < Len(argv)
           /\ Deliver(argv[k].name, Word(argv[k + 1]), Without(Without(argv, k + 1), k))
  <2>1. PICK left \in Seq(Arguments) : left = Without(Without(argv, k + 1), k) /\ Lacks(argv, left, k, 2)
    BY <1>0, <1>7, LacksTwo
  <2>b. k < Len(argv) BY <1>7
  <2>2. argv[k + 1] \in Arguments BY <1>0, <2>b
  <2>a. Word(argv[k + 1]) \in Words BY <2>2, ArgumentFields
  <2>3. PICK n \in Words, v \in Words : n = argv[k].name /\ v = Word(argv[k + 1]) BY <1>5, <2>a, Zenon
  <2>4. ASSUME Short(given) PROVE Short(left) /\ Sooner(argv, left, Pair(n, v))
    <3>1. Apart(argv[k]) BY <1>3, <1>7, <2>4 DEF Apart
    <3>2. Sooner(argv, Without(Without(argv, k + 1), k), Pair(argv[k].name, Word(argv[k + 1])))
      BY <1>0, <1>1, <1>7, <3>1, ValueSooner
    <3>3. k \in Nat /\ 2 \in Nat OBVIOUS
    <3>4. Short(left) BY <1>0, <1>3, <2>1, <2>4, <3>3, ShortLeft
    <3>. QED BY <2>1, <2>3, <3>2, <3>4, Zenon
  <2>5. Deliver(n, v, left) BY <1>7, <2>1, <2>3, Zenon
  <2>. QED BY <1>0, <2>4, <2>5, DeliverKeeps
<1>8. CASE ~(wants /\ argv[k].value = "") /\ Deliver(argv[k].name, argv[k].value, Without(argv, k))
  <2>1. PICK left \in Seq(Arguments) : left = Without(argv, k) /\ Lacks(argv, left, k, 1)
    BY <1>0, LacksOne
  <2>3. PICK n \in Words, v \in Words : n = argv[k].name /\ v = argv[k].value BY <1>5
  <2>4. ASSUME Short(given) PROVE Short(left) /\ Sooner(argv, left, Pair(n, v))
    <3>1. ~Apart(argv[k]) BY <1>3, <1>8, <2>4 DEF Apart
    <3>2. Sooner(argv, Without(argv, k), Pair(argv[k].name, argv[k].value)) BY <1>0, <1>1, <3>1, OptionSooner
    <3>3. k \in Nat /\ 1 \in Nat OBVIOUS
    <3>4. Short(left) BY <1>0, <1>3, <2>1, <2>4, <3>3, ShortLeft
    <3>. QED BY <2>1, <2>3, <3>2, <3>4, Zenon
  <2>5. Deliver(n, v, left) BY <1>8, <2>1, <2>3, Zenon
  <2>. QED BY <1>0, <2>4, <2>5, DeliverKeeps
<1>. QED BY <1>2, <1>6, <1>7, <1>8

(* getopt_long() returns a file name. *)
LEMMA FileKeeps == CommandLineInv /\ ParseFile => CommandLineInv'
<1>. SUFFICES ASSUME CommandLineInv, ParseFile PROVE CommandLineInv' OBVIOUS
<1>0. phase = "init" /\ argv \in Seq(Arguments) /\ argv # <<>> /\ \A k \in DOMAIN argv : ~IsOption(argv[k])
  BY LineTypes DEF ParseFile
<1>1. PICK left \in Seq(Arguments) : left = Tail(argv) /\ Lacks(argv, left, 1, 1) BY <1>0, LacksFirst
<1>2. Head(argv) \in Arguments BY <1>0
<1>3. PICK n \in Words, v \in Words : n = "" /\ v = Head(argv).value BY <1>2, ArgumentFields
<1>4. ASSUME Short(given) PROVE Short(left) /\ Sooner(argv, left, Pair(n, v))
  <2>1. Sooner(argv, Tail(argv), Pair("", Head(argv).value)) BY <1>0, FileSooner
  <2>2. 1 \in Nat OBVIOUS
  <2>3. Short(left) BY <1>0, <1>1, <1>4, <2>2, LineTypes, ShortLeft
  <2>. QED BY <1>1, <1>3, <2>1, <2>3, Zenon
<1>5. Deliver(n, v, left) BY <1>1, <1>3, Zenon DEF ParseFile
<1>. QED BY <1>0, <1>4, <1>5, DeliverKeeps

(* The command line is read. *)
LEMMA ParseEndKeeps == CommandLineInv /\ ParseEnd => CommandLineInv'
<1>. SUFFICES ASSUME CommandLineInv, ParseEnd PROVE CommandLineInv' OBVIOUS
<1>0. /\ phase = "init" /\ argv \in Seq(Arguments) /\ argv = <<>> /\ UNCHANGED <<argv, given, got>>
      /\ phase' \in {"running", "daemon_execute"}
  BY LineTypes DEF ParseEnd
<1>1. InOrder(Understood(argv)) = <<>> BY <1>0, NothingUnderstood
<1>2. got \in Seq(Words \X Words) BY DEF CommandLineInv
<1>3. got \o <<>> = got BY <1>2, ConcatEmptySeq
<1>4. Short(given) => Short(argv) /\ got = Served BY <1>0, <1>1, <1>3 DEF CommandLineInv, Parsed
<1>5. Served' = Served BY <1>0 DEF Served
<1>6. Parsed' BY <1>0, <1>4, <1>5 DEF Parsed
<1>. QED BY <1>0, <1>6 DEF CommandLineInv, ServiceOptions

(* A process starts with its whole command line.                           *)
LEMMA StartLine ==
  ASSUME NEW a \in CommandLines
  PROVE  /\ a \in Seq(Arguments) /\ <<>> \o InOrder(Understood(a)) = InOrder(Understood(a))
         /\ <<>> \in Seq(Words \X Words)
<1>1. a \in Seq(Arguments) BY CommandLineAssumption
<1>2. PICK w \in Seq(Pairs) : w = InOrder(Understood(a)) BY <1>1, InOrderType
<1>3. <<>> \o w = w OBVIOUS
<1>. QED BY <1>1, <1>2, <1>3

(* The initial states satisfy the invariant. *)
LEMMA LineStarts == DaemonInit => CommandLineInv
<1>. SUFFICES ASSUME DaemonInit PROVE CommandLineInv OBVIOUS
<1>1. argv \in CommandLines /\ given = argv /\ got = <<>> /\ phase = "init" BY DEF DaemonInit
<1>2. Parsed BY <1>1, StartLine, Zenon DEF Parsed, Served
<1>3. \A k \in DOMAIN got : GoesOn(got[k][1]) BY <1>1
<1>. QED BY <1>1, <1>2, <1>3, StartLine DEF CommandLineInv

(* A further start of the program begins with a new command line. *)
LEMMA AgainKeeps == RunAgain => CommandLineInv'
<1>. SUFFICES ASSUME RunAgain PROVE CommandLineInv' OBVIOUS
<1>1. argv' \in CommandLines /\ given' = argv' /\ got' = <<>> /\ phase' = "init" BY DEF RunAgain, Fresh
<1>2. PICK a \in CommandLines : a = argv' BY <1>1
<1>3. Parsed' BY <1>1, <1>2, StartLine, Zenon DEF Parsed, Served
<1>4. \A k \in DOMAIN got' : GoesOn(got'[k][1]) BY <1>1
<1>. QED BY <1>1, <1>2, <1>3, <1>4, StartLine DEF CommandLineInv

(* After the command line nobody touches what the handlers were given.     *)
LEMMA LaterKeeps ==
  ASSUME CommandLineInv,
         \/ Install \/ Uninstall \/ Daemonise \/ CatchTermination \/ StartDispatcher \/ SvcMain
         \/ ExecSteps \/ ExecThrows \/ IoSteps \/ KilledEarly \/ signal_handler \/ svc_ctrl_handler \/ TermSteps
  PROVE  CommandLineInv'
<1>1. UNCHANGED <<argv, given, got>>
  BY Zenon DEF Install, Uninstall, Daemonise, CatchTermination, StartDispatcher, SvcMain, ExecSteps, ExecStart, ExecTest,
     ExecTested, ExecEnd, ExecThrows, IoSteps, IoTest, IoTested, KilledEarly, signal_handler, svc_ctrl_handler,
     TermSteps, stop_enter, stop_join, Untouched, Rest
<1>2. \/ phase' \in {"exit", "killed"}
      \/ /\ phase' \notin {"init"} \cup ServiceOptions
         /\ phase \notin {"init", "exit", "killed"} \cup ServiceOptions
  <2>1. CASE Install \/ Uninstall \/ KilledEarly BY <2>1 DEF Install, Uninstall, KilledEarly
  <2>2. CASE Daemonise \/ CatchTermination \/ StartDispatcher \/ SvcMain
    BY <2>2 DEF Daemonise, CatchTermination, StartDispatcher, SvcMain, ServiceOptions
  <2>3. CASE ExecEnd \/ ExecThrows BY <2>3 DEF ExecEnd, ExecThrows
  <2>4. CASE ExecStart \/ ExecTest \/ ExecTested \/ IoSteps \/ signal_handler \/ svc_ctrl_handler \/ TermSteps
    <3>1. phase = "running" /\ phase' = phase
      BY <2>4, Zenon DEF ExecStart, ExecTest, ExecTested, IoSteps, IoTest, IoTested, signal_handler, svc_ctrl_handler,
         TermSteps, stop_enter, stop_join, Proceed
    <3>. QED BY <3>1 DEF ServiceOptions
  <2>. QED BY <2>1, <2>2, <2>3, <2>4 DEF ExecSteps
<1>. QED BY <1>1, <1>2, ErrorKeeps

(* Every step keeps the invariant of the command line. *)
LEMMA LineStep == CommandLineInv /\ [DaemonNext]_dmnVars => CommandLineInv'
<1>. SUFFICES ASSUME CommandLineInv, [DaemonNext]_dmnVars PROVE CommandLineInv' OBVIOUS
<1>1. CASE UNCHANGED dmnVars
  BY <1>1 DEF dmnVars, CommandLineInv, Parsed, Served
<1>2. CASE DaemonNext
  BY <1>2, OptionKeeps, FileKeeps, ParseEndKeeps, AgainKeeps, LaterKeeps DEF DaemonNext
<1>. QED BY <1>1, <1>2

(* cmdline_parameters::parse and application::run, for every command line   *)
(* and every number of runs: execute_handler runs only after the handlers   *)
(* have seen every argument once, the options with their values in order    *)
(* and then the files, and every one of them said to go on; unless a long   *)
(* option was given, whose has_arg nobody sets.                             *)
THEOREM CommandLineSafe == DaemonSpec => []CommandLineServed
<1>1. CommandLineInv => CommandLineServed
  BY DEF CommandLineInv, Parsed, Short, CommandLineServed, Finished
<1>. QED BY <1>1, LineStarts, LineStep, PTL DEF DaemonSpec

=============================================================================
