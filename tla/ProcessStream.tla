---------------------------- MODULE ProcessStream ----------------------------
(***************************************************************************)
(* One process of the process service with its Handler and its clients:   *)
(* the Start stream that created it and the Connect streams attached      *)
(* later (internal/services/process: start.go, connect.go, signal.go and  *)
(* handler/handler.go).  Data and End are the two MultiplexedChannels of  *)
(* the Handler, each an instance of Multiplex; a client is one consumer   *)
(* of each.                                                               *)
(*                                                                         *)
(* A stream runs two goroutines, the RPC handler and the one that sends   *)
(* the events.  They are one control variable here, cl, because the       *)
(* handler only waits for the other one or for the request's context and  *)
(* then runs its deferred removals; the exception is the part of          *)
(* handleStart that starts the process, which is the variable main.       *)
(* Keepalives are left out: they send nothing the properties tell apart,  *)
(* and a keepalive that fails is a ClientLeave.                           *)
(***************************************************************************)
EXTENDS Integers, Sequences, FiniteSets

CONSTANTS
    Starter,        \* the client of the Start stream
    Connectors,     \* the clients of Connect streams, one stream each
    NoClient,       \* an unused slot of a consumer slice
    Pipes,          \* the output pipes: stdout and stderr, or the pty
    OutBuffer,      \* outputBufferSize
    MaxOut          \* bound: chunks the process ever writes

Clients == {Starter} \cup Connectors

ASSUME ClientsAssumption ==
    Starter \notin Connectors /\ NoClient \notin Clients
ASSUME OutAssumption == OutBuffer \in Nat \ {0} /\ MaxOut \in Nat

VARIABLES
    dSent, dTaken, dSrcClosed, dArray, dLen, dExited, dClosed, dPanicked, dPc,
    dK, dHeld, dHeldLen, dShared, dSt, dFrom, dReceived, dOverlap,
    eSent, eTaken, eSrcClosed, eArray, eLen, eExited, eClosed, ePanicked, ePc,
    eK, eHeld, eHeldLen, eShared, eSt, eFrom, eReceived, eOverlap

VARIABLES
    main,       \* handleStart between the forks and its final select
    cl,         \* where each client's stream is
    gotEnd,     \* the clients that have been sent the EndEvent
    proc,       \* the operating system's process
    killed,     \* a SIGKILL was sent or the timeout of procCtx has fired
    written,    \* chunks written to the pipes
    child,      \* a child of the process lives that inherited the pipes
    pipe,       \* chunks written and not yet read, per pipe
    rd,         \* the reader goroutine of each pipe
    pipesShut,  \* the agent's ends of the pipes are closed
    outDone,    \* outCtx is done
    cut,        \* outCtx was cancelled by a signal or by the timeout
    waiter,     \* the goroutine that runs proc.Wait
    tracked     \* processes holds the handler under its pid

Data == INSTANCE Multiplex WITH
    Consumers <- Clients, NoConsumer <- NoClient, Buffer <- OutBuffer,
    MaxSent <- MaxOut, sent <- dSent, taken <- dTaken,
    srcClosed <- dSrcClosed, array <- dArray, len <- dLen, exited <- dExited,
    closed <- dClosed, panicked <- dPanicked, pc <- dPc, k <- dK,
    held <- dHeld, heldLen <- dHeldLen, shared <- dShared, st <- dSt,
    from <- dFrom, received <- dReceived, overlap <- dOverlap

End == INSTANCE Multiplex WITH
    Consumers <- Clients, NoConsumer <- NoClient, Buffer <- 0,
    MaxSent <- 1, sent <- eSent, taken <- eTaken,
    srcClosed <- eSrcClosed, array <- eArray, len <- eLen, exited <- eExited,
    closed <- eClosed, panicked <- ePanicked, pc <- ePc, k <- eK,
    held <- eHeld, heldLen <- eHeldLen, shared <- eShared, st <- eSt,
    from <- eFrom, received <- eReceived, overlap <- eOverlap

dVars == <<dSent, dTaken, dSrcClosed, dArray, dLen, dExited, dClosed,
           dPanicked, dPc, dK, dHeld, dHeldLen, dShared, dSt, dFrom,
           dReceived, dOverlap>>
eVars == <<eSent, eTaken, eSrcClosed, eArray, eLen, eExited, eClosed,
           ePanicked, ePc, eK, eHeld, eHeldLen, eShared, eSt, eFrom,
           eReceived, eOverlap>>
procVars == <<proc, killed, written, child>>
outVars == <<pipe, rd, pipesShut, outDone, cut>>
svcVars == <<main, waiter, tracked>>
clVars == <<cl, gotEnd>>
vars == <<dVars, eVars, procVars, outVars, svcVars, clVars>>

TypeOK ==
    /\ Data!TypeOK /\ End!TypeOK
    /\ main \in {"start", "store", "sendStart", "serving", "failed"}
    /\ cl \in [Clients -> {"idle", "forkData", "forkEnd", "start", "hello",
                           "data", "end", "gotEnd", "rmEnd", "rmData",
                           "returned"}]
    /\ gotEnd \subseteq Clients
    /\ proc \in {"none", "running", "exited", "reaped"}
    /\ killed \in BOOLEAN /\ child \in BOOLEAN
    /\ written \in 0..MaxOut /\ pipe \in [Pipes -> 0..MaxOut]
    /\ rd \in [Pipes -> {"reading", "holding", "done"}]
    /\ pipesShut \in BOOLEAN /\ outDone \in BOOLEAN /\ cut \in BOOLEAN
    /\ waiter \in {"none", "out", "wait", "end", "delete", "done"}
    /\ tracked \in BOOLEAN

\* handler.New has made the Handler: its readers and multiplexers run and
\* handleStart is about to fork.  A command on a pty has been started already.
Init ==
    /\ Data!Init /\ End!Init
    /\ main = "start" /\ waiter = "none" /\ tracked = FALSE
    /\ cl = [c \in Clients |-> IF c = Starter THEN "forkData" ELSE "idle"]
    /\ gotEnd = {}
    /\ proc \in {"none", "running"} /\ child = FALSE
    /\ killed = FALSE /\ written = 0
    /\ pipe = [p \in Pipes |-> 0]
    /\ rd = [p \in Pipes |-> "reading"]
    /\ pipesShut = FALSE /\ outDone = FALSE /\ cut = FALSE

Goto(c, where) == cl' = [cl EXCEPT ![c] = where]
-----------------------------------------------------------------------------
(***************************************************************************)
(* The operating system's process and what stops it.                      *)
(***************************************************************************)
\* Somebody holds the write ends of the pipes.
Writers == proc = "running" \/ child

\* The process or its child writes a chunk to one of the pipes; once the agent's
\* end is closed a write fails.
Write(p) ==
    /\ Writers /\ ~pipesShut /\ written < MaxOut
    /\ written' = written + 1
    /\ pipe' = [pipe EXCEPT ![p] = @ + 1]
    /\ UNCHANGED <<dVars, eVars, proc, killed, child, rd, pipesShut, outDone,
                   cut, svcVars, clVars>>

\* The process starts a child in the background that keeps its output pipes.
SpawnChild ==
    /\ proc = "running" /\ ~child
    /\ child' = TRUE
    /\ UNCHANGED <<dVars, eVars, proc, killed, written, outVars, svcVars,
                   clVars>>

\* The child exits, maybe long after the process and maybe never: a signal and
\* the timeout go to the process alone.
ChildExit ==
    /\ child
    /\ child' = FALSE
    /\ UNCHANGED <<dVars, eVars, proc, killed, written, outVars, svcVars,
                   clVars>>

ProcExit ==
    /\ proc = "running"
    /\ proc' = "exited"
    /\ UNCHANGED <<dVars, eVars, killed, written, child, outVars, svcVars,
                   clVars>>

\* SendSignal: getProcess finds the handler, SIGTERM and SIGKILL cancel outCtx
\* before the signal is sent.  A SIGTERM may be ignored.
SendSignal(sig) ==
    /\ tracked /\ proc \in {"running", "exited"}
    /\ outDone' = TRUE /\ cut' = (cut \/ ~outDone)
    /\ killed' = (killed \/ sig = "SIGKILL")
    /\ UNCHANGED <<dVars, eVars, proc, written, child, pipe, rd, pipesShut,
                   svcVars, clVars>>

\* procCtx expires: CommandContext kills the process, outCtx is derived from it.
\* After Wait's cancel() the context is released and nothing follows.
Timeout ==
    /\ ~killed /\ waiter \notin {"delete", "done"}
    /\ killed' = TRUE
    /\ outDone' = TRUE /\ cut' = (cut \/ ~outDone)
    /\ UNCHANGED <<dVars, eVars, proc, written, child, pipe, rd, pipesShut,
                   svcVars, clVars>>
-----------------------------------------------------------------------------
(***************************************************************************)
(* The Handler's goroutines: a reader per pipe, the collector that waits  *)
(* for the readers, and Wait.                                             *)
(***************************************************************************)
\* Mutant of Read: without the test that something was read.
ReadUnchecked(p) ==
    /\ rd[p] = "reading" /\ ~pipesShut
    /\ pipe' = [pipe EXCEPT ![p] = @ - 1]
    /\ rd' = [rd EXCEPT ![p] = "holding"]
    /\ UNCHANGED <<dVars, eVars, procVars, pipesShut, outDone, cut, svcVars,
                   clVars>>

Read(p) ==
    /\ rd[p] = "reading" /\ pipe[p] > 0 /\ ~pipesShut
    /\ pipe' = [pipe EXCEPT ![p] = @ - 1]
    /\ rd' = [rd EXCEPT ![p] = "holding"]
    /\ UNCHANGED <<dVars, eVars, procVars, pipesShut, outDone, cut, svcVars,
                   clVars>>

\* outMultiplex.Source <- the chunk just read.
Push(p) ==
    /\ rd[p] = "holding" /\ Data!Send
    /\ rd' = [rd EXCEPT ![p] = "reading"]
    /\ UNCHANGED <<eVars, procVars, pipe, pipesShut, outDone, cut, svcVars,
                   clVars>>

\* Read returns EOF once every holder of the write end is gone and the pipe is
\* empty, or an error once Wait or a failed Start has closed the agent's end;
\* either ends the reader.
ReadEnd(p) ==
    /\ rd[p] = "reading"
    /\ pipesShut \/ (proc \in {"exited", "reaped"} /\ ~child /\ pipe[p] = 0)
    /\ rd' = [rd EXCEPT ![p] = "done"]
    /\ UNCHANGED <<dVars, eVars, procVars, pipe, pipesShut, outDone, cut,
                   svcVars, clVars>>

\* Mutant of ReadersDone: the collector does not wait.
NoWaitGroup == TRUE

\* outWg.Wait()
ReadersDone == \A p \in Pipes : rd[p] = "done"

\* outWg.Wait(); close(outMultiplex.Source)
CloseOutput ==
    /\ ReadersDone /\ Data!CloseSource
    /\ UNCHANGED <<eVars, procVars, outVars, svcVars, clVars>>

\* Mutant of OutCancel: the collector forgets it.
NoOutCancel == FALSE

\* ... and then outCancel()
OutCancel ==
    /\ dSrcClosed /\ ~outDone
    /\ outDone' = TRUE
    /\ UNCHANGED <<dVars, eVars, procVars, pipe, rd, pipesShut, cut, svcVars,
                   clVars>>

\* Mutant of AwaitOutput: Wait does not wait for the output.
AwaitNothing ==
    /\ waiter = "out"
    /\ waiter' = "wait"
    /\ UNCHANGED <<dVars, eVars, procVars, outVars, main, tracked, clVars>>

\* Wait: <-p.outCtx.Done()
AwaitOutput ==
    /\ waiter = "out" /\ outDone
    /\ waiter' = "wait"
    /\ UNCHANGED <<dVars, eVars, procVars, outVars, main, tracked, clVars>>

\* Mutant of CmdWait: the entry is deleted before the EndEvent.
CmdWaitDeletes ==
    /\ waiter = "wait" /\ proc = "exited"
    /\ proc' = "reaped" /\ pipesShut' = TRUE /\ waiter' = "end"
    /\ tracked' = FALSE
    /\ UNCHANGED <<dVars, eVars, killed, written, child, pipe, rd, outDone, cut,
                   main, clVars>>

\* cmd.Wait reaps the process and closes the agent's ends of the pipes, read
\* or not; tty.Close does the same for a pty.
CmdWait ==
    /\ waiter = "wait" /\ proc = "exited"
    /\ proc' = "reaped" /\ pipesShut' = TRUE /\ waiter' = "end"
    /\ UNCHANGED <<dVars, eVars, killed, written, child, pipe, rd, outDone,
                   cut, main, tracked, clVars>>

\* p.EndEvent.Source <- event; p.cancel()
SendEnd ==
    /\ waiter = "end" /\ End!SendUnbuffered
    /\ waiter' = "delete"
    /\ UNCHANGED <<dVars, procVars, outVars, main, tracked, clVars>>

\* The deferred processes.Delete(pid).
Untrack ==
    /\ waiter = "delete"
    /\ waiter' = "done" /\ tracked' = FALSE
    /\ UNCHANGED <<dVars, eVars, procVars, outVars, main, clVars>>
-----------------------------------------------------------------------------
(***************************************************************************)
(* handleStart from proc.Start on.  The streaming goroutine exists then.  *)
(***************************************************************************)
\* proc.Start: cmd.Start, or nothing to do for a pty.
StartProc ==
    /\ main = "start" /\ cl[Starter] \notin {"forkData", "forkEnd"}
    /\ proc = "none" => ~killed
    /\ proc' = (IF proc = "none" THEN "running" ELSE proc) /\ main' = "store"
    /\ UNCHANGED <<dVars, eVars, killed, written, child, outVars, waiter,
                   tracked, clVars>>

\* cmd.Start fails (a bad command, or procCtx already done) and closes the
\* pipes; handleStart returns and its deferred calls remove the consumers.
StartFails ==
    /\ main = "start" /\ cl[Starter] \in {"start", "rmEnd"} /\ proc = "none"
    /\ main' = "failed" /\ pipesShut' = TRUE
    /\ IF cl[Starter] = "start"
       THEN Data!Leave(Starter) /\ End!Leave(Starter) /\ Goto(Starter, "rmEnd")
       ELSE UNCHANGED <<dVars, eVars, cl>>
    /\ UNCHANGED <<procVars, pipe, rd, outDone, cut, waiter, tracked, gotEnd>>

\* s.processes.Store(pid, proc)
Store ==
    /\ main = "store"
    /\ tracked' = TRUE /\ main' = "sendStart"
    /\ UNCHANGED <<dVars, eVars, procVars, outVars, waiter, clVars>>

\* start <- StartEvent meets the streaming goroutine's receive; only then is
\* the goroutine that runs Wait launched.
SendStart ==
    /\ main = "sendStart" /\ cl[Starter] = "start"
    /\ main' = "serving" /\ waiter' = "out"
    /\ Goto(Starter, "data")
    /\ UNCHANGED <<dVars, eVars, procVars, outVars, tracked, gotEnd>>
-----------------------------------------------------------------------------
(***************************************************************************)
(* A client's stream.                                                     *)
(***************************************************************************)
\* handleConnect: getProcess finds the handler.
Connect(c) ==
    /\ c \in Connectors /\ cl[c] = "idle" /\ tracked
    /\ Goto(c, "forkData")
    /\ UNCHANGED <<dVars, eVars, procVars, outVars, svcVars, gotEnd>>

\* proc.DataEvent.Fork()
ForkData(c) ==
    /\ cl[c] = "forkData"
    /\ Data!ForkCheck(c) \/ Data!ForkAppend(c)
    /\ Goto(c, IF dSt'[c] = "checked" THEN "forkData" ELSE "forkEnd")
    /\ UNCHANGED <<eVars, procVars, outVars, svcVars, gotEnd>>

\* proc.EndEvent.Fork()
ForkEnd(c) ==
    /\ cl[c] = "forkEnd"
    /\ End!ForkCheck(c) \/ End!ForkAppend(c)
    /\ Goto(c, IF eSt'[c] = "checked" THEN "forkEnd"
               ELSE IF c = Starter THEN "start" ELSE "hello")
    /\ UNCHANGED <<dVars, procVars, outVars, svcVars, gotEnd>>

\* Connect sends its own StartEvent and enters the data loop.
Hello(c) ==
    /\ cl[c] = "hello"
    /\ Goto(c, "data")
    /\ UNCHANGED <<dVars, eVars, procVars, outVars, svcVars, gotEnd>>

\* event, ok := <-data; stream.Send
ReceiveData(c) ==
    /\ cl[c] = "data" /\ Data!Deliver(c)
    /\ UNCHANGED <<eVars, procVars, outVars, svcVars, clVars>>

\* data is closed: break dataLoop.
DataClosed(c) ==
    /\ cl[c] = "data"
    /\ Data!SeeClosed(c) \/ (dSt[c] = "refused" /\ UNCHANGED dVars)
    /\ Goto(c, "end")
    /\ UNCHANGED <<eVars, procVars, outVars, svcVars, gotEnd>>

\* Mutant of ReceiveEnd: one select for data and end.
ReceiveEndEarly(c) ==
    /\ cl[c] \in {"data", "end"} /\ End!Deliver(c)
    /\ gotEnd' = gotEnd \cup {c}
    /\ Goto(c, "gotEnd")
    /\ UNCHANGED <<dVars, procVars, outVars, svcVars>>

\* event, ok := <-end; stream.Send
ReceiveEnd(c) ==
    /\ cl[c] = "end" /\ End!Deliver(c)
    /\ gotEnd' = gotEnd \cup {c}
    /\ Goto(c, "gotEnd")
    /\ UNCHANGED <<dVars, procVars, outVars, svcVars>>

\* The stream's context is done or a send on it failed, in any of its states:
\* from here on nobody receives from its two channels.
ClientLeave(c) ==
    /\ cl[c] \in {"start", "hello", "data", "end"}
    /\ IF dSt[c] = "reading" THEN Data!Leave(c) ELSE UNCHANGED dVars
    /\ End!Leave(c)
    /\ Goto(c, "rmEnd")
    /\ UNCHANGED <<procVars, outVars, svcVars, gotEnd>>

\* exitChan is closed after the EndEvent: the handler returns.
Return(c) ==
    /\ cl[c] = "gotEnd" /\ End!Leave(c)
    /\ Goto(c, "rmEnd")
    /\ UNCHANGED <<dVars, procVars, outVars, svcVars, gotEnd>>

\* Deferred calls run last in, first out: endCancel, then dataCancel.  Those of
\* handleStart wait until it gets to its final select or fails.
RemoveEnd(c) ==
    /\ cl[c] = "rmEnd" /\ (c = Starter => main \in {"serving", "failed"})
    /\ End!Remove(c)
    /\ Goto(c, "rmData")
    /\ UNCHANGED <<dVars, procVars, outVars, svcVars, gotEnd>>

RemoveData(c) ==
    /\ cl[c] = "rmData"
    /\ IF dSt[c] = "refused" THEN UNCHANGED dVars ELSE Data!Remove(c)
    /\ Goto(c, "returned")
    /\ UNCHANGED <<eVars, procVars, outVars, svcVars, gotEnd>>
-----------------------------------------------------------------------------
(***************************************************************************)
(* The two fan-outs.  EndEvent.Source is never closed and carries one     *)
(* value, so End's fan-out never gets to its closing loop.                *)
(***************************************************************************)
DataFanOut ==
    /\ Data!FanOut
    /\ UNCHANGED <<eVars, procVars, outVars, svcVars, clVars>>

EndFanOut ==
    /\ End!RLock \/ End!RUnlock
    /\ UNCHANGED <<dVars, procVars, outVars, svcVars, clVars>>

Environment ==
    \/ \E p \in Pipes : Write(p)
    \/ ProcExit \/ SpawnChild \/ ChildExit \/ Timeout
    \/ \E sig \in {"SIGTERM", "SIGKILL"} : SendSignal(sig)
    \/ \E c \in Clients : Connect(c) \/ ClientLeave(c)

Reader(p) == Read(p) \/ Push(p) \/ ReadEnd(p)

Collector == CloseOutput \/ OutCancel

Waiter == AwaitOutput \/ CmdWait \/ SendEnd \/ Untrack

Stream(c) ==
    \/ ForkData(c) \/ ForkEnd(c) \/ Hello(c)
    \/ ReceiveData(c) \/ DataClosed(c) \/ ReceiveEnd(c) \/ Return(c)
    \/ RemoveEnd(c) \/ RemoveData(c)

Running == ~dPanicked

Next ==
    /\ Running
    /\ \/ Environment
       \/ DataFanOut \/ EndFanOut \/ Collector \/ Waiter
       \/ StartProc \/ StartFails \/ Store \/ SendStart
       \/ \E p \in Pipes : Reader(p)
       \/ \E c \in Clients : Stream(c)

(***************************************************************************)
(* Every goroutine of the agent that can run does, and the kernel carries *)
(* out a SIGKILL.  Nothing obliges a process or its child to write or to  *)
(* exit, nor a client to attach or to leave.                              *)
(***************************************************************************)
Fairness ==
    /\ WF_vars(Running /\ DataFanOut) /\ WF_vars(Running /\ EndFanOut)
    /\ WF_vars(Running /\ Collector) /\ WF_vars(Running /\ Waiter)
    /\ WF_vars(Running /\ (StartProc \/ StartFails \/ Store \/ SendStart))
    /\ WF_vars(Running /\ killed /\ ProcExit)
    /\ \A p \in Pipes : WF_vars(Running /\ Reader(p))
    /\ \A c \in Clients : WF_vars(Running /\ Stream(c))

Spec == Init /\ [][Next]_vars

FairSpec == Spec /\ Fairness
-----------------------------------------------------------------------------
(***************************************************************************)
(* Properties.                                                            *)
(***************************************************************************)
\* A stream that carries an EndEvent has carried before it every DataEvent the
\* readers sent since the stream attached, however the process was stopped
\* (start.go:142-204, connect.go:55-117, handler.go:333-339, 446-472).
EndIsLast ==
    \A c \in gotEnd :
        /\ dSt[c] # "refused" => dFrom[c] + Len(dReceived[c]) = dSent
        /\ ReadersDone /\ proc = "reaped"

\* Unless a signal or the timeout cuts the output off, everything the process
\* wrote has been sent on DataEvent.Source by the time its pipes are closed
\* (handler.go:333-339 and 446-450: outCtx, then cmd.Wait).
NothingUnread ==
    (pipesShut /\ proc = "reaped" /\ ~cut) =>
        dSent = written /\ \A p \in Pipes : pipe[p] = 0 /\ rd[p] = "done"

\* No reader ever sends on a closed Source, which would crash the agent
\* (handler.go:256, 298 against 336).
NoSendOnClosed == \A p \in Pipes : rd[p] = "holding" => ~dSrcClosed

\* From Store until the EndEvent is out, List and getProcess find the process
\* (start.go:212-224): a reachable handler is never dropped early.
TrackedUntilEnd ==
    main \in {"sendStart", "serving"} /\ eTaken = 0 => tracked

\* A consumer that left while a fan-out sends to it (see Multiplex).
Wedged == Data!Wedged \/ End!Wedged

\* A stream in the middle of Connect, already a consumer of DataEvent, waits in
\* EndEvent.Fork for the lock under which the EndEvent is being sent to a stream
\* that is still reading data; the data it waits for is being sent to the first.
Entangled ==
    /\ dPc = "send" /\ dK <= dLen /\ cl[dArray[dK]] = "forkEnd"
    /\ ePc = "send" /\ eK <= eLen /\ cl[eArray[eK]] = "data"

\* Neither knot is ever undone: not by the streams that remain, nor by one that
\* gives up, nor by a signal (connect.go:30-33, start.go:106-110).
StuckForever == [][Wedged \/ Entangled => (Wedged \/ Entangled)']_vars

\* A stream that attached too late: it became a consumer of EndEvent after the
\* EndEvent was sent, or of DataEvent after the closing loop had ended.
TooLate(c) == eFrom[c] = 1 \/ (dPc = "done" /\ c \notin dClosed)

\* Once the StartEvent is out and the process has exited, and no child of it
\* holds the pipes or its output was cut off, it is reaped, its EndEvent sent and
\* its entry deleted, and every stream has its EndEvent or has left: unless a
\* fan-out is wedged or entangled, the stream attached too late, or the consumer
\* slice was written during the closing loop (handler.go:333-339, 446-483;
\* start.go:142-224; connect.go:55-117).
Settles ==
    (main = "serving" /\ proc = "exited" /\ (~child \/ outDone)) ~>
        \/ /\ waiter = "done"
           /\ \A c \in Clients : cl[c] \in {"data", "end"} => TooLate(c)
        \/ Wedged \/ Entangled \/ dOverlap

\* README.md:28 says of Start: "server stream: StartEvent -> DataEvent* ->
\* EndEvent".  So a Start stream whose process has exited and left no child gets
\* its EndEvent, unless its client leaves.
StartStreamEnds ==
    (cl[Starter] = "data" /\ proc = "exited" /\ ~child)
        ~> cl[Starter] \notin {"data", "end"}

AllStay ==
    \A c \in Clients : cl[c] \in {"rmEnd", "rmData", "returned"} => c \in gotEnd

\* That promise when no client at all leaves early and the agent does not crash.
StartStreamEndsIfAllStay == [](AllStay /\ ~dPanicked) => StartStreamEnds

\* That promise when the other clients may leave, with no entangled Connect.
StartStreamEndsIfOthersLeave == [](~Entangled /\ ~dPanicked) => StartStreamEnds

\* handler.go:198 says of a command that New already starts on its pty: "The
\* output of the pty should correctly be passed though."  So a Start stream that
\* carries an EndEvent carries everything that was sent on DataEvent.Source.
PtyOutputPassed ==
    Starter \in gotEnd => Len(dReceived[Starter]) = dSent
=============================================================================
