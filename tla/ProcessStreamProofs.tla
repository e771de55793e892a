------------------------- MODULE ProcessStreamProofs -------------------------
(***************************************************************************)
(* Proofs about ProcessStream, for any clients, pipes, buffer capacity and *)
(* amount of output.  It uses its two MultiplexedChannels only through the *)
(* steps Multiplex allows, so each keeps the inductive invariant of        *)
(* MultiplexProofs (ChannelsInv); on it rest the invariants of the         *)
(* Handler's goroutines (HandlerInv), of the streams (StreamInv) and of    *)
(* the chunks on their way (OutputInv).                                    *)
(***************************************************************************)
EXTENDS ProcessStream, FiniteSetTheorems, TLAPS

\* Every step of the composition leaves DataEvent alone or is a step of it.
LEMMA DataStep == ASSUME Next PROVE Data!Next \/ UNCHANGED dVars
<1>0. ~dPanicked
  BY DEF Next, Running
<1>1. CASE Environment
  <2>1. ASSUME NEW c \in Clients, ClientLeave(c)
        PROVE  Data!Next \/ UNCHANGED dVars
    BY <1>0, <2>1 DEF ClientLeave, Data!Next, Data!Consumer
  <2>2. QED
    BY <1>1, <2>1 DEF Environment, Write, ProcExit, SpawnChild, ChildExit, Timeout,
                       SendSignal, Connect
<1>2. CASE DataFanOut
  BY <1>0, <1>2 DEF DataFanOut, Data!Next
<1>3. CASE EndFanOut \/ Waiter
  BY <1>3 DEF EndFanOut, Waiter, AwaitOutput, CmdWait, SendEnd, Untrack
<1>4. CASE Collector
  BY <1>0, <1>4 DEF Collector, CloseOutput, OutCancel, Data!Next, Data!Producer
<1>5. CASE StartFails
  BY <1>0, <1>5 DEF StartFails, Clients, Data!Next, Data!Consumer
<1>6. CASE StartProc \/ Store \/ SendStart
  BY <1>6 DEF StartProc, Store, SendStart
<1>7. ASSUME NEW p \in Pipes, Reader(p)
      PROVE  Data!Next \/ UNCHANGED dVars
  BY <1>0, <1>7 DEF Reader, Read, Push, ReadEnd, Data!Next, Data!Producer
<1>8. ASSUME NEW c \in Clients, Stream(c)
      PROVE  Data!Next \/ UNCHANGED dVars
  <2>1. CASE ForkData(c)
    BY <1>0, <2>1 DEF ForkData, Data!Next, Data!Consumer
  <2>2. CASE ReceiveData(c)
    BY <1>0, <2>2 DEF ReceiveData, Data!Next, Data!Consumer
  <2>3. CASE DataClosed(c)
    BY <1>0, <2>3 DEF DataClosed, Data!Next, Data!Consumer
  <2>4. CASE RemoveData(c)
    BY <1>0, <2>4 DEF RemoveData, Data!Next, Data!Consumer
  <2>5. CASE ForkEnd(c) \/ Hello(c) \/ ReceiveEnd(c) \/ Return(c) \/ RemoveEnd(c)
    BY <2>5 DEF ForkEnd, Hello, ReceiveEnd, Return, RemoveEnd
  <2>6. QED
    BY <1>8, <2>1, <2>2, <2>3, <2>4, <2>5 DEF Stream
<1>9. QED
  BY <1>1, <1>2, <1>3, <1>4, <1>5, <1>6, <1>7, <1>8 DEF Next

\* A Start or Connect stream's DataEvent behaves as Multiplex specifies.
THEOREM DataImplementsMultiplex == Spec => Data!Spec
<1>1. Init => Data!Init
  BY DEF Init
<1>2. [Next]_vars => [Data!Next]_(Data!vars)
  <2>1. UNCHANGED dVars => UNCHANGED Data!vars
    BY DEF dVars, Data!vars, Data!srcVars, Data!sliceVars, Data!closeVars,
           Data!loopVars, Data!consVars
  <2>2. UNCHANGED vars => UNCHANGED dVars
    BY DEF vars
  <2>3. QED
    BY <2>1, <2>2, DataStep
<1>3. QED
  BY <1>1, <1>2, PTL DEF Spec, Data!Spec

\* Every step of the composition leaves EndEvent alone or is a step of it, given
\* that its fan-out never reaches the closing loop, where alone it could panic.
LEMMA EndStep == ASSUME Next, ~ePanicked PROVE End!Next \/ UNCHANGED eVars
<1>1. CASE Environment
  <2>1. ASSUME NEW c \in Clients, ClientLeave(c)
        PROVE  End!Next
    BY <2>1 DEF ClientLeave, End!Next, End!Consumer
  <2>2. QED
    BY <1>1, <2>1 DEF Environment, Write, ProcExit, SpawnChild, ChildExit, Timeout,
                       SendSignal, Connect
<1>2. CASE EndFanOut
  BY <1>2 DEF EndFanOut, End!Next, End!FanOut
<1>3. CASE Waiter
  BY <1>3 DEF Waiter, AwaitOutput, CmdWait, SendEnd, Untrack, End!Next,
              End!Producer
<1>4. CASE DataFanOut \/ Collector
  BY <1>4 DEF DataFanOut, Collector, CloseOutput, OutCancel
<1>5. CASE StartFails
  BY <1>5 DEF StartFails, Clients, End!Next, End!Consumer
<1>6. CASE StartProc \/ Store \/ SendStart
  BY <1>6 DEF StartProc, Store, SendStart
<1>7. ASSUME NEW p \in Pipes, Reader(p)
      PROVE  UNCHANGED eVars
  BY <1>7 DEF Reader, Read, Push, ReadEnd
<1>8. ASSUME NEW c \in Clients, Stream(c)
      PROVE  End!Next \/ UNCHANGED eVars
  <2>1. CASE ForkEnd(c)
    BY <2>1 DEF ForkEnd, End!Next, End!Consumer
  <2>2. CASE ReceiveEnd(c)
    BY <2>2 DEF ReceiveEnd, End!Next, End!Consumer
  <2>3. CASE Return(c)
    BY <2>3 DEF Return, End!Next, End!Consumer
  <2>4. CASE RemoveEnd(c)
    BY <2>4 DEF RemoveEnd, End!Next, End!Consumer
  <2>5. CASE ForkData(c) \/ Hello(c) \/ ReceiveData(c) \/ DataClosed(c)
                \/ RemoveData(c)
    BY <2>5 DEF ForkData, Hello, ReceiveData, DataClosed, RemoveData
  <2>6. QED
    BY <1>8, <2>1, <2>2, <2>3, <2>4, <2>5 DEF Stream
<1>9. QED
  BY <1>1, <1>2, <1>3, <1>4, <1>5, <1>6, <1>7, <1>8 DEF Next

\* EndEvent never panics: its Source is never closed, so its fan-out never gets
\* to the closing loop.
LEMMA EndNeverPanics == ASSUME Next, ~ePanicked PROVE ~ePanicked'
<1> USE DEF eVars, End!closeVars
<1>1. CASE Environment
  <2>1. ASSUME NEW c \in Clients, ClientLeave(c) PROVE ~ePanicked'
    BY <2>1 DEF ClientLeave, End!Leave
  <2>2. QED
    BY <1>1, <2>1 DEF Environment, Write, ProcExit, SpawnChild, ChildExit, Timeout,
                       SendSignal, Connect
<1>2. CASE EndFanOut
  BY <1>2 DEF EndFanOut, End!RLock, End!RUnlock
<1>3. CASE Waiter
  BY <1>3 DEF Waiter, AwaitOutput, CmdWait, SendEnd, Untrack,
              End!SendUnbuffered
<1>4. CASE DataFanOut \/ Collector
  BY <1>4 DEF DataFanOut, Collector, CloseOutput, OutCancel
<1>5. CASE StartFails
  BY <1>5 DEF StartFails, End!Leave
<1>6. CASE StartProc \/ Store \/ SendStart
  BY <1>6 DEF StartProc, Store, SendStart
<1>7. ASSUME NEW p \in Pipes, Reader(p) PROVE ~ePanicked'
  BY <1>7 DEF Reader, Read, Push, ReadEnd
<1>8. ASSUME NEW c \in Clients, Stream(c) PROVE ~ePanicked'
  <2>1. CASE ForkEnd(c)
    BY <2>1 DEF ForkEnd, End!ForkCheck, End!ForkAppend
  <2>2. CASE ReceiveEnd(c)
    BY <2>2 DEF ReceiveEnd, End!Deliver
  <2>3. CASE Return(c)
    BY <2>3 DEF Return, End!Leave
  <2>4. CASE RemoveEnd(c)
    BY <2>4 DEF RemoveEnd, End!Remove
  <2>5. CASE ForkData(c) \/ Hello(c) \/ ReceiveData(c) \/ DataClosed(c)
                \/ RemoveData(c)
    BY <2>5 DEF ForkData, Hello, ReceiveData, DataClosed, RemoveData
  <2>6. QED
    BY <1>8, <2>1, <2>2, <2>3, <2>4, <2>5 DEF Stream
<1>9. QED
  BY <1>1, <1>2, <1>3, <1>4, <1>5, <1>6, <1>7, <1>8 DEF Next

\* A stream's EndEvent behaves as Multiplex specifies, and never crashes.
THEOREM EndImplementsMultiplex == Spec => End!Spec /\ []~ePanicked
<1>1. Init => End!Init /\ ~ePanicked
  BY DEF Init, End!Init
<1>2. ~ePanicked /\ [Next]_vars => ~ePanicked'
  BY EndNeverPanics DEF vars, eVars
<1>3. ~ePanicked /\ [Next]_vars => [End!Next]_(End!vars)
  <2>1. UNCHANGED eVars => UNCHANGED End!vars
    BY DEF eVars, End!vars, End!srcVars, End!sliceVars, End!closeVars,
           End!loopVars, End!consVars
  <2>2. UNCHANGED vars => UNCHANGED eVars
    BY DEF vars
  <2>3. QED
    BY <2>1, <2>2, EndStep
<1>4. QED
  BY <1>1, <1>2, <1>3, PTL DEF Spec, End!Spec
-----------------------------------------------------------------------------
(***************************************************************************)
(* The channels.  DP and EP are the theory of Multiplex for DataEvent and *)
(* for EndEvent.                                                          *)
(***************************************************************************)
DP == INSTANCE MultiplexProofs WITH
    Consumers <- Clients, NoConsumer <- NoClient, Buffer <- OutBuffer,
    MaxSent <- MaxOut, sent <- dSent, taken <- dTaken,
    srcClosed <- dSrcClosed, array <- dArray, len <- dLen, exited <- dExited,
    closed <- dClosed, panicked <- dPanicked, pc <- dPc, k <- dK,
    held <- dHeld, heldLen <- dHeldLen, shared <- dShared, st <- dSt,
    from <- dFrom, received <- dReceived, overlap <- dOverlap

EP == INSTANCE MultiplexProofs WITH
    Consumers <- Clients, NoConsumer <- NoClient, Buffer <- 0,
    MaxSent <- 1, sent <- eSent, taken <- eTaken,
    srcClosed <- eSrcClosed, array <- eArray, len <- eLen, exited <- eExited,
    closed <- eClosed, panicked <- ePanicked, pc <- ePc, k <- eK,
    held <- eHeld, heldLen <- eHeldLen, shared <- eShared, st <- eSt,
    from <- eFrom, received <- eReceived, overlap <- eOverlap

\* Multiplex and MultiplexProofs, instantiated for DataEvent, take the same steps.
LEMMA SameData == DP!Next <=> Data!Next
BY DEF DP!Send, Data!Send, DP!SendUnbuffered, Data!SendUnbuffered, DP!CloseSource,
   Data!CloseSource, DP!Take, Data!Take, DP!RLock, Data!RLock, DP!RUnlock, Data!RUnlock,
   DP!Exit, Data!Exit, DP!LoadLen, Data!LoadLen, DP!LoadArray, Data!LoadArray, DP!CloseNext,
   Data!CloseNext, DP!CloseDone, Data!CloseDone, DP!ForkCheck, Data!ForkCheck, DP!ForkAppend,
   Data!ForkAppend, DP!Deliver, Data!Deliver, DP!SeeClosed, Data!SeeClosed, DP!Leave,
   Data!Leave, DP!Remove, Data!Remove, DP!Grown, Data!Grown, DP!ShiftedAt, Data!ShiftedAt,
   DP!LockFree, Data!LockFree, DP!ClosePcs, Data!ClosePcs, DP!srcVars, Data!srcVars,
   DP!sliceVars, Data!sliceVars, DP!closeVars, Data!closeVars, DP!loopVars, Data!loopVars,
   DP!consVars, Data!consVars, DP!Next, Data!Next, DP!Producer, Data!Producer, DP!FanOut,
   Data!FanOut, DP!Consumer, Data!Consumer

\* ... and so do the two instances for EndEvent.
LEMMA SameEnd == EP!Next <=> End!Next
BY DEF EP!Send, End!Send, EP!SendUnbuffered, End!SendUnbuffered, EP!CloseSource,
   End!CloseSource, EP!Take, End!Take, EP!RLock, End!RLock, EP!RUnlock, End!RUnlock, EP!Exit,
   End!Exit, EP!LoadLen, End!LoadLen, EP!LoadArray, End!LoadArray, EP!CloseNext, End!CloseNext,
   EP!CloseDone, End!CloseDone, EP!ForkCheck, End!ForkCheck, EP!ForkAppend, End!ForkAppend,
   EP!Deliver, End!Deliver, EP!SeeClosed, End!SeeClosed, EP!Leave, End!Leave, EP!Remove,
   End!Remove, EP!Grown, End!Grown, EP!ShiftedAt, End!ShiftedAt, EP!LockFree, End!LockFree,
   EP!ClosePcs, End!ClosePcs, EP!srcVars, End!srcVars, EP!sliceVars, End!sliceVars,
   EP!closeVars, End!closeVars, EP!loopVars, End!loopVars, EP!consVars, End!consVars, EP!Next,
   End!Next, EP!Producer, End!Producer, EP!FanOut, End!FanOut, EP!Consumer, End!Consumer

\* Both channels keep the inductive invariant of MultiplexProofs.
ChannelsInv == DP!IInv /\ EP!IInv /\ ~ePanicked


\* The initial state of the composition is one of each channel.
LEMMA ChannelsInitial == Init => ChannelsInv
<1> SUFFICES ASSUME Init PROVE ChannelsInv
  OBVIOUS
<1>1. DP!Init
  BY DEF Init, Data!Init, DP!Init
<1>2. EP!Init /\ ~ePanicked
  BY DEF Init, End!Init, EP!Init
<1>3. DP!IInv
  BY <1>1, DP!InitIInv, ClientsAssumption, OutAssumption
<1>4. EP!IInv
  BY <1>2, EP!InitIInv, ClientsAssumption
<1>5. QED
  BY <1>2, <1>3, <1>4 DEF ChannelsInv
\* A step of the composition is a step of each channel, or leaves it alone, and
\* cannot make EndEvent panic.
LEMMA ChannelSteps ==
    ASSUME ~ePanicked, [Next]_vars
    PROVE  [DP!Next]_(DP!vars) /\ [EP!Next]_(EP!vars) /\ ~ePanicked'
<1>1. UNCHANGED dVars => UNCHANGED DP!vars
  BY DEF dVars, DP!vars, DP!srcVars, DP!sliceVars, DP!closeVars, DP!loopVars, DP!consVars
<1>2. UNCHANGED eVars => UNCHANGED EP!vars
  BY DEF eVars, EP!vars, EP!srcVars, EP!sliceVars, EP!closeVars, EP!loopVars, EP!consVars
<1>3. CASE Next
  BY <1>1, <1>2, <1>3, DataStep, EndStep, EndNeverPanics, SameData, SameEnd
<1>4. CASE UNCHANGED vars
  BY <1>1, <1>2, <1>4 DEF vars, eVars
<1>5. QED
  BY <1>3, <1>4
\* So each channel keeps its own inductive invariant.
LEMMA ChannelsStep == ASSUME ChannelsInv, [Next]_vars PROVE ChannelsInv'
<1>1. [DP!Next]_(DP!vars) /\ [EP!Next]_(EP!vars) /\ ~ePanicked'
  BY ChannelSteps DEF ChannelsInv
<1>2. DP!IInv'
  BY <1>1, DP!NextIInv, ClientsAssumption, OutAssumption DEF ChannelsInv
<1>3. EP!IInv'
  BY <1>1, EP!NextIInv, ClientsAssumption DEF ChannelsInv
<1>4. QED
  BY <1>1, <1>2, <1>3 DEF ChannelsInv
-----------------------------------------------------------------------------
(***************************************************************************)
(* The Handler's goroutines.                                              *)
(***************************************************************************)
ReadersShape ==
    /\ rd \in [Pipes -> {"reading", "holding", "done"}]
    /\ pipe \in [Pipes -> Nat]

\* The collector closes Source after the last reader has ended.
LateSource == dSrcClosed => ReadersDone

\* Wait reaps the process after outCtx is done, sends the EndEvent after that,
\* and runs only once handleStart has sent its StartEvent.
WaiterTurns ==
    /\ waiter \in {"end", "delete", "done"} <=> proc = "reaped"
    /\ waiter \in {"wait", "end", "delete", "done"} => outDone
    /\ waiter \notin {"delete", "done"} => ePc = "range"
    /\ eTaken = IF waiter \in {"delete", "done"} THEN 1 ELSE 0
    /\ waiter # "none" => main = "serving"

\* The entry is in processes from Store until the end of Wait.
TrackedSince == main \in {"sendStart", "serving"} => tracked \/ waiter = "done"

\* The agent's ends of the pipes are closed by Wait or by a Start that failed.
ShutMeans == pipesShut => proc = "reaped" \/ (main = "failed" /\ proc = "none")

\* outCtx is done when the output is, unless something cuts it off.
CutOrClosed == outDone /\ ~cut => dSrcClosed

\* A reader ends when its pipe is empty and no writer is left, unless something
\* cuts the output off or the process was never started.
DoneIsRead ==
    ~cut => \A p \in Pipes : rd[p] = "done" =>
        \/ main = "failed" /\ proc = "none"
        \/ proc \in {"exited", "reaped"} /\ ~child /\ pipe[p] = 0

HandlerInv ==
    /\ ReadersShape /\ LateSource /\ WaiterTurns /\ TrackedSince
    /\ ShutMeans /\ CutOrClosed /\ DoneIsRead

\* What HandlerInv speaks of.
handlerVars ==
    <<rd, pipe, dSrcClosed, waiter, proc, outDone, cut, ePc, eTaken, main,
      tracked, pipesShut, child>>

\* No goroutine of the Handler has done anything to begin with.
LEMMA HandlerInitial == Init => HandlerInv
BY DEF Init, Data!Init, End!Init, HandlerInv, ReadersShape, LateSource,
       ReadersDone, WaiterTurns, TrackedSince, ShutMeans, CutOrClosed, DoneIsRead

\* One step per goroutine's action, and under it the conjuncts it can disturb.
LEMMA HandlerStep == ASSUME ChannelsInv, HandlerInv, [Next]_vars PROVE HandlerInv'
<1> USE DEF HandlerInv, dVars, eVars, procVars, outVars, svcVars, clVars
<1>1. ASSUME NEW p \in Pipes, Write(p) PROVE HandlerInv'
  <2>1. ReadersShape'
    BY <1>1 DEF Write, ReadersShape
  <2>2. DoneIsRead'
    BY <1>1 DEF Write, Writers, ReadersShape, DoneIsRead
  <2>3. LateSource' /\ WaiterTurns' /\ TrackedSince' /\ ShutMeans' /\ CutOrClosed'
    BY <1>1 DEF Write, LateSource, ReadersDone, WaiterTurns, TrackedSince, ShutMeans,
       CutOrClosed
  <2>4. QED
    BY <2>1, <2>2, <2>3
<1>2. CASE ProcExit
  <2>1. WaiterTurns'
    BY <1>2 DEF ProcExit, WaiterTurns
  <2>2. ShutMeans'
    BY <1>2 DEF ProcExit, ShutMeans
  <2>3. DoneIsRead'
    BY <1>2 DEF ProcExit, DoneIsRead, LateSource, ReadersDone, WaiterTurns, ShutMeans,
       CutOrClosed
  <2>4. ReadersShape' /\ LateSource' /\ TrackedSince' /\ CutOrClosed'
    BY <1>2 DEF ProcExit, ReadersShape, LateSource, ReadersDone, TrackedSince, CutOrClosed
  <2>5. QED
    BY <2>1, <2>2, <2>3, <2>4
<1>2a. CASE SpawnChild \/ ChildExit
  <2>1. DoneIsRead'
    BY <1>2a DEF SpawnChild, ChildExit, DoneIsRead
  <2>2. /\ ReadersShape' /\ LateSource' /\ WaiterTurns' /\ TrackedSince'
        /\ ShutMeans' /\ CutOrClosed'
    BY <1>2a DEF SpawnChild, ChildExit, ReadersShape, LateSource, ReadersDone, WaiterTurns,
       TrackedSince, ShutMeans, CutOrClosed
  <2>3. QED
    BY <2>1, <2>2
<1>3. CASE Timeout
  <2>1. WaiterTurns'
    BY <1>3 DEF Timeout, WaiterTurns
  <2>2. CutOrClosed'
    BY <1>3 DEF Timeout, CutOrClosed, WaiterTurns
  <2>3. DoneIsRead'
    BY <1>3 DEF Timeout, DoneIsRead, LateSource, ReadersDone, WaiterTurns, ShutMeans,
       CutOrClosed
  <2>4. ReadersShape' /\ LateSource' /\ TrackedSince' /\ ShutMeans'
    BY <1>3 DEF Timeout, ReadersShape, LateSource, ReadersDone, TrackedSince, ShutMeans
  <2>5. QED
    BY <2>1, <2>2, <2>3, <2>4
<1>4. ASSUME NEW sig \in {"SIGTERM", "SIGKILL"}, SendSignal(sig) PROVE HandlerInv'
  <2>1. WaiterTurns'
    BY <1>4 DEF SendSignal, WaiterTurns
  <2>2. CutOrClosed'
    BY <1>4 DEF SendSignal, CutOrClosed, WaiterTurns
  <2>3. DoneIsRead'
    BY <1>4 DEF SendSignal, DoneIsRead, LateSource, ReadersDone, WaiterTurns, ShutMeans,
       CutOrClosed
  <2>4. ReadersShape' /\ LateSource' /\ TrackedSince' /\ ShutMeans'
    BY <1>4 DEF SendSignal, ReadersShape, LateSource, ReadersDone, TrackedSince, ShutMeans
  <2>5. QED
    BY <2>1, <2>2, <2>3, <2>4
<1>5. CASE CloseOutput
  <2>1. LateSource'
    BY <1>5 DEF CloseOutput, Data!CloseSource, LateSource, ReadersDone
  <2>2. CutOrClosed'
    BY <1>5 DEF CloseOutput, Data!CloseSource, CutOrClosed, WaiterTurns
  <2>3. ReadersShape' /\ WaiterTurns' /\ TrackedSince' /\ ShutMeans' /\ DoneIsRead'
    BY <1>5 DEF CloseOutput, Data!CloseSource, ReadersShape, WaiterTurns, TrackedSince,
       ShutMeans, DoneIsRead
  <2>4. QED
    BY <2>1, <2>2, <2>3
<1>6. CASE OutCancel
  <2>1. WaiterTurns'
    BY <1>6 DEF OutCancel, WaiterTurns
  <2>2. CutOrClosed'
    BY <1>6 DEF OutCancel, CutOrClosed, WaiterTurns
  <2>3. ReadersShape' /\ LateSource' /\ TrackedSince' /\ ShutMeans' /\ DoneIsRead'
    BY <1>6 DEF OutCancel, ReadersShape, LateSource, ReadersDone, TrackedSince, ShutMeans,
       DoneIsRead
  <2>4. QED
    BY <2>1, <2>2, <2>3
<1>7. CASE AwaitOutput
  <2>1. WaiterTurns'
    BY <1>7 DEF AwaitOutput, WaiterTurns
  <2>2. TrackedSince'
    BY <1>7 DEF AwaitOutput, TrackedSince, WaiterTurns
  <2>3. ReadersShape' /\ LateSource' /\ ShutMeans' /\ CutOrClosed' /\ DoneIsRead'
    BY <1>7 DEF AwaitOutput, ReadersShape, LateSource, ReadersDone, ShutMeans, CutOrClosed,
       DoneIsRead
  <2>4. QED
    BY <2>1, <2>2, <2>3
<1>8. CASE CmdWait
  <2>1. WaiterTurns'
    BY <1>8 DEF CmdWait, WaiterTurns
  <2>2. TrackedSince'
    BY <1>8 DEF CmdWait, TrackedSince, WaiterTurns
  <2>3. ShutMeans'
    BY <1>8 DEF CmdWait, ShutMeans
  <2>4. DoneIsRead'
    BY <1>8 DEF CmdWait, DoneIsRead, LateSource, ReadersDone, WaiterTurns, ShutMeans,
       CutOrClosed
  <2>5. ReadersShape' /\ LateSource' /\ CutOrClosed'
    BY <1>8 DEF CmdWait, ReadersShape, LateSource, ReadersDone, CutOrClosed
  <2>6. QED
    BY <2>1, <2>2, <2>3, <2>4, <2>5
<1>9. CASE SendEnd
  <2>1. WaiterTurns'
    BY <1>9 DEF SendEnd, End!SendUnbuffered, WaiterTurns
  <2>2. TrackedSince'
    BY <1>9 DEF SendEnd, End!SendUnbuffered, TrackedSince, WaiterTurns
  <2>3. ReadersShape' /\ LateSource' /\ ShutMeans' /\ CutOrClosed' /\ DoneIsRead'
    BY <1>9 DEF SendEnd, End!SendUnbuffered, ReadersShape, LateSource, ReadersDone, ShutMeans,
       CutOrClosed, DoneIsRead
  <2>4. QED
    BY <2>1, <2>2, <2>3
<1>10. CASE Untrack
  <2>1. WaiterTurns'
    BY <1>10 DEF Untrack, WaiterTurns
  <2>2. TrackedSince'
    BY <1>10 DEF Untrack, TrackedSince, WaiterTurns
  <2>3. ReadersShape' /\ LateSource' /\ ShutMeans' /\ CutOrClosed' /\ DoneIsRead'
    BY <1>10 DEF Untrack, ReadersShape, LateSource, ReadersDone, ShutMeans, CutOrClosed,
       DoneIsRead
  <2>4. QED
    BY <2>1, <2>2, <2>3
<1>11. CASE StartProc
  <2>1. WaiterTurns'
    BY <1>11 DEF StartProc, WaiterTurns
  <2>2. TrackedSince'
    BY <1>11 DEF StartProc, TrackedSince, WaiterTurns
  <2>3. ShutMeans'
    BY <1>11 DEF StartProc, ShutMeans
  <2>4. DoneIsRead'
    BY <1>11 DEF StartProc, DoneIsRead, LateSource, ReadersDone, WaiterTurns, ShutMeans,
       CutOrClosed
  <2>5. ReadersShape' /\ LateSource' /\ CutOrClosed'
    BY <1>11 DEF StartProc, ReadersShape, LateSource, ReadersDone, CutOrClosed
  <2>6. QED
    BY <2>1, <2>2, <2>3, <2>4, <2>5
<1>12. CASE StartFails
  <2>1. WaiterTurns'
    BY <1>12 DEF StartFails, Data!Leave, End!Leave, Data!srcVars, End!srcVars, WaiterTurns
  <2>2. TrackedSince'
    BY <1>12 DEF StartFails, Data!Leave, End!Leave, Data!srcVars, End!srcVars, TrackedSince,
       WaiterTurns
  <2>3. ShutMeans'
    BY <1>12 DEF StartFails, Data!Leave, End!Leave, Data!srcVars, End!srcVars, ShutMeans
  <2>4. DoneIsRead'
    BY <1>12 DEF StartFails, Data!Leave, End!Leave, Data!srcVars, End!srcVars, DoneIsRead,
       LateSource, ReadersDone, WaiterTurns, ShutMeans, CutOrClosed
  <2>5. ReadersShape' /\ LateSource' /\ CutOrClosed'
    BY <1>12 DEF StartFails, Data!Leave, End!Leave, Data!srcVars, End!srcVars, ReadersShape,
       LateSource, ReadersDone, CutOrClosed
  <2>6. QED
    BY <2>1, <2>2, <2>3, <2>4, <2>5
<1>13. CASE Store
  <2>1. WaiterTurns'
    BY <1>13 DEF Store, WaiterTurns
  <2>2. TrackedSince'
    BY <1>13 DEF Store, TrackedSince, WaiterTurns
  <2>3. ShutMeans'
    BY <1>13 DEF Store, ShutMeans
  <2>4. DoneIsRead'
    BY <1>13 DEF Store, DoneIsRead, LateSource, ReadersDone, WaiterTurns, ShutMeans, CutOrClosed
  <2>5. ReadersShape' /\ LateSource' /\ CutOrClosed'
    BY <1>13 DEF Store, ReadersShape, LateSource, ReadersDone, CutOrClosed
  <2>6. QED
    BY <2>1, <2>2, <2>3, <2>4, <2>5
<1>14. CASE SendStart
  <2>1. WaiterTurns'
    BY <1>14 DEF SendStart, WaiterTurns
  <2>2. TrackedSince'
    BY <1>14 DEF SendStart, TrackedSince, WaiterTurns
  <2>3. ShutMeans'
    BY <1>14 DEF SendStart, ShutMeans
  <2>4. DoneIsRead'
    BY <1>14 DEF SendStart, DoneIsRead, LateSource, ReadersDone, WaiterTurns, ShutMeans,
       CutOrClosed
  <2>5. ReadersShape' /\ LateSource' /\ CutOrClosed'
    BY <1>14 DEF SendStart, ReadersShape, LateSource, ReadersDone, CutOrClosed
  <2>6. QED
    BY <2>1, <2>2, <2>3, <2>4, <2>5
<1>15. ASSUME NEW p \in Pipes, Read(p) PROVE HandlerInv'
  <2>1. ReadersShape'
    BY <1>15 DEF Read, ReadersShape
  <2>2. LateSource'
    BY <1>15 DEF Read, LateSource, ReadersDone
  <2>3. DoneIsRead'
    BY <1>15 DEF Read, DoneIsRead, LateSource, ReadersDone, WaiterTurns, ShutMeans, CutOrClosed
  <2>4. WaiterTurns' /\ TrackedSince' /\ ShutMeans' /\ CutOrClosed'
    BY <1>15 DEF Read, WaiterTurns, TrackedSince, ShutMeans, CutOrClosed
  <2>5. QED
    BY <2>1, <2>2, <2>3, <2>4
<1>16. ASSUME NEW p \in Pipes, Push(p) PROVE HandlerInv'
  <2>1. ReadersShape'
    BY <1>16 DEF Push, Data!Send, ReadersShape
  <2>2. LateSource'
    BY <1>16 DEF Push, Data!Send, LateSource, ReadersDone
  <2>3. DoneIsRead'
    BY <1>16 DEF Push, Data!Send, DoneIsRead, LateSource, ReadersDone, WaiterTurns, ShutMeans,
       CutOrClosed
  <2>4. WaiterTurns' /\ TrackedSince' /\ ShutMeans' /\ CutOrClosed'
    BY <1>16 DEF Push, Data!Send, WaiterTurns, TrackedSince, ShutMeans, CutOrClosed
  <2>5. QED
    BY <2>1, <2>2, <2>3, <2>4
<1>17. ASSUME NEW p \in Pipes, ReadEnd(p) PROVE HandlerInv'
  <2>1. ReadersShape'
    BY <1>17 DEF ReadEnd, ReadersShape
  <2>2. LateSource'
    BY <1>17 DEF ReadEnd, LateSource, ReadersDone
  <2>3. DoneIsRead'
    BY <1>17 DEF ReadEnd, DoneIsRead, LateSource, ReadersDone, WaiterTurns, ShutMeans,
       CutOrClosed
  <2>4. WaiterTurns' /\ TrackedSince' /\ ShutMeans' /\ CutOrClosed'
    BY <1>17 DEF ReadEnd, WaiterTurns, TrackedSince, ShutMeans, CutOrClosed
  <2>5. QED
    BY <2>1, <2>2, <2>3, <2>4
<1>18. CASE EndFanOut
  <2>1. WaiterTurns'
    BY <1>18 DEF EndFanOut, End!RLock, End!RUnlock, End!srcVars, WaiterTurns
  <2>2. /\ ReadersShape' /\ LateSource' /\ TrackedSince'
        /\ ShutMeans' /\ CutOrClosed' /\ DoneIsRead'
    BY <1>18 DEF EndFanOut, End!RLock, End!RUnlock, End!srcVars, ReadersShape, LateSource,
       ReadersDone, TrackedSince, ShutMeans, CutOrClosed, DoneIsRead
  <2>3. QED
    BY <2>1, <2>2
<1>19. ASSUME UNCHANGED handlerVars PROVE HandlerInv'
  BY <1>19 DEF handlerVars, ReadersShape, LateSource, ReadersDone, WaiterTurns, TrackedSince,
     ShutMeans, CutOrClosed, DoneIsRead
<1>20. ASSUME NEW c \in Clients, Connect(c) \/ ClientLeave(c) \/ Stream(c)
       PROVE  UNCHANGED handlerVars
  BY <1>20 DEF handlerVars, Connect, ClientLeave, Stream, ForkData, ForkEnd, Hello, ReceiveData,
     DataClosed, ReceiveEnd, Return, RemoveEnd, RemoveData, Data!Leave, End!Leave,
     Data!ForkCheck, Data!ForkAppend, End!ForkCheck, End!ForkAppend, Data!Deliver,
     Data!SeeClosed, End!Deliver, End!Remove, Data!Remove, Data!srcVars, End!srcVars
<1>21. CASE DataFanOut
  <2>1. UNCHANGED handlerVars
    BY <1>21 DEF handlerVars, DataFanOut, Data!FanOut, Data!Take, Data!RLock, Data!RUnlock,
       Data!Exit, Data!LoadLen, Data!LoadArray, Data!CloseNext, Data!CloseDone, Data!srcVars
  <2>2. QED
    BY <1>19, <2>1
<1>22. CASE UNCHANGED vars
  BY <1>19, <1>22 DEF vars, handlerVars
<1>23. QED
  BY <1>1, <1>2, <1>2a, <1>3, <1>4, <1>5, <1>6, <1>7, <1>8, <1>9, <1>10, <1>11, <1>12, <1>13,
     <1>14, <1>15, <1>16, <1>17, <1>18, <1>19, <1>20, <1>21, <1>22 DEF Next, Environment, Reader,
     Collector, Waiter
-----------------------------------------------------------------------------
(***************************************************************************)
(* The streams.                                                           *)
(***************************************************************************)
\* Where a stream may be that has had its EndEvent.
EndedAt == {"gotEnd", "rmEnd", "rmData", "returned"}

StreamShape ==
    cl \in [Clients -> {"idle", "forkData", "forkEnd", "start", "hello",
                        "data", "end"} \cup EndedAt]

\* Fork refuses a stream only after the fan-out of DataEvent has exited.
RefusedLate == \A c \in Clients : dSt[c] = "refused" => dExited

\* A stream gets its EndEvent once and then only returns.
GotEndAt == gotEnd \subseteq Clients /\ \A c \in gotEnd : cl[c] \in EndedAt

\* DataEvent is over for c, and c has had all of it since it attached.
HasAll(c) ==
    /\ dSrcClosed
    /\ dSt[c] # "refused" => dFrom[c] + Len(dReceived[c]) = dSent

\* A stream leaves its data loop only with all of DataEvent.
EndCarriesAll == \A c \in Clients : cl[c] = "end" \/ c \in gotEnd => HasAll(c)

\* EndEvent is sent after the process is reaped.
GotEndReaped == gotEnd # {} => proc = "reaped"

StreamInv ==
    /\ StreamShape /\ RefusedLate /\ GotEndAt
    /\ EndCarriesAll /\ GotEndReaped


\* No stream has an EndEvent to begin with.
LEMMA StreamInitial == Init => StreamInv
BY DEF Init, Data!Init, StreamInv, StreamShape, EndedAt, RefusedLate, GotEndAt, EndCarriesAll,
   GotEndReaped
\* A step that moves no stream: what the streams have stays as it is once Source
\* is closed.
LEMMA StreamQuiet ==
    ASSUME StreamInv, UNCHANGED <<cl, gotEnd, dSt, dFrom, dReceived>>,
           dSrcClosed => dSrcClosed' /\ dSent' = dSent, proc = "reaped" => proc' = "reaped",
           dExited => dExited'
    PROVE  StreamInv'
BY DEF StreamInv, StreamShape, RefusedLate, GotEndAt, EndCarriesAll, HasAll, GotEndReaped

\* A stream moves on, to anywhere but the wait for its EndEvent, and nobody
\* else does.
LEMMA StreamMoves ==
    ASSUME StreamInv, NEW c \in Clients,
           \E w \in {"forkData", "forkEnd", "start", "hello", "data", "rmEnd",
                     "rmData", "returned"} : cl' = [cl EXCEPT ![c] = w],
           cl[c] \in EndedAt => cl'[c] \in EndedAt,
           UNCHANGED <<gotEnd, proc, dSent, dSrcClosed, dExited>>,
           \A x \in Clients \ {c} : /\ dSt'[x] = dSt[x] /\ dFrom'[x] = dFrom[x]
                                    /\ dReceived'[x] = dReceived[x],
           dSt'[c] = "refused" => dExited,
           c \in gotEnd => /\ dFrom'[c] = dFrom[c] /\ dReceived'[c] = dReceived[c]
                           /\ dSt[c] = "refused" => dSt'[c] = "refused"
    PROVE  StreamInv'
<1> USE DEF StreamInv
<1>1. StreamShape'
  BY DEF StreamShape, EndedAt
<1>2. \A x \in Clients \ {c} : cl'[x] = cl[x]
  BY DEF StreamShape
<1>2a. cl'[c] # "end"
  BY DEF StreamShape
<1>3. RefusedLate'
  BY DEF RefusedLate
<1>4. GotEndAt'
  BY <1>2 DEF GotEndAt
<1>5. ASSUME NEW x \in Clients, cl'[x] = "end" \/ x \in gotEnd' PROVE HasAll(x)'
  <2>1. CASE x = c
    BY <1>2a, <1>5, <2>1 DEF EndCarriesAll, HasAll
  <2>2. CASE x # c
    BY <1>2, <1>5, <2>2 DEF EndCarriesAll, HasAll
  <2>3. QED
    BY <2>1, <2>2
<1>6. EndCarriesAll'
  BY <1>5 DEF EndCarriesAll
<1>7. GotEndReaped'
  BY DEF GotEndReaped
<1>8. QED
  BY <1>1, <1>3, <1>4, <1>6, <1>7
\* One step per action; DataClosed and ReceiveEnd are the ones that extend what
\* has to hold.
LEMMA StreamStep == ASSUME ChannelsInv, HandlerInv, StreamInv, [Next]_vars PROVE StreamInv'
<1> USE DEF dVars, eVars, procVars, outVars, svcVars, clVars
<1>1. ASSUME NEW p \in Pipes, Write(p) \/ Reader(p) PROVE StreamInv'
  BY <1>1, StreamQuiet DEF Write, Reader, Read, Push, ReadEnd, Data!Send, Data!consVars,
     Data!closeVars
<1>2. CASE ProcExit \/ SpawnChild \/ ChildExit \/ Timeout
            \/ \E sig \in {"SIGTERM", "SIGKILL"} : SendSignal(sig)
  BY <1>2, StreamQuiet DEF ProcExit, SpawnChild, ChildExit, Timeout, SendSignal
<1>3. CASE Collector
  BY <1>3, StreamQuiet DEF Collector, CloseOutput, OutCancel, Data!CloseSource, Data!consVars,
     Data!closeVars
<1>4. CASE Waiter \/ EndFanOut
  BY <1>4, StreamQuiet DEF Waiter, AwaitOutput, CmdWait, SendEnd, Untrack, EndFanOut
<1>5. CASE DataFanOut
  BY <1>5, StreamQuiet DEF DataFanOut, Data!FanOut, Data!Take, Data!RLock, Data!RUnlock,
     Data!Exit, Data!LoadLen, Data!LoadArray, Data!CloseNext, Data!CloseDone, Data!srcVars,
     Data!closeVars, Data!consVars
<1>6. CASE StartProc \/ Store
  BY <1>6, StreamQuiet DEF StartProc, Store
<1>7. Starter \in Clients
  BY DEF Clients
<1>8. /\ dSt \in [Clients -> DP!ConsStates] /\ dFrom \in [Clients -> Nat]
      /\ dReceived \in [Clients -> Seq(Nat)]
  BY DEF ChannelsInv, DP!IInv, DP!TypeOK, DP!ConsumersOK
<1>8a. dExited => dSrcClosed
  BY DEF ChannelsInv, DP!IInv, DP!FanControl
<1>8b. ASSUME NEW c \in Clients, cl[c] \notin EndedAt PROVE c \notin gotEnd
  BY <1>8b DEF StreamInv, GotEndAt
<1>8c. ASSUME NEW c \in Clients, dSt[c] = "refused" PROVE dExited
  BY <1>8c DEF StreamInv, RefusedLate
<1> HIDE DEF dVars, eVars, procVars, outVars, svcVars, clVars
<1>9. ASSUME NEW c \in Clients, dSt[c] = "reading", Data!Leave(c)
      PROVE  /\ UNCHANGED <<dFrom, dReceived, dSent, dSrcClosed, dExited>>
             /\ \A x \in Clients \ {c} : dSt'[x] = dSt[x]
             /\ dSt'[c] = "leaving"
  BY <1>8, <1>9 DEF Data!Leave, Data!srcVars, Data!closeVars
<1>10. CASE StartFails
  <2>1. CASE cl[Starter] = "start"
    <3>1. Data!Leave(Starter) /\ Goto(Starter, "rmEnd") /\ UNCHANGED <<procVars, gotEnd>>
      BY <1>10, <2>1 DEF StartFails
    <3>2. dSt[Starter] = "reading" /\ cl'[Starter] = "rmEnd" /\ Starter \notin gotEnd
      BY <1>7, <1>8b, <2>1, <3>1 DEF Data!Leave, Goto, StreamInv, StreamShape, EndedAt
    <3>3. QED
      BY <1>7, <1>9, <3>1, <3>2, StreamMoves DEF Goto, procVars, EndedAt
  <2>2. CASE cl[Starter] # "start"
    BY <1>10, <2>2, StreamQuiet DEF StartFails, procVars, dVars
  <2>3. QED
    BY <2>1, <2>2
<1>11. CASE SendStart
  <2>1. /\ cl[Starter] = "start" /\ Goto(Starter, "data")
        /\ UNCHANGED <<dVars, procVars, gotEnd>>
    BY <1>11 DEF SendStart
  <2>2. cl'[Starter] = "data" /\ Starter \notin gotEnd
    BY <1>7, <1>8b, <2>1 DEF Goto, StreamInv, StreamShape, EndedAt
  <2>3. QED
    BY <1>7, <1>8c, <2>1, <2>2, StreamMoves DEF Goto, dVars, procVars, EndedAt
<1>12. ASSUME NEW c \in Clients, Connect(c) \/ Hello(c) PROVE StreamInv'
  <2>1. /\ cl[c] \in {"idle", "hello"}
        /\ (Goto(c, "forkData") \/ Goto(c, "data"))
        /\ UNCHANGED <<dVars, procVars, gotEnd>>
    BY <1>12 DEF Connect, Hello
  <2>2. cl'[c] \in {"forkData", "data"} /\ c \notin gotEnd
    BY <1>8b, <2>1 DEF Goto, StreamInv, StreamShape, EndedAt
  <2>3. QED
    BY <1>8c, <2>1, <2>2, StreamMoves DEF Goto, dVars, procVars, EndedAt
<1>13. ASSUME NEW c \in Clients, ClientLeave(c) PROVE StreamInv'
  <2>1. /\ cl[c] \in {"start", "hello", "data", "end"} /\ Goto(c, "rmEnd")
        /\ UNCHANGED <<procVars, gotEnd>>
    BY <1>13 DEF ClientLeave
  <2>2. cl'[c] = "rmEnd" /\ c \notin gotEnd
    BY <1>8b, <2>1 DEF Goto, StreamInv, StreamShape, EndedAt
  <2>3. CASE dSt[c] = "reading"
    <3>1. Data!Leave(c)
      BY <1>13, <2>3 DEF ClientLeave
    <3>2. QED
      BY <1>9, <2>1, <2>2, <2>3, <3>1, StreamMoves DEF Goto, procVars, EndedAt
  <2>4. CASE dSt[c] # "reading"
    <3>1. UNCHANGED dVars
      BY <1>13, <2>4 DEF ClientLeave
    <3>2. QED
      BY <1>8c, <2>1, <2>2, <3>1, StreamMoves DEF Goto, dVars, procVars, EndedAt
  <2>5. QED
    BY <2>3, <2>4
<1>14. ASSUME NEW c \in Clients, ForkData(c) PROVE StreamInv'
  <2>1. /\ cl[c] = "forkData" /\ (Goto(c, "forkData") \/ Goto(c, "forkEnd"))
        /\ UNCHANGED <<procVars, gotEnd>>
    BY <1>14 DEF ForkData
  <2>2. cl'[c] \in {"forkData", "forkEnd"} /\ c \notin gotEnd
    BY <1>8b, <2>1 DEF Goto, StreamInv, StreamShape, EndedAt
  <2>3. CASE Data!ForkCheck(c)
    <3>1. /\ UNCHANGED <<dFrom, dReceived, dSent, dSrcClosed, dExited>>
          /\ \A x \in Clients \ {c} : dSt'[x] = dSt[x]
          /\ dSt'[c] = "refused" => dExited
      BY <1>8, <1>8a, <2>3 DEF Data!ForkCheck, Data!srcVars, Data!closeVars
    <3>2. QED
      BY <2>1, <2>2, <3>1, StreamMoves DEF Goto, procVars, EndedAt
  <2>4. CASE Data!ForkAppend(c)
    <3>1. /\ UNCHANGED <<dReceived, dSent, dSrcClosed, dExited>>
          /\ \A x \in Clients \ {c} : dSt'[x] = dSt[x] /\ dFrom'[x] = dFrom[x]
          /\ dSt'[c] = "reading"
      BY <1>8, <2>4 DEF Data!ForkAppend, Data!srcVars, Data!closeVars
    <3>2. QED
      BY <2>1, <2>2, <3>1, StreamMoves DEF Goto, procVars, EndedAt
  <2>5. QED
    BY <1>14, <2>3, <2>4 DEF ForkData
<1>15. ASSUME NEW c \in Clients, ForkEnd(c) PROVE StreamInv'
  <2>1. /\ cl[c] = "forkEnd"
        /\ (Goto(c, "forkEnd") \/ Goto(c, "start") \/ Goto(c, "hello"))
        /\ UNCHANGED <<dVars, procVars, gotEnd>>
    BY <1>15 DEF ForkEnd
  <2>2. cl'[c] \in {"forkEnd", "start", "hello"} /\ c \notin gotEnd
    BY <1>8b, <2>1 DEF Goto, StreamInv, StreamShape, EndedAt
  <2>3. QED
    BY <1>8c, <2>1, <2>2, StreamMoves DEF Goto, dVars, procVars, EndedAt
<1>16. ASSUME NEW c \in Clients, ReceiveData(c) PROVE StreamInv'
  <2>1. cl[c] = "data" /\ UNCHANGED <<cl, gotEnd, proc>> /\ Data!Deliver(c)
    BY <1>16 DEF ReceiveData, clVars, procVars
  <2>2. cl' = [cl EXCEPT ![c] = "data"] /\ c \notin gotEnd
    BY <1>8b, <2>1 DEF StreamInv, StreamShape, EndedAt
  <2>3. /\ UNCHANGED <<dSt, dFrom, dSent, dSrcClosed, dExited>> /\ dSt[c] = "reading"
        /\ \A x \in Clients \ {c} : dReceived'[x] = dReceived[x]
    BY <1>8, <2>1 DEF Data!Deliver, Data!srcVars, Data!closeVars
  <2>4. QED
    BY <2>1, <2>2, <2>3, StreamMoves DEF EndedAt
<1>17. ASSUME NEW c \in Clients, Return(c) \/ RemoveEnd(c) PROVE StreamInv'
  <2>1. /\ cl[c] \in {"gotEnd", "rmEnd"}
        /\ (Goto(c, "rmEnd") \/ Goto(c, "rmData"))
        /\ UNCHANGED <<dVars, procVars, gotEnd>>
    BY <1>17 DEF Return, RemoveEnd
  <2>2. cl'[c] \in EndedAt
    BY <2>1 DEF Goto, StreamInv, StreamShape, EndedAt
  <2>3. QED
    BY <1>8c, <2>1, <2>2, StreamMoves DEF Goto, dVars, procVars, EndedAt
<1>18. ASSUME NEW c \in Clients, RemoveData(c) PROVE StreamInv'
  <2>1. cl[c] = "rmData" /\ Goto(c, "returned") /\ UNCHANGED <<procVars, gotEnd>>
    BY <1>18 DEF RemoveData
  <2>2. cl'[c] \in EndedAt
    BY <2>1 DEF Goto, StreamInv, StreamShape, EndedAt
  <2>3. CASE dSt[c] = "refused"
    <3>1. UNCHANGED dVars
      BY <1>18, <2>3 DEF RemoveData
    <3>2. QED
      BY <1>8c, <2>1, <2>2, <3>1, StreamMoves DEF Goto, dVars, procVars, EndedAt
  <2>4. CASE dSt[c] # "refused"
    <3>1. /\ UNCHANGED <<dFrom, dReceived, dSent, dSrcClosed, dExited>>
          /\ \A x \in Clients \ {c} : dSt'[x] = dSt[x]
          /\ dSt'[c] = "gone"
      BY <1>8, <1>18, <2>4 DEF RemoveData, Data!Remove, Data!srcVars, Data!closeVars
    <3>2. QED
      BY <2>1, <2>2, <2>4, <3>1, StreamMoves DEF Goto, procVars, EndedAt
  <2>5. QED
    BY <2>3, <2>4
<1>19. ASSUME NEW c \in Clients, DataClosed(c) PROVE StreamInv'
  <2>1. cl[c] = "data" /\ Goto(c, "end") /\ UNCHANGED <<procVars, gotEnd>>
    BY <1>19 DEF DataClosed
  <2>2. /\ UNCHANGED <<dFrom, dReceived, dSent, dSrcClosed, dExited>>
        /\ \A x \in Clients \ {c} : dSt'[x] = dSt[x]
        /\ dSt[c] = "refused" \/ (dSt[c] = "reading" /\ c \in dClosed /\ dSt'[c] = "drained")
        /\ dSt[c] = "refused" => dSt'[c] = "refused"
    BY <1>8, <1>19 DEF DataClosed, Data!SeeClosed, Data!srcVars, Data!closeVars, dVars
  <2>3. HasAll(c)
    <3>1. CASE dSt[c] = "refused"
      BY <1>8a, <1>8c, <3>1 DEF HasAll
    <3>2. CASE dSt[c] = "reading" /\ c \in dClosed
      BY <3>2, DP!ClosedHasAll, ClientsAssumption, OutAssumption DEF HasAll, ChannelsInv,
         DP!Attached
    <3>3. QED
      BY <2>2, <3>1, <3>2
  <2>4. /\ c \notin gotEnd /\ cl'[c] = "end" /\ StreamShape'
        /\ \A x \in Clients \ {c} : cl'[x] = cl[x]
    BY <1>8b, <2>1 DEF Goto, StreamInv, StreamShape, EndedAt
  <2>5. RefusedLate' /\ GotEndAt' /\ GotEndReaped'
    BY <1>8c, <2>1, <2>2, <2>4 DEF StreamInv, RefusedLate, GotEndAt, GotEndReaped, procVars
  <2>6. ASSUME NEW x \in Clients, cl'[x] = "end" \/ x \in gotEnd' PROVE HasAll(x)'
    <3>1. CASE x = c
      BY <2>2, <2>3, <3>1 DEF HasAll
    <3>2. CASE x # c
      BY <2>1, <2>2, <2>4, <2>6, <3>2 DEF HasAll, StreamInv, EndCarriesAll
    <3>3. QED
      BY <3>1, <3>2
  <2>7. QED
    BY <2>4, <2>5, <2>6 DEF StreamInv, EndCarriesAll
<1>20. ASSUME NEW c \in Clients, ReceiveEnd(c) PROVE StreamInv'
  <2>1. /\ cl[c] = "end" /\ Goto(c, "gotEnd") /\ UNCHANGED <<dVars, procVars>>
        /\ gotEnd' = gotEnd \cup {c} /\ ePc = "send"
    BY <1>20 DEF ReceiveEnd, End!Deliver
  <2>2. cl'[c] = "gotEnd" /\ StreamShape' /\ \A x \in Clients \ {c} : cl'[x] = cl[x]
    BY <2>1 DEF Goto, StreamInv, StreamShape, EndedAt
  <2>3. proc = "reaped"
    BY <2>1 DEF HandlerInv, WaiterTurns
  <2>4. RefusedLate' /\ GotEndReaped'
    BY <2>1, <2>3 DEF StreamInv, RefusedLate, GotEndReaped, procVars, dVars
  <2>5. GotEndAt'
    BY <2>1, <2>2 DEF StreamInv, GotEndAt, EndedAt
  <2>6. EndCarriesAll'
    BY <2>1, <2>2 DEF StreamInv, EndCarriesAll, HasAll, dVars
  <2>7. QED
    BY <2>2, <2>4, <2>5, <2>6 DEF StreamInv
<1>21. CASE UNCHANGED vars
  BY <1>21, StreamQuiet DEF vars, dVars, clVars, procVars
<1>22. QED
  BY <1>1, <1>2, <1>3, <1>4, <1>5, <1>6, <1>10, <1>11, <1>12, <1>13, <1>14, <1>15, <1>16, <1>17,
     <1>18, <1>19, <1>20, <1>21 DEF Next, Environment, Stream

ProcessInv == ChannelsInv /\ HandlerInv /\ StreamInv

\* The three together are inductive.
THEOREM ProcessInvariant == Spec => []ProcessInv
<1>1. Init => ProcessInv
  BY ChannelsInitial, HandlerInitial, StreamInitial DEF ProcessInv
<1>2. ProcessInv /\ [Next]_vars => ProcessInv'
  BY ChannelsStep, HandlerStep, StreamStep DEF ProcessInv
<1>3. QED
  BY <1>1, <1>2, PTL DEF Spec

\* A stream that carries an EndEvent has carried before it every DataEvent sent
\* since it attached, and the process is reaped, however it was stopped
\* (start.go:142-204, connect.go:55-117, handler.go:333-339, 446-472).
THEOREM EndComesLast == Spec => []EndIsLast
<1>1. ProcessInv => EndIsLast
  BY DEF ProcessInv, HandlerInv, LateSource, StreamInv, GotEndAt, EndCarriesAll,
         HasAll, GotEndReaped, EndIsLast
<1>2. QED
  BY <1>1, ProcessInvariant, PTL

\* No reader sends on a closed Source, which would crash the agent
\* (handler.go:256, 298 against 336).
THEOREM NoLateSend == Spec => []NoSendOnClosed
<1>1. ProcessInv => NoSendOnClosed
  BY DEF ProcessInv, HandlerInv, LateSource, ReadersDone, NoSendOnClosed
<1>2. QED
  BY <1>1, ProcessInvariant, PTL

\* A process can be found from Store until its EndEvent is out
\* (start.go:212-224).
THEOREM FoundUntilEnd == Spec => []TrackedUntilEnd
<1>1. ProcessInv => TrackedUntilEnd
  BY DEF ProcessInv, HandlerInv, WaiterTurns, TrackedSince, TrackedUntilEnd
<1>2. QED
  BY <1>1, ProcessInvariant, PTL
-----------------------------------------------------------------------------
(***************************************************************************)
(* The chunks on their way from the process to Source.                    *)
(***************************************************************************)
\* The chunks written and not yet sent: those in a pipe, numbered from one, and
\* the one a reader holds, numbered zero.
Unsent ==
    {x \in Pipes \X Nat :
        IF x[2] = 0 THEN rd[x[1]] = "holding" ELSE x[2] <= pipe[x[1]]}

CountersShape == written \in Nat /\ dSent \in Nat

\* Every chunk written is sent or on its way, and none is sent twice.
Counted == IsFiniteSet(Unsent) /\ written = dSent + Cardinality(Unsent)

OutputInv == CountersShape /\ Counted


\* Nothing is written to begin with.
LEMMA OutputInitial == Init => OutputInv
<1> SUFFICES ASSUME Init PROVE OutputInv
  OBVIOUS
<1>1. CountersShape /\ written = 0 /\ dSent = 0
  BY DEF Init, CountersShape, Data!Init
<1>2. Unsent = {}
  BY DEF Init, Unsent
<1>3. QED
  BY <1>1, <1>2, FS_EmptySet DEF OutputInv, Counted
\* A step that touches no pipe, no reader and no counter.
LEMMA OutputQuiet == ASSUME OutputInv, UNCHANGED <<pipe, rd, written, dSent>> PROVE OutputInv'
BY DEF OutputInv, CountersShape, Counted, Unsent
\* A finite set with one more element.
LEMMA Added == ASSUME NEW S, NEW T, NEW x, IsFiniteSet(S), x \notin S, T = S \cup {x}
               PROVE IsFiniteSet(T) /\ Cardinality(T) = Cardinality(S) + 1
BY FS_AddElement
\* A finite set with one element less.
LEMMA Dropped == ASSUME NEW S, NEW T, NEW x, IsFiniteSet(S), x \notin T, S = T \cup {x}
               PROVE IsFiniteSet(T) /\ Cardinality(T) = Cardinality(S) - 1
<1>1. IsFiniteSet(T)
  BY FS_Subset
<1>2. QED
  BY <1>1, FS_AddElement, FS_CardinalityType
\* Write adds a chunk, Read takes it from its pipe to its reader, Push sends it.
LEMMA OutputStep == ASSUME HandlerInv, OutputInv, [Next]_vars PROVE OutputInv'
<1> USE DEF dVars, eVars, procVars, outVars, svcVars, clVars
<1>0. /\ rd \in [Pipes -> {"reading", "holding", "done"}] /\ pipe \in [Pipes -> Nat]
      /\ written \in Nat /\ dSent \in Nat /\ IsFiniteSet(Unsent)
      /\ written = dSent + Cardinality(Unsent) /\ Cardinality(Unsent) \in Nat
  BY FS_CardinalityType DEF HandlerInv, ReadersShape, OutputInv, CountersShape, Counted
<1>1. ASSUME NEW p \in Pipes, Write(p) PROVE OutputInv'
  <2>1. /\ written' = written + 1 /\ pipe' = [pipe EXCEPT ![p] = pipe[p] + 1]
        /\ rd' = rd /\ dSent' = dSent
    BY <1>1 DEF Write
  <2>2. CountersShape'
    BY <1>0, <2>1 DEF CountersShape
  <2>3. <<p, pipe[p] + 1>> \notin Unsent
    BY <1>0 DEF Unsent
  <2>4. Unsent' = Unsent \cup {<<p, pipe[p] + 1>>}
    BY <1>0, <2>1 DEF Unsent
  <2>5. IsFiniteSet(Unsent') /\ Cardinality(Unsent') = Cardinality(Unsent) + 1
    BY <1>0, <2>3, <2>4, Added
  <2>6. QED
    BY <1>0, <2>1, <2>2, <2>5 DEF OutputInv, Counted
<1>2. ASSUME NEW p \in Pipes, Read(p) PROVE OutputInv'
  <2>1. /\ pipe' = [pipe EXCEPT ![p] = pipe[p] - 1]
        /\ rd' = [rd EXCEPT ![p] = "holding"] /\ dSent' = dSent /\ pipe[p] > 0
        /\ rd[p] = "reading" /\ written' = written
    BY <1>2 DEF Read
  <2>2. CountersShape'
    BY <1>0, <2>1 DEF CountersShape
  <2> DEFINE M == Unsent \ {<<p, pipe[p]>>}
  <2>3. <<p, pipe[p]>> \notin M /\ Unsent = M \cup {<<p, pipe[p]>>}
    BY <1>0, <2>1 DEF Unsent
  <2>4. <<p, 0>> \notin M /\ Unsent' = M \cup {<<p, 0>>}
    BY <1>0, <2>1 DEF Unsent
  <2> HIDE DEF M
  <2>5. IsFiniteSet(M) /\ Cardinality(M) = Cardinality(Unsent) - 1
    BY <1>0, <2>3, Dropped
  <2>6. IsFiniteSet(Unsent') /\ Cardinality(Unsent') = Cardinality(M) + 1
    BY <2>4, <2>5, Added
  <2>7. QED
    BY <1>0, <2>1, <2>2, <2>5, <2>6 DEF OutputInv, Counted
<1>3. ASSUME NEW p \in Pipes, Push(p) PROVE OutputInv'
  <2>1. /\ pipe' = pipe /\ rd' = [rd EXCEPT ![p] = "reading"]
        /\ dSent' = dSent + 1 /\ rd[p] = "holding" /\ written' = written
    BY <1>3 DEF Push, Data!Send
  <2>2. CountersShape'
    BY <1>0, <2>1 DEF CountersShape
  <2>3. <<p, 0>> \notin Unsent' /\ Unsent = Unsent' \cup {<<p, 0>>}
    BY <1>0, <2>1 DEF Unsent
  <2>4. IsFiniteSet(Unsent') /\ Cardinality(Unsent') = Cardinality(Unsent) - 1
    BY <1>0, <2>3, Dropped
  <2>5. QED
    BY <1>0, <2>1, <2>2, <2>4 DEF OutputInv, Counted
<1>4. ASSUME NEW p \in Pipes, ReadEnd(p) PROVE OutputInv'
  <2>1. /\ pipe' = pipe /\ rd' = [rd EXCEPT ![p] = "done"] /\ dSent' = dSent
        /\ rd[p] = "reading" /\ written' = written
    BY <1>4 DEF ReadEnd
  <2>2. Unsent' = Unsent
    BY <1>0, <2>1 DEF Unsent
  <2>3. QED
    BY <1>0, <2>1, <2>2 DEF OutputInv, Counted, CountersShape
<1>5. CASE ProcExit \/ SpawnChild \/ ChildExit \/ Timeout
            \/ \E sig \in {"SIGTERM", "SIGKILL"} : SendSignal(sig)
  BY <1>5, OutputQuiet DEF ProcExit, SpawnChild, ChildExit, Timeout, SendSignal
<1>6. CASE Collector
  BY <1>6, OutputQuiet DEF Collector, CloseOutput, OutCancel, Data!CloseSource
<1>7. CASE Waiter \/ EndFanOut \/ StartProc \/ Store \/ SendStart
  BY <1>7, OutputQuiet DEF Waiter, AwaitOutput, CmdWait, SendEnd, Untrack, EndFanOut, StartProc,
     Store, SendStart
<1>8. CASE DataFanOut
  BY <1>8, OutputQuiet DEF DataFanOut, Data!FanOut, Data!Take, Data!RLock, Data!RUnlock,
     Data!Exit, Data!LoadLen, Data!LoadArray, Data!CloseNext, Data!CloseDone, Data!srcVars
<1>9. CASE StartFails
  BY <1>9, OutputQuiet DEF StartFails, Data!Leave, Data!srcVars
<1>10. ASSUME NEW c \in Clients, Connect(c) \/ ClientLeave(c) \/ Stream(c) PROVE OutputInv'
  <2>1. UNCHANGED <<pipe, rd, written, dSent>>
    BY <1>10 DEF Connect, ClientLeave, Stream, ForkData, ForkEnd, Hello, ReceiveData,
       DataClosed, ReceiveEnd, Return, RemoveEnd, RemoveData, Data!Leave, Data!ForkCheck,
       Data!ForkAppend, Data!Deliver, Data!SeeClosed, Data!Remove, Data!srcVars
  <2>2. QED
    BY <2>1, OutputQuiet
<1>11. CASE UNCHANGED vars
  BY <1>11, OutputQuiet DEF vars
<1>12. QED
  BY <1>1, <1>2, <1>3, <1>4, <1>5, <1>6, <1>7, <1>8, <1>9, <1>10, <1>11 DEF Next, Environment,
     Reader

\* Unless the output is cut off, everything the process wrote has been sent on
\* Source when its pipes are closed (handler.go:333-339, 446-450).
THEOREM AllIsSent == Spec => []NothingUnread
<1>1. Spec => []OutputInv
  <2>1. HandlerInv /\ OutputInv /\ [Next]_vars => OutputInv'
    BY OutputStep
  <2>2. ProcessInv => HandlerInv
    BY DEF ProcessInv
  <2>3. QED
    BY <2>1, <2>2, OutputInitial, ProcessInvariant, PTL DEF Spec
<1>2. ProcessInv /\ OutputInv => NothingUnread
  <2> SUFFICES ASSUME ProcessInv, OutputInv, pipesShut, proc = "reaped", ~cut
               PROVE  dSent = written /\ \A p \in Pipes : pipe[p] = 0 /\ rd[p] = "done"
    BY DEF NothingUnread
  <2>1. \A p \in Pipes : rd[p] = "done"
    BY DEF ProcessInv, HandlerInv, WaiterTurns, CutOrClosed, LateSource, ReadersDone
  <2>2. \A p \in Pipes : pipe[p] = 0
    BY <2>1 DEF ProcessInv, HandlerInv, DoneIsRead
  <2>3. Unsent = {}
    BY <2>1, <2>2 DEF Unsent
  <2>4. dSent = written
    BY <2>3, FS_EmptySet DEF OutputInv, Counted, CountersShape
  <2>5. QED
    BY <2>1, <2>2, <2>4
<1>3. QED
  BY <1>1, <1>2, ProcessInvariant, PTL
-----------------------------------------------------------------------------
(***************************************************************************)
(* The two knots.                                                         *)
(***************************************************************************)
\* An entangled Connect is not undone: the stream being sent the data waits for
\* the lock of EndEvent, the one being sent the EndEvent waits for data, and if
\* the latter gives up EndEvent is wedged on it.
LEMMA EntangledStays == ASSUME ProcessInv, [Next]_vars, Entangled PROVE Entangled' \/ End!Wedged'
<1> DEFINE x == dArray[dK]
           y == eArray[eK]
<1>1. /\ dPc = "send" /\ dK <= dLen /\ cl[x] = "forkEnd" /\ x \in Clients
      /\ ~dExited /\ dClosed = {}
  BY DEF Entangled, ProcessInv, ChannelsInv, DP!IInv, DP!Membership, DP!FanControl, DP!ClosePcs,
         DP!TypeOK, DP!CountersOK, DP!SliceOK
<1>2. /\ ePc = "send" /\ eK <= eLen /\ cl[y] = "data" /\ y \in Clients /\ ~eExited
  BY DEF Entangled, ProcessInv, ChannelsInv, EP!IInv, EP!Membership, EP!FanControl, EP!ClosePcs,
         EP!TypeOK, EP!CountersOK, EP!SliceOK
<1>3. /\ DOMAIN cl = Clients /\ cl = [c \in Clients |-> cl[c]]
      /\ eSt \in [Clients -> EP!ConsStates]
      /\ dLen \in Nat /\ dK \in Nat /\ eLen \in Nat /\ eK \in Nat
  BY DEF ProcessInv, StreamInv, StreamShape, ChannelsInv, DP!IInv, EP!IInv, EP!TypeOK,
     EP!ConsumersOK, DP!TypeOK, DP!CountersOK, DP!SliceOK, EP!CountersOK, EP!SliceOK
<1>4. \A c \in Clients : dSt[c] # "refused"
  BY <1>1 DEF ProcessInv, StreamInv, RefusedLate
<1>5. ASSUME UNCHANGED <<dPc, dK, dLen, dArray, ePc, eK, eLen, eArray>>,
             cl'[x] = cl[x], cl'[y] = cl[y]
      PROVE  Entangled'
  BY <1>1, <1>2, <1>5 DEF Entangled
<1> HIDE DEF x, y
<1> USE DEF Data!sliceVars, End!sliceVars, eVars, dVars
<1>6. ASSUME NEW p \in Pipes, Write(p) \/ Reader(p) PROVE Entangled'
  BY <1>5, <1>6 DEF Write, Reader, Read, Push, ReadEnd, Data!Send, clVars
<1>7. CASE \/ ProcExit \/ SpawnChild \/ ChildExit \/ Timeout \/ Collector \/ StartProc \/ Store
           \/ \E sig \in {"SIGTERM", "SIGKILL"} : SendSignal(sig)
  BY <1>5, <1>7 DEF ProcExit, SpawnChild, ChildExit, Timeout, SendSignal, Collector,
     CloseOutput, OutCancel,
     Data!CloseSource, StartProc, Store, clVars
<1>8. CASE Waiter
  BY <1>2, <1>5, <1>8 DEF Waiter, AwaitOutput, CmdWait, SendEnd, Untrack, End!SendUnbuffered,
     clVars
<1>9. CASE DataFanOut \/ EndFanOut
  BY <1>1, <1>2, <1>3, <1>9 DEF DataFanOut, Data!FanOut, Data!Take, Data!RLock, Data!RUnlock,
     Data!Exit, Data!LoadLen, Data!LoadArray, Data!CloseNext, Data!CloseDone, EndFanOut,
     End!RLock, End!RUnlock
<1>10. ASSUME NEW c \in Clients, NEW w, cl[c] \notin {"forkEnd", "data"},
              Goto(c, w)
       PROVE  cl'[x] = cl[x] /\ cl'[y] = cl[y]
  BY <1>1, <1>2, <1>3, <1>10 DEF Goto
<1>11. CASE StartFails
  <2>1. UNCHANGED <<dPc, dK, dLen, dArray, ePc, eK, eLen, eArray>>
    BY <1>11 DEF StartFails, Data!Leave, End!Leave
  <2>2. cl'[x] = cl[x] /\ cl'[y] = cl[y]
    BY <1>10, <1>11 DEF StartFails, Clients
  <2>3. QED
    BY <1>5, <2>1, <2>2
<1>12. CASE SendStart
  <2>1. cl'[x] = cl[x] /\ cl'[y] = cl[y]
    BY <1>10, <1>12 DEF SendStart, Clients
  <2>2. QED
    BY <1>5, <1>12, <2>1 DEF SendStart
<1>13. ASSUME NEW c \in Clients, Connect(c) \/ Hello(c) PROVE Entangled'
  <2>1. cl'[x] = cl[x] /\ cl'[y] = cl[y]
    BY <1>10, <1>13 DEF Connect, Hello
  <2>2. QED
    BY <1>5, <1>13, <2>1 DEF Connect, Hello
<1>14. ASSUME NEW c \in Clients, Return(c) PROVE Entangled'
  <2>1. cl'[x] = cl[x] /\ cl'[y] = cl[y]
    BY <1>10, <1>14 DEF Return
  <2>2. QED
    BY <1>5, <1>14, <2>1 DEF Return, End!Leave
<1>15. ASSUME NEW c \in Clients, ForkData(c) PROVE Entangled'
  <2>1. cl'[x] = cl[x] /\ cl'[y] = cl[y]
    BY <1>10, <1>15 DEF ForkData
  <2>2. QED
    BY <1>1, <1>5, <1>15, <2>1 DEF ForkData, Data!ForkCheck, Data!ForkAppend, Data!LockFree
<1>16. ASSUME NEW c \in Clients, ForkEnd(c) PROVE Entangled'
  <2>1. cl[c] = "forkEnd" /\ End!ForkCheck(c)
    BY <1>2, <1>16 DEF ForkEnd, End!ForkAppend, End!LockFree
  <2>2. eSt'[c] = "checked"
    BY <1>2, <1>3, <2>1 DEF End!ForkCheck
  <2>3. cl'[x] = cl[x] /\ cl'[y] = cl[y]
    BY <1>1, <1>2, <1>3, <1>16, <2>1, <2>2 DEF ForkEnd, Goto
  <2>4. QED
    BY <1>5, <1>16, <2>1, <2>3 DEF ForkEnd, End!ForkCheck
<1>17. ASSUME NEW c \in Clients, ReceiveData(c) \/ DataClosed(c) \/
              ReceiveEnd(c) \/ RemoveEnd(c)
       PROVE  FALSE
  BY <1>1, <1>2, <1>4, <1>17 DEF x, y, ReceiveData, Data!Deliver, DataClosed, Data!SeeClosed,
     ReceiveEnd, End!Deliver, RemoveEnd, End!Remove, End!LockFree
<1>18. ASSUME NEW c \in Clients, RemoveData(c) PROVE FALSE
  BY <1>1, <1>4, <1>18 DEF RemoveData, Data!Remove, Data!LockFree
<1>19. ASSUME NEW c \in Clients, ClientLeave(c) PROVE Entangled' \/ End!Wedged'
  <2>1. UNCHANGED <<dPc, dK, dLen, dArray, ePc, eK, eLen, eArray>>
    BY <1>19 DEF ClientLeave, Data!Leave, End!Leave
  <2>2. CASE c = y
    <3>1. eSt'[c] = "leaving"
      BY <1>3, <1>19 DEF ClientLeave, End!Leave
    <3>2. QED
      BY <1>2, <2>1, <2>2, <3>1 DEF y, End!Wedged
  <2>3. CASE c # y
    <3>1. cl'[x] = cl[x] /\ cl'[y] = cl[y]
      BY <1>1, <1>2, <1>3, <1>19, <2>3 DEF ClientLeave, Goto
    <3>2. QED
      BY <1>5, <2>1, <3>1
  <2>4. QED
    BY <2>2, <2>3
<1>20. CASE UNCHANGED vars
  BY <1>5, <1>20 DEF vars, clVars
<1>21. QED
  BY <1>6, <1>7, <1>8, <1>9, <1>11, <1>12, <1>13, <1>14, <1>15, <1>16, <1>17, <1>18, <1>19,
     <1>20 DEF Next, Environment, Stream

\* Once wedged or entangled, the two fan-outs stay one or the other for ever
\* (connect.go:30-33, start.go:106-110, multiplex.go:26 against 63).
THEOREM KnotsStay == Spec => StuckForever
<1>1. ASSUME ProcessInv, [Next]_vars, Wedged \/ Entangled PROVE (Wedged \/ Entangled)'
  <2>1. [DP!Next]_(DP!vars) /\ [EP!Next]_(EP!vars)
    BY <1>1, ChannelSteps DEF ProcessInv, ChannelsInv
  <2>2. CASE Data!Wedged
    <3>1. DP!Wedged
      BY <2>2 DEF Data!Wedged, DP!Wedged
    <3>2. DP!Wedged'
      BY <1>1, <2>1, <3>1, DP!WedgedStays, ClientsAssumption, OutAssumption DEF ProcessInv,
         ChannelsInv
    <3>3. QED
      BY <3>2 DEF Wedged, Data!Wedged, DP!Wedged
  <2>3. CASE End!Wedged
    <3>1. EP!Wedged
      BY <2>3 DEF End!Wedged, EP!Wedged
    <3>2. EP!Wedged'
      BY <1>1, <2>1, <3>1, EP!WedgedStays, ClientsAssumption DEF ProcessInv, ChannelsInv
    <3>3. QED
      BY <3>2 DEF Wedged, End!Wedged, EP!Wedged
  <2>4. CASE Entangled
    BY <1>1, <2>4, EntangledStays DEF Wedged
  <2>5. QED
    BY <1>1, <2>2, <2>3, <2>4 DEF Wedged
<1>2. QED
  BY <1>1, ProcessInvariant, PTL DEF Spec, StuckForever
=============================================================================
