----------------------------- MODULE TunnelProofs ----------------------------
(***************************************************************************)
(* Proofs about the input of processes and the reverse tunnel: that one   *)
(* goroutine writes to a connection at a time, that what a process reads  *)
(* is one whole message after the other, that a stream of input has no    *)
(* gap, and what a successful answer means to the backend.                *)
(*                                                                         *)
(* The invariants are of the whole specification, with the callers that   *)
(* come through the tunnel and the ones that do not.  Nothing in them     *)
(* depends on the bounds PipeCap, MaxData and MaxConns.                   *)
(***************************************************************************)
EXTENDS Tunnel, SequenceTheorems, TLAPS

-----------------------------------------------------------------------------
\* Who writes to a connection.

\* TypeOK of what the connections are in.
TunnelShape ==
    /\ link \in [Conns -> {"none", "dialled", "joined", "ready", "serve", "closed"}]
    /\ hb \in [Conns -> {"none", "idle", "write", "ended"}]
    /\ task \in [Calls -> {"none", "spawned", "local", "send", "ended"}]
    /\ queue \in [Conns -> Seq(Requests)] /\ writing \in [Conns -> Int]
    /\ up \subseteq Conns /\ connMu \subseteq Conns

\* A request in a connection's queue was pushed there, once, and has no goroutine yet.
QueuedIsNew ==
    \A c \in Conns :
        /\ \A i \in 1..Len(queue[c]) : /\ <<queue[c][i], c>> \in pushed
                                       /\ task[<<queue[c][i], c>>] = "none"
        /\ \A i, j \in 1..Len(queue[c]) : i # j => queue[c][i] # queue[c][j]

\* Only what was pushed has a goroutine.
PushedIsCall == pushed \subseteq Calls /\ \A t \in Calls : task[t] # "none" => t \in pushed

\* Until the ready message is out, run is alone with its connection.
QuietUntilReady ==
    \A c \in Conns : link[c] \in {"none", "dialled", "joined", "ready"} =>
        /\ hb[c] = "none" /\ c \notin connMu
        /\ \A t \in Calls : t[2] = c => task[t] = "none"
        /\ writing[c] = IF link[c] = "ready" THEN 1 ELSE 0

\* From then on who writes has mu, and mu means one writer.
MutexMeansWriter ==
    \A c \in Conns : link[c] \in {"serve", "closed"} =>
        /\ c \notin connMu => writing[c] = 0
        /\ c \in connMu => writing[c] = 1
        /\ hb[c] = "write" => c \in connMu /\ \A t \in Calls : t[2] = c => task[t] # "send"
        /\ \A t \in Calls : t[2] = c /\ task[t] = "send" =>
               c \in connMu /\ \A u \in Calls : u[2] = c /\ task[u] = "send" => u = t

WriterInv == TunnelShape /\ QueuedIsNew /\ PushedIsCall /\ QuietUntilReady /\ MutexMeansWriter

\* A call through the tunnel is its request and the connection it came by.
LEMMA CallIs == \A t \in Calls : t = <<t[1], t[2]>> /\ t[1] \in Requests /\ t[2] \in Conns
BY RequestsAssumption

\* The invariant holds before the first dial.
LEMMA WriterInitial == Init => WriterInv
<1> SUFFICES ASSUME Init PROVE WriterInv
  OBVIOUS
<1>1. TunnelShape
  BY DEF Init, TunnelShape
<1>2. QueuedIsNew /\ PushedIsCall /\ QuietUntilReady /\ MutexMeansWriter
  BY DEF Init, QueuedIsNew, PushedIsCall, QuietUntilReady, MutexMeansWriter
<1>3. QED
  BY <1>1, <1>2 DEF WriterInv

\* Every step of run, of the requests' goroutines, of the heartbeat and of the network
\* preserves it.
LEMMA WriterStep == ASSUME WriterInv, [Next]_vars PROVE WriterInv'
<1> USE RequestsAssumption, CallIs DEF WriterInv, TunnelShape
<1>1. ASSUME NEW c \in Conns, Dial(c) PROVE WriterInv'
  <2>1. TunnelShape'
    BY <1>1 DEF Dial
  <2>2. QuietUntilReady'
    BY <1>1 DEF Dial, QuietUntilReady, PushedIsCall, QueuedIsNew
  <2>3. MutexMeansWriter'
    BY <1>1 DEF Dial, MutexMeansWriter, QuietUntilReady, QueuedIsNew, PushedIsCall
  <2>4. QueuedIsNew' /\ PushedIsCall'
    BY <1>1 DEF Dial, QueuedIsNew, PushedIsCall
  <2>5. QED
    BY <2>1, <2>4, <2>2, <2>3 DEF WriterInv
<1>2. ASSUME NEW c \in Conns, Join(c) PROVE WriterInv'
  <2>1. TunnelShape'
    BY <1>2 DEF Join
  <2>2. QuietUntilReady'
    BY <1>2 DEF Join, QuietUntilReady, PushedIsCall, QueuedIsNew
  <2>3. MutexMeansWriter'
    BY <1>2 DEF Join, MutexMeansWriter, QuietUntilReady, QueuedIsNew, PushedIsCall
  <2>4. QueuedIsNew' /\ PushedIsCall'
    BY <1>2 DEF Join, QueuedIsNew, PushedIsCall
  <2>5. QED
    BY <2>1, <2>4, <2>2, <2>3 DEF WriterInv
<1>3. ASSUME NEW c \in Conns, Ready(c) PROVE WriterInv'
  <2>1. TunnelShape'
    <3>1. CASE link[c] = "joined"
      BY <1>3, <3>1 DEF Ready
    <3>2. CASE link[c] = "ready"
      <4>1. /\ link' = [link EXCEPT ![c] = "serve"] /\ hb' = [hb EXCEPT ![c] = "idle"]
            /\ writing' = [writing EXCEPT ![c] = @ - 1]
            /\ UNCHANGED <<up, queue, task, connMu>>
        BY <1>3, <3>2 DEF Ready
      <4>2. QED
        BY <4>1
    <3>3. QED
      BY <1>3, <3>1, <3>2 DEF Ready
  <2>2. QuietUntilReady'
    BY <1>3 DEF Ready, QuietUntilReady, PushedIsCall, QueuedIsNew
  <2>3. MutexMeansWriter'
    BY <1>3 DEF Ready, MutexMeansWriter, QuietUntilReady, QueuedIsNew, PushedIsCall
  <2>4. QueuedIsNew' /\ PushedIsCall'
    BY <1>3 DEF Ready, QueuedIsNew, PushedIsCall
  <2>5. QED
    BY <2>1, <2>4, <2>2, <2>3 DEF WriterInv
<1>4. ASSUME NEW c \in Conns, ReadRequest(c) PROVE WriterInv'
  <2>1. TunnelShape'
    <3>1. Tail(queue[c]) \in Seq(Requests)
      BY <1>4, HeadTailProperties DEF ReadRequest
    <3>2. QED
      BY <1>4, <3>1 DEF ReadRequest
  <2>2. QueuedIsNew'
    BY <1>4 DEF ReadRequest, QueuedIsNew, PushedIsCall
  <2>3. PushedIsCall'
    BY <1>4 DEF ReadRequest, PushedIsCall, QueuedIsNew
  <2>4. QuietUntilReady'
    BY <1>4 DEF ReadRequest, QuietUntilReady, PushedIsCall, QueuedIsNew
  <2>5. MutexMeansWriter'
    BY <1>4 DEF ReadRequest, MutexMeansWriter, QuietUntilReady, QueuedIsNew, PushedIsCall
  <2>6. QED
    BY <2>1, <2>2, <2>3, <2>4, <2>5 DEF WriterInv
<1>5. ASSUME NEW c \in Conns, RunReturns(c) PROVE WriterInv'
  <2>1. TunnelShape'
    BY <1>5 DEF RunReturns
  <2>2. QuietUntilReady'
    BY <1>5 DEF RunReturns, QuietUntilReady, PushedIsCall, QueuedIsNew
  <2>3. MutexMeansWriter'
    BY <1>5 DEF RunReturns, MutexMeansWriter, QuietUntilReady, QueuedIsNew, PushedIsCall
  <2>4. QueuedIsNew' /\ PushedIsCall'
    BY <1>5 DEF RunReturns, QueuedIsNew, PushedIsCall
  <2>5. QED
    BY <2>1, <2>4, <2>2, <2>3 DEF WriterInv
<1>6. ASSUME NEW c \in Conns, Beat(c) PROVE WriterInv'
  <2>1. TunnelShape'
    BY <1>6 DEF Beat
  <2>2. QuietUntilReady'
    BY <1>6 DEF Beat, QuietUntilReady, PushedIsCall, QueuedIsNew
  <2>3. MutexMeansWriter'
    BY <1>6 DEF Beat, MutexMeansWriter, QuietUntilReady, QueuedIsNew, PushedIsCall
  <2>4. QueuedIsNew' /\ PushedIsCall'
    BY <1>6 DEF Beat, QueuedIsNew, PushedIsCall
  <2>5. QED
    BY <2>1, <2>4, <2>2, <2>3 DEF WriterInv
<1>7. ASSUME NEW c \in Conns, Beaten(c) PROVE WriterInv'
  <2>1. TunnelShape'
    BY <1>7 DEF Beaten
  <2>2. QuietUntilReady'
    BY <1>7 DEF Beaten, QuietUntilReady, PushedIsCall, QueuedIsNew
  <2>3. MutexMeansWriter'
    BY <1>7 DEF Beaten, MutexMeansWriter, QuietUntilReady, QueuedIsNew, PushedIsCall
  <2>4. QueuedIsNew' /\ PushedIsCall'
    BY <1>7 DEF Beaten, QueuedIsNew, PushedIsCall
  <2>5. QED
    BY <2>1, <2>4, <2>2, <2>3 DEF WriterInv
<1>8. ASSUME NEW r \in Requests, NEW c \in Conns, Push(r, c) PROVE WriterInv'
  <2>1. TunnelShape'
    BY <1>8 DEF Push
  <2>2. QueuedIsNew'
    <3>1. <<r, c>> \in Calls /\ <<r, c>> \notin pushed /\ task[<<r, c>>] = "none"
      BY <1>8 DEF Push, PushedIsCall
    <3>2. /\ Len(queue'[c]) = Len(queue[c]) + 1 /\ queue'[c][Len(queue[c]) + 1] = r
          /\ Len(queue[c]) \in Nat
          /\ \A i \in 1..Len(queue[c]) : queue'[c][i] = queue[c][i]
      BY <1>8, AppendProperties DEF Push
    <3>3. \A i \in 1..Len(queue[c]) : queue[c][i] # r
      BY <3>1 DEF QueuedIsNew
    <3>4. \A d \in Conns \ {c} : queue'[d] = queue[d]
      BY <1>8 DEF Push
    <3>5. \A i \in 1..Len(queue'[c]) : i \in 1..Len(queue[c]) \/ i = Len(queue[c]) + 1
      BY <3>2
    <3>6. \A i \in 1..Len(queue'[c]) : /\ <<queue'[c][i], c>> \in pushed'
                                        /\ task'[<<queue'[c][i], c>>] = "none"
      <4>1. pushed' = pushed \cup {<<r, c>>} /\ task' = task
        BY <1>8 DEF Push
      <4>2. ASSUME NEW i \in 1..Len(queue[c])
            PROVE  <<queue'[c][i], c>> \in pushed' /\ task'[<<queue'[c][i], c>>] = "none"
        <5>1. queue'[c][i] = queue[c][i]
          BY <3>2
        <5>2. QED
          BY <4>1, <5>1 DEF QueuedIsNew
      <4>3. QED
        BY <3>1, <3>2, <3>5, <4>1, <4>2
    <3>7. \A i, j \in 1..Len(queue'[c]) : i # j => queue'[c][i] # queue'[c][j]
      <4> SUFFICES ASSUME NEW i \in 1..Len(queue'[c]), NEW j \in 1..Len(queue'[c]), i # j
                   PROVE  queue'[c][i] # queue'[c][j]
        OBVIOUS
      <4>1. CASE i \in 1..Len(queue[c]) /\ j \in 1..Len(queue[c])
        BY <3>2, <4>1 DEF QueuedIsNew
      <4>2. CASE i = Len(queue[c]) + 1 /\ j \in 1..Len(queue[c])
        BY <3>2, <3>3, <4>2
      <4>3. CASE i \in 1..Len(queue[c]) /\ j = Len(queue[c]) + 1
        BY <3>2, <3>3, <4>3
      <4>4. QED
        BY <3>5, <4>1, <4>2, <4>3
    <3>8. QED
      BY <1>8, <3>4, <3>6, <3>7 DEF Push, QueuedIsNew
  <2>3. PushedIsCall'
    BY <1>8 DEF Push, PushedIsCall, QueuedIsNew
  <2>4. QuietUntilReady' /\ MutexMeansWriter'
    BY <1>8 DEF Push, QuietUntilReady, MutexMeansWriter
  <2>5. QED
    BY <2>1, <2>2, <2>3, <2>4 DEF WriterInv
<1>9. ASSUME NEW c \in Conns, NEW lost \in BOOLEAN, Drop(c, lost) PROVE WriterInv'
  <2>1. TunnelShape'
    BY <1>9 DEF Drop
  <2>2. QueuedIsNew'
    BY <1>9 DEF Drop, QueuedIsNew, PushedIsCall
  <2>3. PushedIsCall' /\ QuietUntilReady' /\ MutexMeansWriter'
    BY <1>9 DEF Drop, PushedIsCall, QuietUntilReady, MutexMeansWriter
  <2>4. QED
    BY <2>1, <2>2, <2>3 DEF WriterInv
<1>10. ASSUME NEW t \in Calls, BadPayload(t) PROVE WriterInv'
  <2>1. TunnelShape'
    BY <1>10 DEF BadPayload
  <2>2. QueuedIsNew'
    BY <1>10 DEF BadPayload, QueuedIsNew, PushedIsCall
  <2>3. PushedIsCall'
    BY <1>10 DEF BadPayload, PushedIsCall, QueuedIsNew
  <2>4. QuietUntilReady'
    BY <1>10 DEF BadPayload, QuietUntilReady, PushedIsCall, QueuedIsNew
  <2>5. MutexMeansWriter'
    BY <1>10 DEF BadPayload, MutexMeansWriter, QuietUntilReady, QueuedIsNew, PushedIsCall
  <2>6. QED
    BY <2>1, <2>2, <2>3, <2>4, <2>5 DEF WriterInv
<1>11. ASSUME NEW t \in Calls, ProxyFails(t) PROVE WriterInv'
  <2>1. TunnelShape'
    BY <1>11 DEF ProxyFails
  <2>2. QueuedIsNew'
    BY <1>11 DEF ProxyFails, QueuedIsNew, PushedIsCall
  <2>3. PushedIsCall'
    BY <1>11 DEF ProxyFails, PushedIsCall, QueuedIsNew
  <2>4. QuietUntilReady'
    BY <1>11 DEF ProxyFails, QuietUntilReady, PushedIsCall, QueuedIsNew
  <2>5. MutexMeansWriter'
    BY <1>11 DEF ProxyFails, MutexMeansWriter, QuietUntilReady, QueuedIsNew, PushedIsCall
  <2>6. QED
    BY <2>1, <2>2, <2>3, <2>4, <2>5 DEF WriterInv
<1>12. ASSUME NEW t \in Calls, SendResponse(t) PROVE WriterInv'
  <2>1. TunnelShape'
    BY <1>12 DEF SendResponse
  <2>2. QueuedIsNew'
    BY <1>12 DEF SendResponse, QueuedIsNew, PushedIsCall
  <2>3. PushedIsCall'
    BY <1>12 DEF SendResponse, PushedIsCall, QueuedIsNew
  <2>4. QuietUntilReady'
    BY <1>12 DEF SendResponse, QuietUntilReady, PushedIsCall, QueuedIsNew
  <2>5. MutexMeansWriter'
    BY <1>12 DEF SendResponse, MutexMeansWriter, QuietUntilReady, QueuedIsNew, PushedIsCall
  <2>6. QED
    BY <2>1, <2>2, <2>3, <2>4, <2>5 DEF WriterInv
<1>13. ASSUME NEW t \in Calls, ResponseSent(t) PROVE WriterInv'
  <2>1. TunnelShape'
    BY <1>13 DEF ResponseSent
  <2>2. QueuedIsNew'
    BY <1>13 DEF ResponseSent, QueuedIsNew, PushedIsCall
  <2>3. PushedIsCall'
    BY <1>13 DEF ResponseSent, PushedIsCall, QueuedIsNew
  <2>4. QuietUntilReady'
    BY <1>13 DEF ResponseSent, QuietUntilReady, PushedIsCall, QueuedIsNew
  <2>5. MutexMeansWriter'
    BY <1>13 DEF ResponseSent, MutexMeansWriter, QuietUntilReady, QueuedIsNew, PushedIsCall
  <2>6. QED
    BY <2>1, <2>2, <2>3, <2>4, <2>5 DEF WriterInv
<1>14. ASSUME NEW t \in Calls, NEW h \in Handlers, NEW kind \in {"stdin",
              "pty"}, Proxy(t, h, kind)
       PROVE  WriterInv'
  <2>1. TunnelShape'
    BY <1>14 DEF Proxy
  <2>2. QueuedIsNew'
    BY <1>14 DEF Proxy, QueuedIsNew, PushedIsCall
  <2>3. PushedIsCall'
    BY <1>14 DEF Proxy, PushedIsCall, QueuedIsNew
  <2>4. QuietUntilReady'
    BY <1>14 DEF Proxy, QuietUntilReady, PushedIsCall, QueuedIsNew
  <2>5. MutexMeansWriter'
    BY <1>14 DEF Proxy, MutexMeansWriter, QuietUntilReady, QueuedIsNew, PushedIsCall
  <2>6. QED
    BY <2>1, <2>2, <2>3, <2>4, <2>5 DEF WriterInv
<1>15. CASE UNCHANGED tunnelVars
  <2>1. TunnelShape'
    BY <1>15 DEF tunnelVars
  <2>2. QueuedIsNew'
    BY <1>15 DEF tunnelVars, QueuedIsNew, PushedIsCall
  <2>3. PushedIsCall'
    BY <1>15 DEF tunnelVars, PushedIsCall, QueuedIsNew
  <2>4. QuietUntilReady'
    BY <1>15 DEF tunnelVars, QuietUntilReady, PushedIsCall, QueuedIsNew
  <2>5. MutexMeansWriter'
    BY <1>15 DEF tunnelVars, MutexMeansWriter, QuietUntilReady, QueuedIsNew, PushedIsCall
  <2>6. QED
    BY <2>1, <2>2, <2>3, <2>4, <2>5 DEF WriterInv
<1>16. QED
  BY <1>1, <1>2, <1>3, <1>4, <1>5, <1>6, <1>7, <1>8, <1>9, <1>10, <1>11, <1>12, <1>13, <1>14, <1>15
     DEF Next, vars, Serve, Handle, TaskStep, BeatStep, Network

\* At most one goroutine is in WriteJSON on a connection, for any number of requests and
\* connections: the ready message has the connection to itself (tunnel.go:78), since the
\* heartbeat and the requests start after it, and mu keeps those apart (tunnel.go:150, 166).
THEOREM WritesAlone == Spec => []OneWriter
<1>1. WriterInv => OneWriter
  BY DEF WriterInv, TunnelShape, QuietUntilReady, MutexMeansWriter, OneWriter
<1>2. QED
  BY <1>1, WriterInitial, WriterStep, PTL DEF Spec

-----------------------------------------------------------------------------
\* What processes are written.

\* The steps of Input that Tunnel takes.
InputNext ==
    \/ \E c \in Callers : Proceed(c) \/ DirectStep(c)
    \/ \E c \in Calls, h \in Handlers, kind \in {"stdin", "pty"} : SendInput(c, h, kind)
    \/ \E h \in Handlers : ProcessStep(h)

Places == {"idle", "recv", "check", "lock", "write", "done", "failed", "panicked"}
CallStates == [pc : Places, h : Handlers \cup {None}, kind : {"stdin", "pty"}, n : Nat, part : Nat]
AnyPiece == Writers \X Nat \X Nat

\* InputTypeOK without its bounds.
InputShape ==
    /\ stdin \subseteq Handlers /\ fd \subseteq Handlers
    /\ mu \in [Handlers -> Callers \cup {None}]
    /\ proc \in [Handlers -> {"run", "orphan", "gone"}]
    /\ written \in [Handlers -> Seq(AnyPiece)]
    /\ call \in [Callers -> CallStates]

\* What a caller that is under way has: a handler; in Write, stdinMu and an open stdin
\* unless it is a pty; and the message it began with.
Knows(c) ==
    /\ call[c].pc \in {"check", "lock", "write"} => call[c].h \in Handlers
    /\ call[c].pc \in {"check", "write"} => c \in Writers
    /\ call[c].pc = "lock" => call[c].h \notin Tty
    /\ call[c].pc = "write" => call[c].h \in Tty \/ (mu[call[c].h] = c /\ call[c].h \in stdin)
    /\ call[c].pc \in {"idle", "check", "lock"} => call[c].part = 0
    /\ call[c].pc = "write" => call[c].part < Parts[c]
    /\ c \in Calls /\ call[c].pc \in {"check", "lock", "write", "done", "panicked"} => call[c].n = 1
    /\ c \in Calls => call[c].pc # "recv"

CallsKnow == \A c \in Callers : Knows(c)

\* What a writer finds closed was closed by Wait.
OpenUnlessExited == \A h \in (stdin \cup Tty) \ fd : proc[h] # "run"

\* A writer in the middle of its message wrote the last piece.
MidwayIsLast ==
    \A c \in Writers : call[c].pc = "write" /\ call[c].part > 0 =>
        LET w == written[call[c].h] IN
        w # <<>> /\ w[Len(w)] = <<c, call[c].n, call[c].part>>

\* An unfinished message is being written, or nothing more can be.
CutMeansOver ==
    \A h \in Handlers : LET w == written[h]  x == w[Len(w)] IN
        w # <<>> /\ x[3] < Parts[x[1]] =>
            \/ /\ call[x[1]].pc = "write" /\ call[x[1]].h = h
               /\ call[x[1]].n = x[2] /\ call[x[1]].part = x[3] /\ x[3] > 0
            \/ proc[h] # "run" /\ (h \notin fd \/ proc[h] = "gone")

\* The first two conjuncts of MessagesWhole.
PiecesFollow ==
    \A h \in Handlers : LET w == written[h] IN
        \A i \in 1..Len(w) :
            /\ i < Len(w) /\ w[i][3] < Parts[w[i][1]] => w[i + 1] = NextPiece(w[i])
            /\ w[i][3] > 1 => i > 1 /\ NextPiece(w[i - 1]) = w[i]

\* A stream that receives again had all its messages taken.
StreamsOn ==
    \A s \in Streams, n \in Nat :
        n >= 1 /\ (n < call[s].n \/ (n = call[s].n /\ call[s].pc = "recv")) => TakenWhole(s, n)

\* No piece is of a message that its stream has not come to, and they stand in order.
StreamsRise ==
    \A s \in Streams, h \in Handlers : LET w == written[h] IN
        /\ \A i \in 1..Len(w) : w[i][1] = s => w[i][2] <= call[s].n
        /\ \A i, j \in 1..Len(w) : i < j /\ w[i][1] = s /\ w[j][1] = s => w[i][2] <= w[j][2]

\* A SendInput that returned without an error, or panicked, had its message taken.
DoneIsTaken == \A t \in Calls : call[t].pc \in {"done", "panicked"} => TakenWhole(t, 1)

InputInv ==
    /\ InputShape /\ CallsKnow /\ OpenUnlessExited /\ MidwayIsLast /\ CutMeansOver
    /\ PiecesFollow /\ StreamsOn /\ StreamsRise /\ DoneIsTaken

\* The three kinds of callers.
LEMMA CallerIs ==
    /\ \A c : c \in Callers <=> c \in Calls \/ c \in Streams \/ c \in Closers
    /\ \A c : c \in Writers <=> c \in Calls \/ c \in Streams
BY DEF Callers, Writers

\* A caller's record with another pc is one.
LEMMA MovedCall ==
    ASSUME NEW r \in CallStates, NEW p \in Places
    PROVE  [r EXCEPT !.pc = p] \in CallStates
BY DEF CallStates

\* What a step leaves in the variables is of their type.
LEMMA ShapeStep ==
    ASSUME InputShape, CallsKnow, [InputNext]_inputVars
    PROVE  InputShape'
<1> USE HandlersAssumption, CallersAssumption, BoundsAssumption, CallerIs DEF InputShape
<1> DEFINE Kinds == {"stdin", "pty"}
<1>0. ASSUME NEW c \in Callers, NEW p \in Places, To(c, p) PROVE call' \in [Callers -> CallStates]
  BY <1>0, MovedCall DEF To
<1>1. ASSUME NEW h \in Handlers, ProcessStep(h) PROVE InputShape'
  BY <1>1 DEF ProcessStep, Read, Exit, Wait
<1>2. ASSUME NEW c \in Callers, CheckTty(c) \/ NotFound(c) PROVE InputShape'
  <2>1. \E p \in Places : To(c, p)
    BY <1>2 DEF CheckTty, NotFound, Places
  <2>2. QED
    BY <1>0, <1>2, <2>1 DEF CheckTty, NotFound
<1>3. ASSUME NEW c \in Callers, WriteStdin(c) PROVE InputShape'
  <2>1. \E p \in Places : To(c, p)
    BY <1>3 DEF WriteStdin, Places
  <2>2. mu' \in [Handlers -> Callers \cup {None}]
    <3>1. mu' = [mu EXCEPT ![call[c].h] = c] \/ mu' = mu
      BY <1>3 DEF WriteStdin
    <3>2. QED
      BY <3>1
  <2>3. QED
    BY <1>0, <1>3, <2>1, <2>2 DEF WriteStdin
<1>4. ASSUME NEW c \in Callers, WritePart(c) PROVE InputShape'
  <2> DEFINE h == call[c].h  k == call[c].part + 1
  <2>1. /\ call[c] \in CallStates /\ h \in Handlers /\ c \in Writers /\ k \in Nat /\ call[c].n \in Nat
        /\ call[c].kind \in {"stdin", "pty"}
    BY <1>4 DEF WritePart, CallsKnow, Knows, CallStates
  <2>2. written' \in [Handlers -> Seq(AnyPiece)]
    <3>1. <<c, call[c].n, k>> \in AnyPiece
      BY <2>1 DEF AnyPiece
    <3>2. Append(written[h], <<c, call[c].n, k>>) \in Seq(AnyPiece)
      BY <2>1, <3>1, AppendProperties
    <3>3. written' = [written EXCEPT ![h] = Append(written[h], <<c, call[c].n, k>>)]
      BY <1>4, <2>1 DEF WritePart
    <3> HIDE DEF h, k
    <3>4. QED
      BY <2>1, <3>2, <3>3
  <2>3. call' \in [Callers -> CallStates]
    <3>1. [call[c] EXCEPT !.part = k] \in CallStates
      BY <2>1 DEF CallStates
    <3>2. [pc |-> Resumed(c), h |-> h, kind |-> call[c].kind, n |-> call[c].n, part |-> k] \in CallStates
      BY <2>1 DEF CallStates, Resumed, Places
    <3>3. QED
      BY <1>4, <3>1, <3>2 DEF WritePart
  <2>4. mu' \in [Handlers -> Callers \cup {None}]
    BY <1>4, <2>1 DEF WritePart, Free
  <2>5. QED
    BY <1>4, <2>2, <2>3, <2>4 DEF WritePart
<1>5. ASSUME NEW c \in Callers, WriteFails(c) PROVE InputShape'
  <2>1. To(c, "failed") /\ "failed" \in Places
    BY <1>5 DEF WriteFails, Places
  <2>2. mu' \in [Handlers -> Callers \cup {None}]
    BY <1>5 DEF WriteFails, Free
  <2>3. QED
    BY <1>0, <1>5, <2>1, <2>2 DEF WriteFails
<1>6. ASSUME NEW c \in Callers, CloseStdin(c) PROVE InputShape'
  <2>1. \E p \in Places : To(c, p)
    BY <1>6 DEF CloseStdin, Places
  <2>2. QED
    BY <1>0, <1>6, <2>1 DEF CloseStdin
<1>7. ASSUME NEW c \in Closers, NEW h \in Handlers, FindToClose(c, h) PROVE InputShape'
  <2>1. [pc |-> IF h \in Tty THEN "failed" ELSE "lock", h |-> h, kind |-> "stdin", n |-> 0,
         part |-> 0] \in CallStates
    BY DEF CallStates, Places
  <2>2. QED
    BY <1>7, <2>1 DEF FindToClose
<1>8. ASSUME NEW s \in Streams, NEW h \in Handlers, StreamStart(s, h) PROVE InputShape'
  <2>1. [call[s] EXCEPT !.h = h] \in CallStates
    <3>1. call[s] \in CallStates
      OBVIOUS
    <3>2. QED
      BY <3>1 DEF CallStates
  <2>2. QED
    BY <1>8, <2>1 DEF StreamStart
<1>9. ASSUME NEW s \in Streams, NEW kind \in Kinds, StreamData(s, kind) PROVE InputShape'
  <2>1. call[s] \in CallStates
    OBVIOUS
  <2>2. [pc |-> "check", h |-> call[s].h, kind |-> kind, n |-> call[s].n + 1, part |-> 0] \in CallStates
    BY <2>1 DEF CallStates, Places
  <2>3. CASE call[s].h = None
    <3>1. To(s, "panicked") /\ "panicked" \in Places
      BY <1>9, <2>3 DEF StreamData, Places
    <3>2. QED
      BY <1>0, <1>9, <3>1 DEF StreamData
  <2>4. CASE call[s].h # None
    <3>1. /\ call' = [call EXCEPT ![s] = [pc |-> "check", h |-> call[s].h, kind |-> kind,
                                          n |-> call[s].n + 1, part |-> 0]]
          /\ UNCHANGED <<stdin, fd, mu, proc, written>>
      BY <1>9, <2>4 DEF StreamData
    <3>2. call' \in [Callers -> CallStates]
      BY <2>2, <3>1
    <3>3. QED
      BY <3>1, <3>2
  <2>5. QED
    BY <2>3, <2>4
<1>10. ASSUME NEW s \in Streams, NEW outcome \in {"done", "failed"},
              StreamEnd(s, outcome)
       PROVE  InputShape'
  <2>1. To(s, outcome) /\ outcome \in Places
    BY <1>10 DEF StreamEnd, Places
  <2>2. QED
    BY <1>0, <1>10, <2>1 DEF StreamEnd
<1>11. ASSUME NEW c \in Calls, NEW h \in Handlers, NEW kind \in Kinds,
              SendInput(c, h, kind)
       PROVE  InputShape'
  <2>1. [pc |-> "check", h |-> h, kind |-> kind, n |-> 1, part |-> 0] \in CallStates
    BY DEF CallStates, Places
  <2>2. QED
    BY <1>11, <2>1 DEF SendInput
<1>12. CASE UNCHANGED inputVars
  BY <1>12 DEF inputVars
<1>13. QED
  BY <1>1, <1>2, <1>3, <1>4, <1>5, <1>6, <1>7, <1>8, <1>9, <1>10, <1>11, <1>12
     DEF InputNext, Proceed, DirectStep

\* The only step that writes appends the next piece of its message.
LEMMA Appended ==
    ASSUME InputShape, CallsKnow, NEW c \in Callers, WritePart(c)
    PROVE  LET h == call[c].h  w == written[h] IN
           /\ c \in Writers /\ h \in Handlers /\ Len(w) \in Nat /\ Len(written'[h]) = Len(w) + 1
           /\ written'[h] # <<>>
           /\ \A i \in 1..Len(w) : written'[h][i] = w[i]
           /\ written'[h][Len(w) + 1] = <<c, call[c].n, call[c].part + 1>>
           /\ \A g \in Handlers \ {h} : written'[g] = written[g]
<1> DEFINE h == call[c].h  p == <<c, call[c].n, call[c].part + 1>>
<1>1. c \in Writers /\ h \in Handlers /\ call[c].n \in Nat /\ call[c].part \in Nat
  BY DEF WritePart, CallsKnow, Knows, InputShape, CallStates
<1>2. p \in AnyPiece /\ written[h] \in Seq(AnyPiece)
  BY <1>1 DEF AnyPiece, InputShape
<1>3. written' = [written EXCEPT ![h] = Append(written[h], p)]
  BY DEF WritePart
<1> HIDE DEF h, p
<1>4. written'[h] = Append(written[h], p) /\ \A g \in Handlers \ {h} : written'[g] = written[g]
  BY <1>1, <1>3 DEF InputShape
<1>5. QED
  <2>1. /\ Len(Append(written[h], p)) = Len(written[h]) + 1 /\ Append(written[h], p) # <<>>
        /\ \A i \in 1..Len(written[h]) : Append(written[h], p)[i] = written[h][i]
        /\ Append(written[h], p)[Len(written[h]) + 1] = p /\ Len(written[h]) \in Nat
    BY <1>2, AppendProperties
  <2>2. QED
    BY <1>1, <1>4, <2>1 DEF h, p

\* What was taken stays taken.
LEMMA TakenStays ==
    ASSUME InputShape, CallsKnow, [InputNext]_inputVars, NEW c \in Writers, NEW n \in Nat,
           TakenWhole(c, n)
    PROVE  TakenWhole(c, n)'
<1>1. PICK h \in Handlers : <<c, n, Parts[c]>> \in Range(written[h])
  BY DEF TakenWhole
<1>2. PICK i \in DOMAIN written[h] : written[h][i] = <<c, n, Parts[c]>>
  BY <1>1 DEF Range
<1>3. DOMAIN written[h] = 1..Len(written[h])
  BY DEF InputShape
<1>4. CASE \E d \in Callers : WritePart(d)
  <2>1. PICK d \in Callers : WritePart(d)
    BY <1>4
  <2>2. i \in DOMAIN written'[h] /\ written'[h][i] = <<c, n, Parts[c]>>
    <3>1. CASE h = call[d].h
      <4>1. written'[h] \in Seq(AnyPiece)
        BY ShapeStep DEF InputShape
      <4>2. QED
        BY <1>2, <1>3, <2>1, <3>1, <4>1, Appended
    <3>2. CASE h # call[d].h
      BY <1>2, <2>1, <3>2, Appended
    <3>3. QED
      BY <3>1, <3>2
  <2>3. QED
    BY <2>2 DEF TakenWhole, Range
<1>5. CASE ~\E d \in Callers : WritePart(d)
  <2>1. written' = written
    BY <1>5 DEF InputNext, Proceed, DirectStep, ProcessStep, inputVars, Read, Exit, Wait, CheckTty,
       WriteStdin,
       WriteFails, CloseStdin, NotFound, FindToClose, StreamStart, StreamData, StreamEnd, SendInput
  <2>2. QED
    BY <1>1, <2>1 DEF TakenWhole
<1>6. QED
  BY <1>4, <1>5

\* The fields of the callers' records.
Fields ==
    \A c \in Callers :
        /\ call[c].pc \in Places /\ call[c].h \in Handlers \cup {None}
        /\ call[c].n \in Nat /\ call[c].part \in Nat

\* The type of the records gives that of their fields,
LEMMA FieldsAre == InputShape => Fields
BY DEF InputShape, Fields, CallStates

\* also after a step.
LEMMA FieldsNext == InputShape' => Fields'
BY DEF InputShape, Fields, CallStates

\* To moves one caller and changes its pc only.
LEMMA ToMoves ==
    ASSUME InputShape, NEW c \in Callers, NEW p, To(c, p)
    PROVE  /\ \A d \in Callers \ {c} : call'[d] = call[d]
           /\ call'[c].pc = p /\ call'[c].h = call[c].h /\ call'[c].n = call[c].n
           /\ call'[c].part = call[c].part
BY DEF InputShape, CallStates, To

\* The invariant holds when the processes have started and nobody has called.
LEMMA InputInitial == Init => InputInv
<1> SUFFICES ASSUME InputInit PROVE InputInv
  BY DEF Init
<1> USE HandlersAssumption, CallersAssumption, BoundsAssumption, CallerIs
<1>1. InputShape
  BY DEF InputInit, InputShape, NoCall, CallStates, Places
<1>2. CallsKnow /\ OpenUnlessExited
  BY DEF InputInit, InputShape, NoCall, CallsKnow, Knows, OpenUnlessExited
<1>3. MidwayIsLast /\ CutMeansOver /\ PiecesFollow /\ StreamsOn /\ StreamsRise /\ DoneIsTaken
  BY DEF InputInit, NoCall, MidwayIsLast, CutMeansOver, PiecesFollow, StreamsOn, StreamsRise,
     DoneIsTaken
<1>4. QED
  BY <1>1, <1>2, <1>3 DEF InputInv

\* A step other than a write: nothing is taken, a write under way goes on or fails for good,
\* a stream goes on only from "recv", and no call succeeds.
Quiet ==
    /\ written' = written
    /\ \A d \in Callers :
           /\ call'[d].pc = "write" /\ call'[d].part > 0 => call'[d] = call[d]
           /\ call[d].pc = "write" => \/ call'[d] = call[d]
                                      \/ /\ proc'[call[d].h] # "run"
                                         /\ call[d].h \notin fd' \/ proc'[call[d].h] = "gone"
    /\ \A h \in Handlers : /\ proc[h] # "run" => proc'[h] # "run"
                           /\ proc[h] = "gone" => proc'[h] = "gone"
                           /\ h \notin fd => h \notin fd'
    /\ \A s \in Streams :
           \/ call'[s].n = call[s].n /\ (call'[s].pc = "recv" => call[s].pc = "recv")
           \/ call'[s].n = call[s].n + 1 /\ call[s].pc = "recv" /\ call'[s].pc # "recv"
    /\ \A t \in Calls : call'[t].pc \in {"done", "panicked"} => call[t].pc \in {"done", "panicked"}

\* Such a step keeps what the invariant says of the pieces.
LEMMA QuietKeeps ==
    ASSUME InputInv, [InputNext]_inputVars, Quiet
    PROVE  MidwayIsLast' /\ CutMeansOver' /\ PiecesFollow' /\ StreamsOn' /\ StreamsRise' /\ DoneIsTaken'
<1> USE CallerIs
<1>1. InputShape /\ CallsKnow /\ Fields
  BY FieldsAre DEF InputInv
<1>2. MidwayIsLast'
  BY DEF InputInv, MidwayIsLast, Quiet
<1>3. CutMeansOver'
  <2> SUFFICES ASSUME NEW h \in Handlers, written[h] # <<>>,
                      LET x == written[h][Len(written[h])] IN x[3] < Parts[x[1]]
               PROVE  LET x == written[h][Len(written[h])] IN
                      \/ /\ call'[x[1]].pc = "write" /\ call'[x[1]].h = h
                         /\ call'[x[1]].n = x[2] /\ call'[x[1]].part = x[3] /\ x[3] > 0
                      \/ proc'[h] # "run" /\ (h \notin fd' \/ proc'[h] = "gone")
    BY DEF CutMeansOver, Quiet
  <2> DEFINE x == written[h][Len(written[h])]
  <2>1. x \in AnyPiece
    BY <1>1 DEF InputShape
  <2>2. x[1] \in Callers
    BY <2>1 DEF AnyPiece
  <2>3. \/ /\ call[x[1]].pc = "write" /\ call[x[1]].h = h
           /\ call[x[1]].n = x[2] /\ call[x[1]].part = x[3] /\ x[3] > 0
        \/ proc[h] # "run" /\ (h \notin fd \/ proc[h] = "gone")
    BY DEF InputInv, CutMeansOver
  <2> HIDE DEF x
  <2>4. QED
    BY <2>2, <2>3 DEF Quiet, x
<1>4. PiecesFollow'
  BY DEF InputInv, PiecesFollow, Quiet
<1>5. StreamsOn'
  <2> SUFFICES ASSUME NEW s \in Streams, NEW n \in Nat, n >= 1,
                      n < call'[s].n \/ (n = call'[s].n /\ call'[s].pc = "recv")
               PROVE  TakenWhole(s, n)'
    BY DEF StreamsOn
  <2>1. n < call[s].n \/ (n = call[s].n /\ call[s].pc = "recv")
    BY <1>1 DEF Quiet, Fields
  <2>2. TakenWhole(s, n)
    BY <2>1 DEF InputInv, StreamsOn
  <2>3. QED
    BY <1>1, <2>2, TakenStays
<1>6. StreamsRise'
  <2> SUFFICES ASSUME NEW s \in Streams, NEW h \in Handlers
               PROVE  LET w == written[h] IN
                      /\ \A i \in 1..Len(w) : w[i][1] = s => w[i][2] <= call'[s].n
                      /\ \A i, j \in 1..Len(w) : i < j /\ w[i][1] = s /\ w[j][1] = s => w[i][2] <= w[j][2]
    BY DEF StreamsRise, Quiet
  <2> DEFINE w == written[h]
  <2>1. /\ \A i \in 1..Len(w) : w[i][1] = s => w[i][2] <= call[s].n
        /\ \A i, j \in 1..Len(w) : i < j /\ w[i][1] = s /\ w[j][1] = s => w[i][2] <= w[j][2]
    BY DEF InputInv, StreamsRise
  <2>2. call[s].n \in Nat /\ (call'[s].n = call[s].n \/ call'[s].n = call[s].n + 1)
    BY <1>1 DEF Quiet, Fields
  <2>3. \A i \in 1..Len(w) : w[i][2] \in Nat
    <3>1. \A i \in 1..Len(w) : w[i] \in AnyPiece
      BY <1>1 DEF InputShape
    <3>2. QED
      BY <3>1 DEF AnyPiece
  <2> HIDE DEF w
  <2>4. \A i \in 1..Len(w) : w[i][1] = s => w[i][2] <= call'[s].n
    BY <2>1, <2>2, <2>3
  <2>5. QED
    BY <2>1, <2>4 DEF w
<1>7. DoneIsTaken'
  <2> SUFFICES ASSUME NEW t \in Calls, call'[t].pc \in {"done", "panicked"} PROVE TakenWhole(t, 1)'
    BY DEF DoneIsTaken
  <2>1. TakenWhole(t, 1)
    BY DEF Quiet, InputInv, DoneIsTaken
  <2>2. QED
    BY <1>1, <2>1, TakenStays
<1>8. QED
  BY <1>2, <1>3, <1>4, <1>5, <1>6, <1>7

\* Every step of the callers, the processes and Wait preserves the invariant.
LEMMA InputStep == ASSUME InputInv, [InputNext]_inputVars PROVE InputInv'
<1> USE HandlersAssumption, CallersAssumption, BoundsAssumption, CallerIs
<1>a. InputShape /\ InputShape' /\ Fields /\ Fields' /\ CallsKnow
  BY ShapeStep, FieldsAre, FieldsNext DEF InputInv
<1>b. OpenUnlessExited /\ MidwayIsLast /\ CutMeansOver /\ PiecesFollow /\ StreamsOn /\ StreamsRise /\ DoneIsTaken
  BY DEF InputInv
<1>d. /\ mu \in [Handlers -> Callers \cup {None}] /\ proc \in [Handlers -> {"run", "orphan", "gone"}]
  BY <1>a DEF InputShape
<1>c. CallsKnow' /\ OpenUnlessExited' /\ Quiet => InputInv'
  BY <1>a, QuietKeeps DEF InputInv
<1>1. ASSUME NEW h \in Handlers, Read(h) PROVE InputInv'
  <2>1. /\ UNCHANGED <<stdin, fd, mu, proc, written, call>>
    BY <1>1 DEF Read
  <2>2. CallsKnow'
    BY <1>a, <1>d, <2>1 DEF CallsKnow, Fields, Knows
  <2>3. OpenUnlessExited'
    BY <1>a, <1>d, <1>b, <2>1 DEF OpenUnlessExited, CallsKnow, Knows
  <2>4. Quiet
    BY <1>a, <1>d, <2>1 DEF Quiet, Fields, CallsKnow, Knows
  <2>5. QED
    BY <1>c, <2>2, <2>3, <2>4
<1>2. ASSUME NEW h \in Handlers, NEW left \in {"orphan", "gone"}, Exit(h, left) PROVE InputInv'
  <2>1. /\ UNCHANGED <<stdin, fd, mu, written, call>>
        /\ proc' = [proc EXCEPT ![h] = left] /\ proc[h] # "gone"
        /\ left # "run" /\ (proc[h] # "run" => left = "gone")
    BY <1>2 DEF Exit
  <2>2. CallsKnow'
    BY <1>a, <1>d, <2>1 DEF CallsKnow, Fields, Knows
  <2>3. OpenUnlessExited'
    BY <1>a, <1>d, <1>b, <2>1 DEF OpenUnlessExited, CallsKnow, Knows
  <2>4. Quiet
    BY <1>a, <1>d, <2>1 DEF Quiet, Fields, CallsKnow, Knows
  <2>5. QED
    BY <1>c, <2>2, <2>3, <2>4
<1>3. ASSUME NEW h \in Handlers, Wait(h) PROVE InputInv'
  <2>1. /\ UNCHANGED <<stdin, mu, proc, written, call>>
        /\ fd' = fd \ {h} /\ proc[h] # "run"
    BY <1>3 DEF Wait
  <2>2. CallsKnow'
    BY <1>a, <1>d, <2>1 DEF CallsKnow, Fields, Knows
  <2>3. OpenUnlessExited'
    BY <1>a, <1>d, <1>b, <2>1 DEF OpenUnlessExited, CallsKnow, Knows
  <2>4. Quiet
    BY <1>a, <1>d, <2>1 DEF Quiet, Fields, CallsKnow, Knows
  <2>5. QED
    BY <1>c, <2>2, <2>3, <2>4
<1>4. ASSUME NEW c \in Callers, CheckTty(c) PROVE InputInv'
  <2>1. /\ UNCHANGED <<stdin, fd, mu, proc, written>>
        /\ \A d \in Callers \ {c} : call'[d] = call[d]
        /\ call[c].pc = "check"
        /\ call'[c].pc \in {"failed", "write", "lock"}
        /\ call'[c].pc = "write" => call[c].h \in Tty
        /\ call'[c].pc = "lock" => call[c].h \notin Tty
        /\ call'[c].h = call[c].h /\ call'[c].n = call[c].n /\ call'[c].part = call[c].part
    BY <1>4, <1>a DEF CheckTty, InputShape, CallStates, To
  <2>2. CallsKnow'
    <3>1. \A d \in Callers \ {c} : Knows(d)'
      BY <1>a, <1>d, <2>1 DEF CallsKnow, Knows
    <3>2. Knows(c)'
      BY <1>a, <1>d, <2>1 DEF CallsKnow, Knows, Fields
    <3>3. QED
      BY <3>1, <3>2 DEF CallsKnow
  <2>3. OpenUnlessExited'
    BY <1>a, <1>d, <1>b, <2>1 DEF OpenUnlessExited, CallsKnow, Knows
  <2>4. Quiet
    BY <1>a, <1>d, <2>1 DEF Quiet, Fields, CallsKnow, Knows
  <2>5. QED
    BY <1>c, <2>2, <2>3, <2>4
<1>5. ASSUME NEW c \in Callers, WriteStdin(c) PROVE InputInv'
  <2>1. /\ UNCHANGED <<stdin, fd, proc, written>>
        /\ \A d \in Callers \ {c} : call'[d] = call[d]
        /\ call[c].pc = "lock" /\ c \in Writers
        /\ mu[call[c].h] = None
        /\ \/ call[c].h \in stdin /\ call'[c].pc = "write" /\ mu' = [mu EXCEPT ![call[c].h] = c]
           \/ call'[c].pc = "failed" /\ mu' = mu
        /\ call'[c].h = call[c].h /\ call'[c].n = call[c].n /\ call'[c].part = call[c].part
    <3>1. \/ call[c].h \in stdin /\ To(c, "write") /\ mu' = [mu EXCEPT ![call[c].h] = c]
          \/ To(c, "failed") /\ mu' = mu
      BY <1>5 DEF WriteStdin
    <3>2. /\ \A d \in Callers \ {c} : call'[d] = call[d]
          /\ call'[c].h = call[c].h /\ call'[c].n = call[c].n /\ call'[c].part = call[c].part
      BY <1>a, <3>1, ToMoves
    <3>3. /\ To(c, "write") => call'[c].pc = "write"
          /\ To(c, "failed") => call'[c].pc = "failed"
      BY <1>a, ToMoves
    <3>4. /\ call[c].pc = "lock" /\ c \in Writers /\ mu[call[c].h] = None
          /\ UNCHANGED <<stdin, fd, proc, written>>
      BY <1>5 DEF WriteStdin
    <3>5. QED
      BY <3>1, <3>2, <3>3, <3>4
  <2>2. CallsKnow'
    <3>1. \A d \in Callers \ {c} : Knows(d)'
      BY <1>a, <1>d, <2>1 DEF CallsKnow, Knows
    <3>2. Knows(c)'
      BY <1>a, <1>d, <2>1 DEF CallsKnow, Knows, Fields
    <3>3. QED
      BY <3>1, <3>2 DEF CallsKnow
  <2>3. OpenUnlessExited'
    BY <1>a, <1>d, <1>b, <2>1 DEF OpenUnlessExited, CallsKnow, Knows
  <2>4. Quiet
    BY <1>a, <1>d, <2>1 DEF Quiet, Fields, CallsKnow, Knows
  <2>5. QED
    BY <1>c, <2>2, <2>3, <2>4
<1>6. ASSUME NEW c \in Callers, WriteFails(c) PROVE InputInv'
  <2>1. /\ UNCHANGED <<stdin, fd, proc, written>>
        /\ \A d \in Callers \ {c} : call'[d] = call[d]
        /\ call[c].pc = "write" /\ call'[c].pc = "failed"
        /\ call[c].h \notin fd \/ proc[call[c].h] = "gone"
        /\ mu' = IF mu[call[c].h] = c THEN [mu EXCEPT ![call[c].h] = None] ELSE mu
        /\ call'[c].h = call[c].h /\ call'[c].n = call[c].n /\ call'[c].part = call[c].part
    BY <1>6, <1>a DEF WriteFails, InputShape, CallStates, To, Free
  <2>2. CallsKnow'
    <3>1. \A d \in Callers \ {c} : Knows(d)'
      BY <1>a, <1>d, <2>1 DEF CallsKnow, Knows
    <3>2. Knows(c)'
      BY <1>a, <1>d, <2>1 DEF CallsKnow, Knows, Fields
    <3>3. QED
      BY <3>1, <3>2 DEF CallsKnow
  <2>3. OpenUnlessExited'
    BY <1>a, <1>d, <1>b, <2>1 DEF OpenUnlessExited, CallsKnow, Knows
  <2>4. Quiet
    BY <1>a, <1>d, <1>b, <2>1 DEF Quiet, Fields, CallsKnow, Knows, OpenUnlessExited
  <2>5. QED
    BY <1>c, <2>2, <2>3, <2>4
<1>7. ASSUME NEW c \in Callers, CloseStdin(c) PROVE InputInv'
  <2>1. /\ UNCHANGED <<mu, proc, written>>
        /\ \A d \in Callers \ {c} : call'[d] = call[d]
        /\ call[c].pc = "lock" /\ c \in Closers
        /\ mu[call[c].h] = None
        /\ call'[c].pc \in {"failed", "done"}
        /\ stdin' = stdin \ {call[c].h}
        /\ fd' = fd \/ (call[c].h \in stdin /\ fd' = fd \ {call[c].h})
        /\ call'[c].h = call[c].h /\ call'[c].n = call[c].n /\ call'[c].part = call[c].part
    BY <1>7, <1>a DEF CloseStdin, InputShape, CallStates, To
  <2>2. CallsKnow'
    <3>1. \A d \in Callers \ {c} : Knows(d)'
      BY <1>a, <1>d, <2>1 DEF CallsKnow, Knows
    <3>2. Knows(c)'
      BY <1>a, <1>d, <2>1 DEF CallsKnow, Knows, Fields
    <3>3. QED
      BY <3>1, <3>2 DEF CallsKnow
  <2>3. OpenUnlessExited'
    BY <1>a, <1>d, <1>b, <2>1 DEF OpenUnlessExited, CallsKnow, Knows
  <2>4. Quiet
    BY <1>a, <1>d, <2>1 DEF Quiet, Fields, CallsKnow, Knows
  <2>5. QED
    BY <1>c, <2>2, <2>3, <2>4
<1>8. ASSUME NEW c \in Callers, NotFound(c) PROVE InputInv'
  <2>1. /\ UNCHANGED <<stdin, fd, mu, proc, written>>
        /\ \A d \in Callers \ {c} : call'[d] = call[d]
        /\ c \in Streams => call[c].pc = "recv"
        /\ c \notin Streams => call[c].pc = "idle"
        /\ call'[c].pc = "failed"
        /\ call'[c].h = call[c].h /\ call'[c].n = call[c].n /\ call'[c].part = call[c].part
    BY <1>8, <1>a DEF NotFound, InputShape, CallStates, To
  <2>2. CallsKnow'
    <3>1. \A d \in Callers \ {c} : Knows(d)'
      BY <1>a, <1>d, <2>1 DEF CallsKnow, Knows
    <3>2. Knows(c)'
      BY <1>a, <1>d, <2>1 DEF CallsKnow, Knows, Fields
    <3>3. QED
      BY <3>1, <3>2 DEF CallsKnow
  <2>3. OpenUnlessExited'
    BY <1>a, <1>d, <1>b, <2>1 DEF OpenUnlessExited, CallsKnow, Knows
  <2>4. Quiet
    BY <1>a, <1>d, <2>1 DEF Quiet, Fields, CallsKnow, Knows
  <2>5. QED
    BY <1>c, <2>2, <2>3, <2>4
<1>9. ASSUME NEW c \in Closers, NEW h \in Handlers, FindToClose(c, h) PROVE InputInv'
  <2>1. /\ UNCHANGED <<stdin, fd, mu, proc, written>>
        /\ \A d \in Callers \ {c} : call'[d] = call[d]
        /\ call[c].pc = "idle" /\ call'[c].pc \in {"failed", "lock"}
        /\ call'[c].pc = "lock" => h \notin Tty
        /\ call'[c].h = h /\ call'[c].n = 0 /\ call'[c].part = 0
    BY <1>9, <1>a DEF FindToClose, InputShape, CallStates
  <2>2. CallsKnow'
    <3>1. \A d \in Callers \ {c} : Knows(d)'
      BY <1>a, <1>d, <2>1 DEF CallsKnow, Knows
    <3>2. Knows(c)'
      BY <1>a, <1>d, <2>1 DEF CallsKnow, Knows, Fields
    <3>3. QED
      BY <3>1, <3>2 DEF CallsKnow
  <2>3. OpenUnlessExited'
    BY <1>a, <1>d, <1>b, <2>1 DEF OpenUnlessExited, CallsKnow, Knows
  <2>4. Quiet
    BY <1>a, <1>d, <2>1 DEF Quiet, Fields, CallsKnow, Knows
  <2>5. QED
    BY <1>c, <2>2, <2>3, <2>4
<1>10. ASSUME NEW c \in Streams, NEW h \in Handlers, StreamStart(c, h) PROVE InputInv'
  <2>1. /\ UNCHANGED <<stdin, fd, mu, proc, written>>
        /\ \A d \in Callers \ {c} : call'[d] = call[d]
        /\ call[c].pc = "recv" /\ call'[c].pc = "recv"
        /\ call'[c].h = h /\ call'[c].n = call[c].n /\ call'[c].part = call[c].part
    BY <1>10, <1>a DEF StreamStart, InputShape, CallStates
  <2>2. CallsKnow'
    <3>1. \A d \in Callers \ {c} : Knows(d)'
      BY <1>a, <1>d, <2>1 DEF CallsKnow, Knows
    <3>2. Knows(c)'
      BY <1>a, <1>d, <2>1 DEF CallsKnow, Knows, Fields
    <3>3. QED
      BY <3>1, <3>2 DEF CallsKnow
  <2>3. OpenUnlessExited'
    BY <1>a, <1>d, <1>b, <2>1 DEF OpenUnlessExited, CallsKnow, Knows
  <2>4. Quiet
    BY <1>a, <1>d, <2>1 DEF Quiet, Fields, CallsKnow, Knows
  <2>5. QED
    BY <1>c, <2>2, <2>3, <2>4
<1>11. ASSUME NEW c \in Streams, NEW kind \in {"stdin", "pty"}, StreamData(c, kind) PROVE InputInv'
  <2>1. /\ UNCHANGED <<stdin, fd, mu, proc, written>>
        /\ \A d \in Callers \ {c} : call'[d] = call[d]
        /\ call[c].pc = "recv" /\ call'[c].h = call[c].h
        /\ \/ call'[c].pc = "panicked" /\ call'[c].n = call[c].n
           \/ /\ call'[c].pc = "check" /\ call[c].h # None
              /\ call'[c].n = call[c].n + 1 /\ call'[c].part = 0
    <3>1. CASE call[c].h = None
      BY <1>11, <1>a, <3>1, ToMoves DEF StreamData
    <3>2. CASE call[c].h # None
      <4>1. call' = [call EXCEPT ![c] = [pc |-> "check", h |-> call[c].h, kind |-> kind,
                                         n |-> call[c].n + 1, part |-> 0]]
        BY <1>11, <3>2 DEF StreamData
      <4>2. QED
        BY <1>11, <1>a, <3>2, <4>1 DEF StreamData, InputShape
    <3>3. QED
      BY <3>1, <3>2
  <2>2. CallsKnow'
    <3>1. \A d \in Callers \ {c} : Knows(d)'
      BY <1>a, <1>d, <2>1 DEF CallsKnow, Knows
    <3>2. Knows(c)'
      BY <1>a, <1>d, <2>1 DEF CallsKnow, Knows, Fields
    <3>3. QED
      BY <3>1, <3>2 DEF CallsKnow
  <2>3. OpenUnlessExited'
    BY <1>a, <1>d, <1>b, <2>1 DEF OpenUnlessExited, CallsKnow, Knows
  <2>4. Quiet
    BY <1>a, <1>d, <2>1 DEF Quiet, Fields, CallsKnow, Knows
  <2>5. QED
    BY <1>c, <2>2, <2>3, <2>4
<1>12. ASSUME NEW c \in Streams, NEW outcome \in {"done", "failed"},
              StreamEnd(c, outcome)
       PROVE  InputInv'
  <2>1. /\ UNCHANGED <<stdin, fd, mu, proc, written>>
        /\ \A d \in Callers \ {c} : call'[d] = call[d]
        /\ call[c].pc = "recv" /\ call'[c].pc \in {"done", "failed"}
        /\ call'[c].h = call[c].h /\ call'[c].n = call[c].n /\ call'[c].part = call[c].part
    BY <1>12, <1>a DEF StreamEnd, InputShape, CallStates, To
  <2>2. CallsKnow'
    <3>1. \A d \in Callers \ {c} : Knows(d)'
      BY <1>a, <1>d, <2>1 DEF CallsKnow, Knows
    <3>2. Knows(c)'
      BY <1>a, <1>d, <2>1 DEF CallsKnow, Knows, Fields
    <3>3. QED
      BY <3>1, <3>2 DEF CallsKnow
  <2>3. OpenUnlessExited'
    BY <1>a, <1>d, <1>b, <2>1 DEF OpenUnlessExited, CallsKnow, Knows
  <2>4. Quiet
    BY <1>a, <1>d, <2>1 DEF Quiet, Fields, CallsKnow, Knows
  <2>5. QED
    BY <1>c, <2>2, <2>3, <2>4
<1>13. ASSUME NEW c \in Calls, NEW h \in Handlers, NEW kind \in {"stdin",
              "pty"}, SendInput(c, h, kind)
       PROVE  InputInv'
  <2>1. /\ UNCHANGED <<stdin, fd, mu, proc, written>>
        /\ \A d \in Callers \ {c} : call'[d] = call[d]
        /\ call[c].pc = "idle" /\ call'[c].pc = "check"
        /\ call'[c].h = h /\ call'[c].n = 1 /\ call'[c].part = 0
    BY <1>13, <1>a DEF SendInput, InputShape, CallStates
  <2>2. CallsKnow'
    <3>1. \A d \in Callers \ {c} : Knows(d)'
      BY <1>a, <1>d, <2>1 DEF CallsKnow, Knows
    <3>2. Knows(c)'
      BY <1>a, <1>d, <2>1 DEF CallsKnow, Knows, Fields
    <3>3. QED
      BY <3>1, <3>2 DEF CallsKnow
  <2>3. OpenUnlessExited'
    BY <1>a, <1>d, <1>b, <2>1 DEF OpenUnlessExited, CallsKnow, Knows
  <2>4. Quiet
    BY <1>a, <1>d, <2>1 DEF Quiet, Fields, CallsKnow, Knows
  <2>5. QED
    BY <1>c, <2>2, <2>3, <2>4
<1>14. ASSUME NEW c \in Callers, WritePart(c) PROVE InputInv'
  <2> DEFINE h == call[c].h  w == written[h]  v == written'[h]  k == call[c].part + 1
             p == <<c, call[c].n, k>>
  <2>1. /\ UNCHANGED <<stdin, fd, proc>> /\ \A d \in Callers \ {c} : call'[d] = call[d]
        /\ call[c].pc = "write" /\ h \in fd /\ proc[h] # "gone"
        /\ call'[c].h = h /\ call'[c].n = call[c].n /\ call'[c].part = k
        /\ k < Parts[c] => call'[c].pc = "write" /\ mu' = mu
        /\ ~(k < Parts[c]) =>
              /\ IF c \in Streams THEN call'[c].pc = "recv" ELSE call'[c].pc \in {"done", "panicked"}
              /\ mu' = IF mu[h] = c THEN [mu EXCEPT ![h] = None] ELSE mu
    BY <1>a, <1>14 DEF WritePart, InputShape, CallStates, Free, Resumed
  <2>2. /\ c \in Writers /\ h \in Handlers /\ Len(w) \in Nat /\ Len(v) = Len(w) + 1
        /\ v # <<>>
        /\ \A i \in 1..Len(w) : v[i] = w[i]
        /\ v[Len(w) + 1] = p
        /\ \A g \in Handlers \ {h} : written'[g] = written[g]
    BY <1>a, <1>14, Appended
  <2>3. ~Midway(c)
    BY <1>14 DEF WritePart
  <2>4. /\ call[c].n \in Nat /\ call[c].part \in Nat /\ k \in Nat /\ k > 0 /\ Parts[c] \in Nat /\ Parts[c] > 0
        /\ call[c].part < Parts[c] /\ (c \in Calls => call[c].n = 1)
        /\ h \in Tty \/ (mu[h] = c /\ h \in stdin)
        /\ call'[c].n \in Nat
    <3>1. c \in Callers /\ Knows(c)
      BY <1>a DEF CallsKnow
    <3>2. QED
      <4>1. call[c].n \in Nat /\ call[c].part \in Nat /\ call'[c].n \in Nat
        BY <1>a, <3>1 DEF Fields
      <4>2. /\ call[c].part < Parts[c] /\ (c \in Calls => call[c].n = 1)
            /\ h \in Tty \/ (mu[h] = c /\ h \in stdin)
        <5>1. call[c].pc = "write"
          BY <2>1
        <5>2. QED
          BY <3>1, <5>1 DEF Knows
      <4>3. Parts[c] \in Nat /\ Parts[c] > 0
        BY <2>2
      <4>4. QED
        BY <4>1, <4>2, <4>3
  <2>5. p[1] = c /\ p[2] = call[c].n /\ p[3] = k
    OBVIOUS
  <2>6. w # <<>> /\ w[Len(w)][3] < Parts[w[Len(w)][1]] => p = NextPiece(w[Len(w)]) /\ call[c].part > 0
    <3> SUFFICES ASSUME w # <<>>, w[Len(w)][3] < Parts[w[Len(w)][1]]
                 PROVE  p = NextPiece(w[Len(w)]) /\ call[c].part > 0
      OBVIOUS
    <3>1. w[Len(w)] \in AnyPiece
      BY <1>a, <2>2 DEF InputShape
    <3> DEFINE d == w[Len(w)][1]
    <3>2. /\ call[d].pc = "write" /\ call[d].h = h /\ call[d].n = w[Len(w)][2]
          /\ call[d].part = w[Len(w)][3] /\ w[Len(w)][3] > 0
      BY <1>b, <2>1, <2>2 DEF CutMeansOver
    <3>3. d \in Writers
      BY <3>1 DEF AnyPiece
    <3>4. d = c
      BY <2>3, <3>2, <3>3 DEF Midway
    <3>5. QED
      BY <3>2, <3>4 DEF NextPiece
  <2>7. CallsKnow'
    <3>1. \A d \in Callers : call'[d].pc = "write" /\ d # c /\ call[d].h \notin Tty => mu'[call[d].h] = d
      BY <1>a, <2>1, <2>2 DEF CallsKnow, Knows, InputShape
    <3>2. call'[c].pc = "write" /\ h \notin Tty => mu'[h] = c
      BY <2>1, <2>4
    <3> HIDE DEF h, w, v, p
    <3>3. QED
      BY <1>a, <2>1, <2>2, <2>4, <3>1, <3>2 DEF CallsKnow, Knows, Fields
  <2>8. OpenUnlessExited'
    BY <1>b, <2>1 DEF OpenUnlessExited
  <2>9. MidwayIsLast'
    <3> SUFFICES ASSUME NEW d \in Writers, call'[d].pc = "write", call'[d].part > 0
                 PROVE  LET x == written'[call'[d].h] IN
                        x # <<>> /\ x[Len(x)] = <<d, call'[d].n, call'[d].part>>
      BY DEF MidwayIsLast
    <3>1. CASE d = c
      BY <2>1, <2>2, <3>1
    <3>2. CASE d # c
      <4>1. call'[d] = call[d] /\ call[d].h # h
        BY <2>1, <2>3, <3>2 DEF Midway
      <4>2. call[d].h \in Handlers
        BY <1>a, <4>1 DEF CallsKnow, Knows
      <4>3. written'[call[d].h] = written[call[d].h]
        BY <2>2, <4>1, <4>2
      <4>4. QED
        BY <1>b, <4>1, <4>3 DEF MidwayIsLast
    <3>3. QED
      BY <3>1, <3>2
  <2>10. CutMeansOver'
    <3> SUFFICES ASSUME NEW g \in Handlers, written'[g] # <<>>,
                        LET x == written'[g][Len(written'[g])] IN x[3] < Parts[x[1]]
                 PROVE  LET x == written'[g][Len(written'[g])] IN
                        \/ /\ call'[x[1]].pc = "write" /\ call'[x[1]].h = g
                           /\ call'[x[1]].n = x[2] /\ call'[x[1]].part = x[3] /\ x[3] > 0
                        \/ proc'[g] # "run" /\ (g \notin fd' \/ proc'[g] = "gone")
      BY DEF CutMeansOver
    <3>1. CASE g = h
      <4>1. written'[g][Len(written'[g])] = p
        BY <2>2, <3>1
      <4> HIDE DEF p
      <4>2. p[3] < Parts[c] /\ p[1] = c
        BY <2>5, <4>1
      <4>3. /\ call'[c].pc = "write" /\ call'[c].h = g
            /\ call'[c].n = p[2] /\ call'[c].part = p[3] /\ p[3] > 0
        BY <2>1, <2>4, <2>5, <3>1, <4>2
      <4>4. QED
        BY <4>1, <4>2, <4>3
    <3>2. CASE g # h
      <4>1. written'[g] = written[g]
        BY <2>2, <3>2
      <4> DEFINE x == written[g][Len(written[g])]
      <4>2. \/ /\ call[x[1]].pc = "write" /\ call[x[1]].h = g
               /\ call[x[1]].n = x[2] /\ call[x[1]].part = x[3] /\ x[3] > 0
            \/ proc[g] # "run" /\ (g \notin fd \/ proc[g] = "gone")
        BY <1>b, <4>1 DEF CutMeansOver
      <4>3. x \in AnyPiece
        BY <1>a, <4>1 DEF InputShape
      <4>4. x[1] \in Callers
        BY <4>3 DEF AnyPiece
      <4>5. call[x[1]].h = g => call'[x[1]] = call[x[1]]
        BY <2>1, <3>2, <4>4
      <4>6. QED
        BY <2>1, <4>1, <4>2, <4>5
    <3>3. QED
      BY <3>1, <3>2
  <2>11. PiecesFollow'
    <3> SUFFICES ASSUME NEW g \in Handlers, NEW i \in 1..Len(written'[g])
                 PROVE  LET x == written'[g] IN
                        /\ i < Len(x) /\ x[i][3] < Parts[x[i][1]] => x[i + 1] = NextPiece(x[i])
                        /\ x[i][3] > 1 => i > 1 /\ NextPiece(x[i - 1]) = x[i]
      BY DEF PiecesFollow
    <3>1. CASE g # h
      <4>1. written'[g] = written[g]
        BY <2>2, <3>1
      <4>2. QED
        BY <1>b, <4>1 DEF PiecesFollow
    <3>2. CASE g = h /\ i < Len(w)
      <4>1. i \in 1..Len(w) /\ i + 1 \in 1..Len(w) /\ (i > 1 => i - 1 \in 1..Len(w))
        BY <2>2, <3>2
      <4>2. v[i] = w[i] /\ v[i + 1] = w[i + 1] /\ (i > 1 => v[i - 1] = w[i - 1])
        BY <2>2, <4>1
      <4>3. /\ w[i][3] < Parts[w[i][1]] => w[i + 1] = NextPiece(w[i])
            /\ w[i][3] > 1 => i > 1 /\ NextPiece(w[i - 1]) = w[i]
        BY <1>b, <2>2, <3>2, <4>1 DEF PiecesFollow
      <4>4. QED
        BY <3>2, <4>2, <4>3
    <3>3. CASE g = h /\ i = Len(w)
      <4>1. i \in 1..Len(w) /\ (i > 1 => i - 1 \in 1..Len(w)) /\ w # <<>>
        BY <2>2, <3>3
      <4>2. v[i] = w[i] /\ v[i + 1] = p /\ (i > 1 => v[i - 1] = w[i - 1])
        BY <2>2, <3>3, <4>1
      <4>3. w[i][3] > 1 => i > 1 /\ NextPiece(w[i - 1]) = w[i]
        BY <1>b, <2>2, <3>3, <4>1 DEF PiecesFollow
      <4>4. QED
        BY <2>6, <3>3, <4>1, <4>2, <4>3
    <3>4. CASE g = h /\ i = Len(w) + 1
      <4>1. v[i] = p
        BY <2>2, <3>4
      <4>2. ASSUME k > 1 PROVE i > 1 /\ NextPiece(v[i - 1]) = p
        <5>1. w # <<>> /\ w[Len(w)] = <<c, call[c].n, call[c].part>>
          <6>1. call[c].part > 0
            BY <2>4, <4>2
          <6>2. QED
            BY <1>b, <2>1, <2>2, <6>1 DEF MidwayIsLast
        <5>2. Len(w) > 0
          BY <1>a, <2>2, <5>1 DEF InputShape
        <5>3. v[i - 1] = w[Len(w)]
          <6>1. i - 1 = Len(w) /\ Len(w) \in 1..Len(w)
            BY <2>2, <3>4, <5>2
          <6>2. QED
            BY <2>2, <6>1
        <5>4. QED
          BY <2>2, <3>4, <5>1, <5>2, <5>3 DEF NextPiece
      <4>3. ~(i < Len(v))
        BY <2>2, <3>4
      <4> HIDE DEF p, v
      <4>4. QED
        BY <2>5, <3>4, <4>1, <4>2, <4>3 DEF v
    <3>5. QED
      BY <2>2, <3>1, <3>2, <3>3, <3>4
  <2>12. ASSUME ~(k < Parts[c]) PROVE TakenWhole(c, call[c].n)'
    <3>1. k = Parts[c]
      BY <2>4, <2>12
    <3>2. v[Len(v)] = <<c, call[c].n, Parts[c]>>
      BY <2>2, <3>1
    <3>3. v \in Seq(AnyPiece)
      BY <1>a, <2>2 DEF InputShape
    <3>4. Len(v) \in DOMAIN v
      BY <2>2, <3>3
    <3>5. v[Len(v)] \in Range(v)
      BY <3>4 DEF Range
    <3>6. QED
      <4>1. v[Len(v)] = <<c, call'[c].n, Parts[c]>>
        BY <2>1, <3>2
      <4> HIDE DEF v, h
      <4>2. <<c, call'[c].n, Parts[c]>> \in Range(v)
        BY <3>5, <4>1
      <4>3. QED
        BY <2>2, <4>2 DEF TakenWhole, v
  <2>13. StreamsOn'
    <3> SUFFICES ASSUME NEW s \in Streams, NEW n \in Nat, n >= 1,
                        n < call'[s].n \/ (n = call'[s].n /\ call'[s].pc = "recv")
                 PROVE  TakenWhole(s, n)'
      BY DEF StreamsOn
    <3>1. CASE s = c /\ n = call[c].n
      BY <2>1, <2>4, <2>12, <3>1
    <3>2. CASE ~(s = c /\ n = call[c].n)
      <4>1. TakenWhole(s, n)
        BY <1>b, <2>1, <3>2 DEF StreamsOn
      <4>2. QED
        BY <1>a, <4>1, TakenStays
    <3>3. QED
      BY <3>1, <3>2
  <2>14. StreamsRise'
    <3> SUFFICES ASSUME NEW s \in Streams, NEW g \in Handlers
                 PROVE  LET x == written'[g] IN
                        /\ \A i \in 1..Len(x) : x[i][1] = s => x[i][2] <= call'[s].n
                        /\ \A i, j \in 1..Len(x) : i < j /\ x[i][1] = s /\ x[j][1] = s => x[i][2] <= x[j][2]
      BY DEF StreamsRise
    <3>1. call'[s].n = call[s].n
      BY <2>1
    <3>2. CASE g # h
      BY <1>b, <2>2, <3>1, <3>2 DEF StreamsRise
    <3>3. CASE g = h
      <4>1. \A i \in 1..Len(w) : w[i][1] = s => w[i][2] <= call[s].n
        BY <1>b, <2>2 DEF StreamsRise
      <4>2. \A i \in 1..Len(v) : v[i][1] = s => v[i][2] <= call'[s].n
        <5> SUFFICES ASSUME NEW i \in 1..Len(v), v[i][1] = s PROVE v[i][2] <= call'[s].n
          OBVIOUS
        <5>1. CASE i \in 1..Len(w)
          BY <2>2, <3>1, <4>1, <5>1
        <5>2. CASE i = Len(w) + 1
          <6>1. v[i] = p
            BY <2>2, <5>2
          <6>2. s = c
            BY <2>5, <6>1
          <6>3. QED
            BY <2>4, <2>5, <3>1, <6>1, <6>2
        <5>3. i \in 1..Len(w) \/ i = Len(w) + 1
          BY <2>2
        <5>4. QED
          BY <5>1, <5>2, <5>3
      <4>3. \A i, j \in 1..Len(w) : i < j /\ w[i][1] = s /\ w[j][1] = s => w[i][2] <= w[j][2]
        BY <1>b, <2>2 DEF StreamsRise
      <4>4. \A i, j \in 1..Len(v) : i < j /\ v[i][1] = s /\ v[j][1] = s => v[i][2] <= v[j][2]
        <5> SUFFICES ASSUME NEW i \in 1..Len(v), NEW j \in 1..Len(v), i < j, v[i][1] = s, v[j][1] = s
                     PROVE  v[i][2] <= v[j][2]
          OBVIOUS
        <5>1. i \in 1..Len(w) /\ v[i] = w[i]
          BY <2>2
        <5>2. CASE j \in 1..Len(w)
          BY <2>2, <4>3, <5>1, <5>2
        <5>3. CASE j = Len(w) + 1
          <6>1. v[j] = p /\ s = c
            BY <2>2, <2>5, <5>3
          <6>2. w[i][2] <= call[c].n
            BY <4>1, <5>1, <6>1
          <6>3. QED
            BY <2>5, <5>1, <6>1, <6>2
        <5>4. j \in 1..Len(w) \/ j = Len(w) + 1
          BY <2>2
        <5>5. QED
          BY <5>2, <5>3, <5>4
      <4>5. QED
        BY <3>3, <4>2, <4>4
    <3>4. QED
      BY <3>2, <3>3
  <2>15. DoneIsTaken'
    <3> SUFFICES ASSUME NEW t \in Calls, call'[t].pc \in {"done", "panicked"} PROVE TakenWhole(t, 1)'
      BY DEF DoneIsTaken
    <3>1. CASE t = c
      BY <2>1, <2>4, <2>12, <3>1
    <3>2. CASE t # c
      <4>1. TakenWhole(t, 1)
        BY <1>b, <2>1, <3>2 DEF DoneIsTaken
      <4>2. QED
        BY <1>a, <4>1, TakenStays
    <3>3. QED
      BY <3>1, <3>2
  <2>16. QED
    BY <1>a, <2>7, <2>8, <2>9, <2>10, <2>11, <2>13, <2>14, <2>15 DEF InputInv
<1>15. CASE UNCHANGED inputVars
  BY <1>15 DEF inputVars, InputInv, CallsKnow, OpenUnlessExited, MidwayIsLast, CutMeansOver,
     PiecesFollow, StreamsOn, StreamsRise, DoneIsTaken, TakenWhole, InputShape, Knows
<1>16. QED
  BY <1>1, <1>2, <1>3, <1>4, <1>5, <1>6, <1>7, <1>8, <1>9, <1>10, <1>11, <1>12, <1>13, <1>14, <1>15
     DEF InputNext, Proceed, DirectStep, ProcessStep

\* A step of the tunnel is one of the input's, or leaves the input alone.
LEMMA NextIsInput == [Next]_vars => [InputNext]_inputVars
<1> SUFFICES ASSUME [Next]_vars PROVE [InputNext]_inputVars
  OBVIOUS
<1> USE CallerIs
<1>1. ASSUME NEW c \in Conns, Dial(c) \/ Serve(c) \/ BeatStep(c) \/ Network(c)
      PROVE  UNCHANGED inputVars
  BY <1>1 DEF Serve, BeatStep, Network, Dial, Join, Ready, ReadRequest, RunReturns, Beat, Beaten,
     Push, Drop
<1>2. ASSUME NEW t \in Calls, TaskStep(t) PROVE [InputNext]_inputVars
  BY <1>2 DEF TaskStep, Handle, BadPayload, ProxyFails, ResponseSent, SendResponse, Proxy,
     InputNext, DirectStep
<1>3. QED
  BY <1>1, <1>2 DEF Next, InputNext, vars

\* InputInv is an invariant of the whole: the tunnel, the direct clients and the processes.
THEOREM InputHolds == Spec => []InputInv
<1>1. InputInv /\ [Next]_vars => InputInv'
  BY InputStep, NextIsInput
<1>2. QED
  BY <1>1, InputInitial, PTL DEF Spec

\* A process reads whole messages one after the other (handler.go:377-384; os.File for a
\* pty), for any number of callers, processes and pieces: who is midway wrote the last
\* piece, and a message is left unfinished only where nothing more can be written.
THEOREM WholeMessages == Spec => []MessagesWhole
<1>1. ASSUME InputInv PROVE MessagesWhole
  <2> SUFFICES ASSUME NEW h \in Handlers
               PROVE  LET w == written[h] IN
                      /\ \A i \in DOMAIN w : i < Len(w) /\ w[i][3] < Parts[w[i][1]] => w[i + 1] = NextPiece(w[i])
                      /\ \A i \in DOMAIN w : w[i][3] > 1 => i > 1 /\ NextPiece(w[i - 1]) = w[i]
                      /\ w # <<>> /\ Last(w)[3] < Parts[Last(w)[1]] /\ call[Last(w)[1]].pc # "write"
                           => proc[h] # "run"
    BY DEF MessagesWhole
  <2> DEFINE w == written[h]
  <2>1. w \in Seq(AnyPiece) /\ DOMAIN w = 1..Len(w)
    BY <1>1 DEF InputInv, InputShape
  <2>2. Last(w) = w[Len(w)]
    BY DEF Last
  <2>3. w # <<>> /\ w[Len(w)][3] < Parts[w[Len(w)][1]] /\ call[w[Len(w)][1]].pc # "write"
          => proc[h] # "run"
    BY <1>1 DEF InputInv, CutMeansOver
  <2>4. \A i \in 1..Len(w) :
            /\ i < Len(w) /\ w[i][3] < Parts[w[i][1]] => w[i + 1] = NextPiece(w[i])
            /\ w[i][3] > 1 => i > 1 /\ NextPiece(w[i - 1]) = w[i]
    BY <1>1 DEF InputInv, PiecesFollow
  <2> HIDE DEF w
  <2>5. QED
    BY <2>1, <2>2, <2>3, <2>4 DEF w
<1>2. QED
  BY <1>1, InputHolds, PTL

\* A StreamInput call delivers its messages in order and without a gap (input.go:75-78),
\* whatever the handlers it is pointed at and whoever else writes to them.
THEOREM StreamsInOrder == Spec => []StreamHasNoGap
<1>1. ASSUME InputInv PROVE StreamHasNoGap
  <2> SUFFICES ASSUME NEW s \in Streams
               PROVE  /\ \A n \in 1..call[s].n - 1 : TakenWhole(s, n)
                      /\ \A h \in Handlers : \A i, j \in DOMAIN written[h] :
                             /\ i < j /\ written[h][i][1] = s /\ written[h][j][1] = s
                             => written[h][i][2] <= written[h][j][2]
    BY DEF StreamHasNoGap
  <2>1. \A n \in 1..call[s].n - 1 : TakenWhole(s, n)
    <3>1. call[s].n \in Nat
      BY <1>1, FieldsAre, CallerIs DEF InputInv, Fields
    <3>2. QED
      BY <1>1, <3>1 DEF InputInv, StreamsOn
  <2>2. \A h \in Handlers : DOMAIN written[h] = 1..Len(written[h])
    BY <1>1 DEF InputInv, InputShape
  <2>3. QED
    BY <1>1, <2>1, <2>2 DEF InputInv, StreamsRise
<1>2. QED
  BY <1>1, InputHolds, PTL

-----------------------------------------------------------------------------
\* What the backend is told.

\* A request whose goroutine has not called yet has an idle call; one that is being
\* answered has an outcome.
TasksFollow ==
    \A t \in Calls : /\ task[t] \in {"none", "spawned"} => call[t].pc = "idle"
                     /\ task[t] = "send" => call[t].pc \in Outcomes

\* What was granted had succeeded.
GrantedIsDone == granted \subseteq Calls /\ \A t \in granted : call[t].pc = "done"

\* A piece that came through the tunnel is of a request that was pushed.
PiecesPushed ==
    \A h \in Handlers : \A i \in 1..Len(written[h]) :
        written[h][i][1] \in Calls => written[h][i][1] \in pushed

\* What had been granted at a push still is.
AfterIsGranted == after \in [Requests -> SUBSET Calls] /\ \A r \in Requests : after[r] \subseteq granted

\* The second conjunct of AnsweredInOrder.
LaterStandsLater ==
    \A u \in Calls, h \in Handlers : \A t \in after[u[1]] : \A i, j \in 1..Len(written[h]) :
        written[h][i][1] = t /\ written[h][j][1] = u => i < j

AnswerInv == TasksFollow /\ GrantedIsDone /\ PiecesPushed /\ AfterIsGranted /\ LaterStandsLater

\* The invariant holds before the first push.
LEMMA AnswerInitial == Init => AnswerInv
<1> SUFFICES ASSUME Init PROVE AnswerInv
  OBVIOUS
<1>1. TasksFollow
  BY CallerIs, CallersAssumption DEF Init, InputInit, TasksFollow, NoCall
<1>2. GrantedIsDone /\ AfterIsGranted
  BY DEF Init, GrantedIsDone, AfterIsGranted
<1>3. PiecesPushed /\ LaterStandsLater
  BY DEF Init, InputInit, PiecesPushed, LaterStandsLater
<1>4. QED
  BY <1>1, <1>2, <1>3 DEF AnswerInv

\* A call that has not begun or has ended is not moved by a step of the input.
LEMMA CallsSettle ==
    ASSUME InputInv,
           \/ \E c \in Callers : Proceed(c)
           \/ \E c \in Callers \ Calls : DirectStep(c)
           \/ \E h \in Handlers : ProcessStep(h)
    PROVE  \A t \in Calls : call[t].pc \in {"idle", "done", "failed", "panicked"} => call'[t] = call[t]
<1> USE CallerIs, CallersAssumption
<1>1. InputShape
  BY DEF InputInv
<1>2. ASSUME NEW c \in Callers, Proceed(c)
      PROVE  /\ call[c].pc \in {"check", "lock", "write"}
             /\ \A d \in Callers \ {c} : call'[d] = call[d]
  BY <1>1, <1>2 DEF Proceed, CheckTty, WriteStdin, WritePart, WriteFails, CloseStdin, To, InputShape
<1>3. ASSUME NEW c \in Callers \ Calls, DirectStep(c)
      PROVE  \A d \in Callers \ {c} : call'[d] = call[d]
  BY <1>1, <1>3 DEF DirectStep, NotFound, FindToClose, StreamStart, StreamData, StreamEnd, To,
     InputShape
<1>4. ASSUME NEW h \in Handlers, ProcessStep(h) PROVE call' = call
  BY <1>4 DEF ProcessStep, Read, Exit, Wait
<1>5. QED
  BY <1>2, <1>3, <1>4

\* Every step preserves the invariant: only a write adds a piece, of a call that is not
\* over, and a request's first push finds no piece of it.
LEMMA AnswerStep ==
    ASSUME WriterInv, InputInv, AnswerInv, [Next]_vars
    PROVE  AnswerInv'
<1> USE CallIs, CallerIs, CallersAssumption
<1>a. /\ InputShape /\ CallsKnow /\ PushedIsCall
      /\ TasksFollow /\ GrantedIsDone /\ PiecesPushed /\ AfterIsGranted /\ LaterStandsLater
  BY DEF WriterInv, InputInv, AnswerInv
<1>b. task \in [Calls -> {"none", "spawned", "local", "send", "ended"}]
  BY DEF WriterInv, TunnelShape
\* The steps that leave written, pushed, granted and after alone, and move only calls that
\* are neither idle nor over.
<1>c. ASSUME UNCHANGED <<written, pushed, granted, after>>,
             \A t \in Calls : call[t].pc = "done" => call'[t].pc = "done",
             TasksFollow'
      PROVE  AnswerInv'
  <2>1. GrantedIsDone'
    BY <1>a, <1>c DEF GrantedIsDone
  <2>2. PiecesPushed' /\ AfterIsGranted' /\ LaterStandsLater'
    BY <1>a, <1>c DEF PiecesPushed, AfterIsGranted, LaterStandsLater
  <2>3. QED
    BY <1>c, <2>1, <2>2 DEF AnswerInv
<1>1. ASSUME \/ \E c \in Callers : Proceed(c)
             \/ \E c \in Callers \ Calls : DirectStep(c)
             \/ \E h \in Handlers : ProcessStep(h),
             UNCHANGED tunnelVars
      PROVE  AnswerInv'
  <2>1. \A t \in Calls : call[t].pc \in {"idle", "done", "failed", "panicked"} => call'[t] = call[t]
    BY <1>1, CallsSettle
  <2>2. UNCHANGED <<task, pushed, granted, after>>
    BY <1>1 DEF tunnelVars
  <2>3. TasksFollow'
    BY <1>a, <2>1, <2>2 DEF TasksFollow, Outcomes
  <2>4. CASE \E c \in Callers : WritePart(c)
    <3>1. PICK c \in Callers : WritePart(c)
      BY <2>4
    <3> DEFINE h == call[c].h  w == written[h]  v == written'[h]
    <3>2. /\ c \in Writers /\ h \in Handlers /\ Len(w) \in Nat /\ Len(v) = Len(w) + 1
          /\ \A i \in 1..Len(w) : v[i] = w[i]
          /\ v[Len(w) + 1] = <<c, call[c].n, call[c].part + 1>>
          /\ \A g \in Handlers \ {h} : written'[g] = written[g]
      BY <1>a, <3>1, Appended
    <3>3. v[Len(w) + 1][1] = c /\ call[c].pc = "write"
      BY <3>1, <3>2 DEF WritePart
    <3> HIDE DEF h, w, v
    <3>4. \A i \in 1..Len(v) : i \in 1..Len(w) \/ i = Len(w) + 1
      BY <3>2
    <3>5. GrantedIsDone' /\ AfterIsGranted'
      BY <1>a, <2>1, <2>2 DEF GrantedIsDone, AfterIsGranted
    <3>6. PiecesPushed'
      <4> SUFFICES ASSUME NEW g \in Handlers, NEW i \in 1..Len(written'[g]), written'[g][i][1] \in Calls
                   PROVE  written'[g][i][1] \in pushed
        BY <2>2 DEF PiecesPushed
      <4>1. CASE g # h
        BY <1>a, <3>2, <4>1 DEF PiecesPushed
      <4>2. CASE g = h /\ i \in 1..Len(w)
        BY <1>a, <3>2, <4>2 DEF PiecesPushed, w, v
      <4>3. CASE g = h /\ i = Len(w) + 1
        <5>1. c \in Calls /\ written'[g][i][1] = c
          BY <3>3, <4>3 DEF v
        <5>2. task[c] # "none"
          BY <1>a, <3>3, <5>1 DEF TasksFollow
        <5>3. QED
          BY <1>a, <5>1, <5>2 DEF PushedIsCall
      <4>4. QED
        BY <3>4, <4>1, <4>2, <4>3 DEF v
    <3>7. LaterStandsLater'
      <4> SUFFICES ASSUME NEW u \in Calls, NEW g \in Handlers, NEW t \in after[u[1]],
                          NEW i \in 1..Len(written'[g]), NEW j \in 1..Len(written'[g]),
                          written'[g][i][1] = t, written'[g][j][1] = u
                   PROVE  i < j
        BY <2>2 DEF LaterStandsLater
      <4>1. t # c
        BY <1>a, <3>3 DEF AfterIsGranted, GrantedIsDone
      <4>2. CASE g # h
        BY <1>a, <3>2, <4>2 DEF LaterStandsLater
      <4>3. CASE g = h
        <5>1. i \in 1..Len(w)
          BY <3>3, <3>4, <4>1, <4>3 DEF v
        <5>2. CASE j \in 1..Len(w)
          <6>1. written[g][i][1] = t /\ written[g][j][1] = u /\ i \in 1..Len(written[g]) /\ j \in 1..Len(written[g])
            BY <3>2, <4>3, <5>1, <5>2 DEF w, v
          <6>2. QED
            BY <1>a, <6>1 DEF LaterStandsLater
        <5>3. CASE j = Len(w) + 1
          BY <3>2, <5>1, <5>3
        <5>4. QED
          BY <3>4, <4>3, <5>2, <5>3 DEF v
      <4>4. QED
        BY <4>2, <4>3
    <3>8. QED
      BY <2>3, <3>5, <3>6, <3>7 DEF AnswerInv
  <2>5. CASE ~\E c \in Callers : WritePart(c)
    <3>1. written' = written
      BY <1>1, <2>5 DEF Proceed, DirectStep, ProcessStep, Read, Exit, Wait, CheckTty, WriteStdin,
         WriteFails,
         CloseStdin, NotFound, FindToClose, StreamStart, StreamData, StreamEnd
    <3>2. QED
      BY <1>c, <2>1, <2>2, <2>3, <3>1
  <2>6. QED
    BY <2>4, <2>5
<1>2. ASSUME NEW t \in Calls, ProxyFails(t) \/ \E h \in Handlers, kind \in {"stdin", "pty"} : Proxy(t, h, kind)
      PROVE  AnswerInv'
  <2>1. /\ UNCHANGED <<written, pushed, granted, after>>
        /\ task' = [task EXCEPT ![t] = "local"] /\ call[t].pc = "idle"
        /\ \A u \in Callers \ {t} : call'[u] = call[u]
    BY <1>2, <1>a DEF ProxyFails, Proxy, NotFound, SendInput, To, InputShape
  <2>2. TasksFollow'
    BY <1>a, <1>b, <2>1 DEF TasksFollow
  <2>3. QED
    BY <1>c, <2>1, <2>2
<1>3. ASSUME NEW t \in Calls, BadPayload(t) \/ SendResponse(t) PROVE AnswerInv'
  <2>1. /\ UNCHANGED <<written, call, pushed, granted, after>>
        /\ \/ task' = [task EXCEPT ![t] = "ended"]
           \/ task' = [task EXCEPT ![t] = "send"] /\ call[t].pc \in Outcomes
    BY <1>3 DEF BadPayload, SendResponse, inputVars
  <2>2. TasksFollow'
    BY <1>a, <1>b, <2>1 DEF TasksFollow
  <2>3. QED
    BY <1>c, <2>1, <2>2
<1>4. ASSUME NEW t \in Calls, ResponseSent(t) PROVE AnswerInv'
  <2>1. /\ UNCHANGED <<written, call, pushed, after>>
        /\ task' = [task EXCEPT ![t] = "ended"] /\ task[t] = "send"
        /\ granted' = granted \/ (granted' = granted \cup {t} /\ call[t].pc \notin {"failed", "panicked"})
    BY <1>4 DEF ResponseSent, inputVars
  <2>2. TasksFollow'
    BY <1>a, <1>b, <2>1 DEF TasksFollow
  <2>3. call[t].pc \notin {"failed", "panicked"} => call[t].pc = "done"
    BY <1>a, <2>1 DEF TasksFollow, Outcomes
  <2>4. GrantedIsDone' /\ AfterIsGranted'
    BY <1>a, <2>1, <2>3 DEF GrantedIsDone, AfterIsGranted
  <2>5. PiecesPushed' /\ LaterStandsLater'
    BY <1>a, <2>1 DEF PiecesPushed, LaterStandsLater
  <2>6. QED
    BY <2>2, <2>4, <2>5 DEF AnswerInv
<1>5. ASSUME NEW c \in Conns, NEW r \in Requests, Push(r, c) PROVE AnswerInv'
  <2>1. /\ UNCHANGED <<written, call, task, granted>> /\ pushed' = pushed \cup {<<r, c>>}
        /\ after' = IF \E d \in Conns : <<r, d>> \in pushed THEN after ELSE [after EXCEPT ![r] = granted]
    BY <1>5 DEF Push, inputVars
  <2>2. TasksFollow' /\ GrantedIsDone' /\ PiecesPushed'
    BY <1>a, <2>1 DEF TasksFollow, GrantedIsDone, PiecesPushed
  <2>3. AfterIsGranted'
    BY <1>a, <2>1 DEF AfterIsGranted, GrantedIsDone
  <2>4. LaterStandsLater'
    <3> SUFFICES ASSUME NEW u \in Calls, NEW h \in Handlers, NEW t \in after'[u[1]],
                        NEW i \in 1..Len(written[h]), NEW j \in 1..Len(written[h]),
                        written[h][i][1] = t, written[h][j][1] = u
                 PROVE  i < j
      BY <2>1 DEF LaterStandsLater
    <3>1. u \in pushed
      BY <1>a DEF PiecesPushed
    <3>2. after'[u[1]] = after[u[1]]
      <4>1. CASE u[1] = r
        BY <2>1, <3>1, <4>1
      <4>2. CASE u[1] # r
        BY <1>a, <2>1, <4>2 DEF AfterIsGranted
      <4>3. QED
        BY <4>1, <4>2
    <3>3. QED
      BY <1>a, <3>2 DEF LaterStandsLater
  <2>5. QED
    BY <2>2, <2>3, <2>4 DEF AnswerInv
<1>6. ASSUME NEW c \in Conns, ReadRequest(c) PROVE AnswerInv'
  <2>1. UNCHANGED <<written, call, pushed, granted, after>>
    BY <1>6 DEF ReadRequest, inputVars
  <2>2. TasksFollow'
    <3>1. Head(queue[c]) = queue[c][1] /\ 1 \in 1..Len(queue[c])
      BY <1>6, HeadTailProperties DEF ReadRequest, WriterInv, TunnelShape
    <3>2. task[<<Head(queue[c]), c>>] = "none"
      BY <3>1 DEF WriterInv, QueuedIsNew
    <3>3. task' = [task EXCEPT ![<<Head(queue[c]), c>>] = "spawned"]
      BY <1>6 DEF ReadRequest
    <3>4. QED
      BY <1>a, <1>b, <2>1, <3>2, <3>3 DEF TasksFollow
  <2>3. QED
    BY <1>c, <2>1, <2>2
<1>7. ASSUME UNCHANGED <<written, call, task, pushed, granted, after>> PROVE AnswerInv'
  <2>1. TasksFollow'
    BY <1>a, <1>7 DEF TasksFollow
  <2>2. QED
    BY <1>7, <1>c, <2>1
<1>8. ASSUME NEW c \in Conns, Dial(c) \/ Join(c) \/ Ready(c) \/ RunReturns(c) \/ BeatStep(c)
                              \/ \E lost \in BOOLEAN : Drop(c, lost)
      PROVE  AnswerInv'
  BY <1>7, <1>8 DEF Dial, Join, Ready, RunReturns, BeatStep, Beat, Beaten, Drop, inputVars
<1>9. CASE UNCHANGED vars
  BY <1>7, <1>9 DEF vars, inputVars, tunnelVars
<1>10. QED
  BY <1>1, <1>2, <1>3, <1>4, <1>5, <1>6, <1>8, <1>9 DEF Next, Serve, Network, TaskStep, Handle

\* A successful answer means that the input was taken whole and stands before that of every
\* request first pushed after it (tunnel.go:101), for any number of requests, connections
\* and copies of a request.
THEOREM AnswersInOrder == Spec => []AnsweredInOrder
<1>1. ASSUME InputInv, AnswerInv PROVE AnsweredInOrder
  <2>1. \A t \in granted : TakenWhole(t, 1)
    BY <1>1 DEF InputInv, AnswerInv, DoneIsTaken, GrantedIsDone
  <2>2. \A h \in Handlers : DOMAIN written[h] = 1..Len(written[h])
    BY <1>1 DEF InputInv, InputShape
  <2>3. QED
    BY <1>1, <2>1, <2>2 DEF AnswerInv, LaterStandsLater, AnsweredInOrder
<1>2. WriterInv /\ InputInv /\ AnswerInv /\ [Next]_vars => (WriterInv /\ InputInv /\ AnswerInv)'
  BY WriterStep, InputStep, NextIsInput, AnswerStep
<1>3. QED
  BY <1>1, <1>2, WriterInitial, InputInitial, AnswerInitial, PTL DEF Spec
=============================================================================
