------------------------------- MODULE Tunnel --------------------------------
(***************************************************************************)
(* The reverse tunnel (internal/tunnel/tunnel.go): one websocket at a     *)
(* time to the backend, redialled when it breaks, with one goroutine for  *)
(* each request that comes in, a heartbeat, and a mutex for writing.  The *)
(* requests are SendInput calls (Input), made on the agent's own server:  *)
(* the tunnel carries unary requests only.                                *)
(*                                                                         *)
(* External: the backend pushes its requests in any order, without        *)
(* waiting or after an answer, and pushes an unanswered one again on a    *)
(* later connection.  A websocket delivers in order until it breaks.      *)
(* Dials that fail, the pause before the next, and messages other than    *)
(* requests change nothing.                                               *)
(***************************************************************************)
EXTENDS Input

CONSTANTS
    Requests,   \* what the backend asks for; Calls: on which connections it may
    Malformed,  \* those whose payload does not parse
    MaxConns    \* bound: connections

Conns == 1..MaxConns

ASSUME RequestsAssumption ==
    Calls \subseteq Requests \X Conns /\ Malformed \subseteq Requests /\ MaxConns \in Nat

VARIABLES
    link,       \* run, for each connection
    up,         \* connections that are not broken
    queue,      \* requests pushed on a connection and not read
    task,       \* handleRequest, for each request read on a connection
    hb,         \* the heartbeat of a connection
    connMu,     \* connections whose mu is held
    writing,    \* how many are in WriteJSON on a connection
    pushed,     \* <<r, c>> for each push
    answered,   \* <<r, c>> for each answer the backend has got
    granted,    \* those that report success
    after       \* history: what had been granted when a request was first pushed

tunnelVars == <<link, up, queue, task, hb, connMu, writing, pushed, answered, granted, after>>
vars == <<inputVars, tunnelVars>>

TypeOK ==
    /\ InputTypeOK
    /\ link \in [Conns -> {"none", "dialled", "joined", "ready", "serve", "closed"}]
    /\ up \subseteq Conns /\ connMu \subseteq Conns
    /\ queue \in [Conns -> Seq(Requests)]
    /\ task \in [Calls -> {"none", "spawned", "local", "send", "ended"}]
    /\ hb \in [Conns -> {"none", "idle", "write", "ended"}]
    /\ writing \in [Conns -> 0..2]
    /\ pushed \subseteq Calls /\ answered \subseteq pushed /\ granted \subseteq answered
    /\ after \in [Requests -> SUBSET Calls]

Init ==
    /\ InputInit
    /\ link = [c \in Conns |-> "none"] /\ up = {}
    /\ queue = [c \in Conns |-> <<>>]
    /\ task = [t \in Calls |-> "none"]
    /\ hb = [c \in Conns |-> "none"]
    /\ connMu = {} /\ writing = [c \in Conns |-> 0]
    /\ pushed = {} /\ answered = {} /\ granted = {}
    /\ after = [r \in Requests |-> {}]
-----------------------------------------------------------------------------
(***************************************************************************)
(* Start and run.                                                         *)
(***************************************************************************)
\* Start calls run again when it has returned.
Dial(c) ==
    /\ link[c] = "none" /\ \A d \in Conns : d < c => link[d] = "closed"
    /\ link' = [link EXCEPT ![c] = "dialled"] /\ up' = up \cup {c}
    /\ UNCHANGED <<inputVars, queue, task, hb, connMu, writing, pushed, answered, granted,
                   after>>

\* The join message and its reply.
Join(c) ==
    /\ link[c] = "dialled" /\ c \in up
    /\ link' = [link EXCEPT ![c] = "joined"]
    /\ UNCHANGED <<inputVars, up, queue, task, hb, connMu, writing, pushed, answered, granted, after>>

\* Mutant of Ready: the heartbeat is started before the ready message is written.
ReadyBeating(c) ==
    \/ /\ link[c] = "joined"
       /\ link' = [link EXCEPT ![c] = "ready"]
       /\ writing' = [writing EXCEPT ![c] = @ + 1]
       /\ hb' = [hb EXCEPT ![c] = "idle"]
       /\ UNCHANGED <<inputVars, up, queue, task, connMu, pushed, answered, granted, after>>
    \/ /\ link[c] = "ready"
       /\ link' = [link EXCEPT ![c] = "serve"]
       /\ writing' = [writing EXCEPT ![c] = @ - 1]
       /\ UNCHANGED <<inputVars, up, queue, task, hb, connMu, pushed, answered, granted, after>>

\* The ready message, written without the mutex and with its error ignored; then the
\* heartbeat starts.
Ready(c) ==
    \/ /\ link[c] = "joined"
       /\ link' = [link EXCEPT ![c] = "ready"]
       /\ writing' = [writing EXCEPT ![c] = @ + 1]
       /\ UNCHANGED <<inputVars, up, queue, task, hb, connMu, pushed, answered, granted, after>>
    \/ /\ link[c] = "ready"
       /\ link' = [link EXCEPT ![c] = "serve"]
       /\ writing' = [writing EXCEPT ![c] = @ - 1]
       /\ hb' = [hb EXCEPT ![c] = "idle"]
       /\ UNCHANGED <<inputVars, up, queue, task, connMu, pushed, answered, granted, after>>

\* ReadMessage gives a request, and go handleRequest.
ReadRequest(c) ==
    /\ link[c] = "serve" /\ queue[c] # <<>>
    /\ queue' = [queue EXCEPT ![c] = Tail(@)]
    /\ task' = [task EXCEPT ![<<Head(queue[c]), c>>] = "spawned"]
    /\ UNCHANGED <<inputVars, link, up, hb, connMu, writing, pushed, answered, granted, after>>

\* The join fails, or ReadMessage: run returns and closes the connection.
RunReturns(c) ==
    /\ link[c] \in {"dialled", "serve"} /\ c \notin up /\ queue[c] = <<>>
    /\ link' = [link EXCEPT ![c] = "closed"]
    /\ UNCHANGED <<inputVars, up, queue, task, hb, connMu, writing, pushed, answered, granted,
                   after>>
-----------------------------------------------------------------------------
(***************************************************************************)
(* handleRequest.                                                         *)
(***************************************************************************)
\* The payload does not parse: no response is sent.
BadPayload(t) ==
    /\ task[t] = "spawned" /\ t[1] \in Malformed
    /\ task' = [task EXCEPT ![t] = "ended"]
    /\ UNCHANGED <<inputVars, link, up, queue, hb, connMu, writing, pushed, answered, granted,
                   after>>

\* Mutant of ProxyFails: the error is logged and not sent.
ProxyFailsSilently(t) ==
    /\ task[t] = "spawned" /\ t[1] \notin Malformed
    /\ task' = [task EXCEPT ![t] = "ended"]
    /\ NotFound(t)
    /\ UNCHANGED <<link, up, queue, hb, connMu, writing, pushed, answered, granted, after>>

\* NewRequest or Do fails (500, 502), or the service finds no process.
ProxyFails(t) ==
    /\ task[t] = "spawned" /\ t[1] \notin Malformed
    /\ task' = [task EXCEPT ![t] = "local"]
    /\ NotFound(t)
    /\ UNCHANGED <<link, up, queue, hb, connMu, writing, pushed, answered, granted, after>>

\* Do: the agent's server runs SendInput.
Proxy(t, h, kind) ==
    /\ task[t] = "spawned" /\ t[1] \notin Malformed
    /\ task' = [task EXCEPT ![t] = "local"]
    /\ SendInput(t, h, kind)
    /\ UNCHANGED <<link, up, queue, hb, connMu, writing, pushed, answered, granted, after>>

\* Mutant of SendResponse: it does not wait for the local response.
SendResponseEarly(t) ==
    /\ task[t] = "local" /\ t[2] \notin connMu
    /\ task' = [task EXCEPT ![t] = "send"]
    /\ connMu' = connMu \cup {t[2]}
    /\ writing' = [writing EXCEPT ![t[2]] = @ + 1]
    /\ UNCHANGED <<inputVars, link, up, queue, hb, pushed, answered, granted, after>>

\* The local response is there.  sendResponse: mu.Lock, then WriteJSON on the connection
\* the request came by.
SendResponse(t) ==
    /\ task[t] = "local" /\ call[t].pc \in Outcomes /\ t[2] \notin connMu
    /\ task' = [task EXCEPT ![t] = "send"]
    /\ connMu' = connMu \cup {t[2]}
    /\ writing' = [writing EXCEPT ![t[2]] = @ + 1]
    /\ UNCHANGED <<inputVars, link, up, queue, hb, pushed, answered, granted, after>>

\* WriteJSON returns; its error is ignored, so that the response is lost when the
\* connection is broken or closed.  Do fails where the handler panicked: 502, although the
\* input was taken.
ResponseSent(t) ==
    /\ task[t] = "send"
    /\ task' = [task EXCEPT ![t] = "ended"]
    /\ connMu' = connMu \ {t[2]}
    /\ writing' = [writing EXCEPT ![t[2]] = @ - 1]
    /\ answered' = IF t[2] \in up THEN answered \cup {t} ELSE answered
    /\ granted' = IF t[2] \in up /\ call[t].pc \notin {"failed", "panicked"}
                  THEN granted \cup {t} ELSE granted
    /\ UNCHANGED <<inputVars, link, up, queue, hb, pushed, after>>
-----------------------------------------------------------------------------
(***************************************************************************)
(* heartbeat.                                                             *)
(***************************************************************************)
Beat(c) ==
    /\ hb[c] = "idle" /\ c \notin connMu
    /\ hb' = [hb EXCEPT ![c] = "write"]
    /\ connMu' = connMu \cup {c}
    /\ writing' = [writing EXCEPT ![c] = @ + 1]
    /\ UNCHANGED <<inputVars, link, up, queue, task, pushed, answered, granted, after>>

\* Mutant of Beaten: the heartbeat keeps the mutex when it gives up.
BeatenLocked(c) ==
    /\ hb[c] = "write"
    /\ hb' = [hb EXCEPT ![c] = IF c \in up THEN "idle" ELSE "ended"]
    /\ connMu' = IF c \in up THEN connMu \ {c} ELSE connMu
    /\ writing' = [writing EXCEPT ![c] = @ - 1]
    /\ UNCHANGED <<inputVars, link, up, queue, task, pushed, answered, granted, after>>

\* It ends when a write fails.
Beaten(c) ==
    /\ hb[c] = "write"
    /\ hb' = [hb EXCEPT ![c] = IF c \in up THEN "idle" ELSE "ended"]
    /\ connMu' = connMu \ {c}
    /\ writing' = [writing EXCEPT ![c] = @ - 1]
    /\ UNCHANGED <<inputVars, link, up, queue, task, pushed, answered, granted, after>>
-----------------------------------------------------------------------------
(***************************************************************************)
(* The backend and the network.                                           *)
(***************************************************************************)
\* A request not answered yet, and not under way on a connection that works.
Push(r, c) ==
    /\ <<r, c>> \in Calls /\ c \in up /\ link[c] \in {"joined", "ready", "serve"}
    /\ \A d \in Conns : <<r, d>> \in pushed => d \notin up /\ <<r, d>> \notin answered
    /\ queue' = [queue EXCEPT ![c] = Append(@, r)]
    /\ pushed' = pushed \cup {<<r, c>>}
    /\ after' = IF \E d \in Conns : <<r, d>> \in pushed THEN after
                ELSE [after EXCEPT ![r] = granted]
    /\ UNCHANGED <<inputVars, link, up, task, hb, connMu, writing, answered, granted>>

\* The connection breaks; what the agent had not received is lost, or was there already.
Drop(c, lost) ==
    /\ c \in up
    /\ up' = up \ {c}
    /\ queue' = IF lost THEN [queue EXCEPT ![c] = <<>>] ELSE queue
    /\ UNCHANGED <<inputVars, link, task, hb, connMu, writing, pushed, answered, granted, after>>
-----------------------------------------------------------------------------
Serve(c) == Join(c) \/ Ready(c) \/ ReadRequest(c) \/ RunReturns(c)

Handle(t) == BadPayload(t) \/ ProxyFails(t) \/ ResponseSent(t)

TaskStep(t) ==
    \/ Handle(t) \/ SendResponse(t)
    \/ \E h \in Handlers, kind \in {"stdin", "pty"} : Proxy(t, h, kind)

BeatStep(c) == Beat(c) \/ Beaten(c)

Network(c) == (\E r \in Requests : Push(r, c)) \/ \E lost \in BOOLEAN : Drop(c, lost)

Next ==
    \/ \E c \in Callers : Proceed(c) /\ UNCHANGED tunnelVars
    \/ \E c \in Callers \ Calls : DirectStep(c) /\ UNCHANGED tunnelVars
    \/ \E h \in Handlers : ProcessStep(h) /\ UNCHANGED tunnelVars
    \/ \E c \in Conns : Dial(c) \/ Serve(c) \/ BeatStep(c) \/ Network(c)
    \/ \E t \in Calls : TaskStep(t)

Fairness ==
    /\ \A c \in Callers : WF_vars(Proceed(c) /\ UNCHANGED tunnelVars)
    /\ \A c \in Conns : WF_vars(Serve(c)) /\ WF_vars(BeatStep(c))
    /\ \A t \in Calls : WF_vars(Handle(t)) /\ SF_vars(SendResponse(t))

Spec == Init /\ [][Next]_vars /\ Fairness
-----------------------------------------------------------------------------
\* At most one goroutine is in WriteJSON on a connection: gorilla's websocket panics
\* when it finds a second.  The ready message is written without mu (tunnel.go:78), the
\* heartbeat and the responses with it (tunnel.go:150, 166).
OneWriter == \A c \in Conns : writing[c] <= 1

\* What a successful answer means to the backend: the input was taken whole, and it stands
\* before that of every request first pushed after the answer came, whichever connection
\* or copy carried either.  (Requests pushed without waiting may be taken in any order:
\* tunnel.go:101 starts a goroutine for each.)
AnsweredInOrder ==
    /\ \A t \in granted : TakenWhole(t, 1)
    /\ \A u \in Calls, h \in Handlers : \A t \in after[u[1]] :
           \A i, j \in DOMAIN written[h] :
               written[h][i][1] = t /\ written[h][j][1] = u => i < j

\* A request read on a connection is answered there, unless that connection breaks, its
\* payload is malformed (tunnel.go:113), or its process stops reading.
Answers ==
    \A t \in Calls :
        task[t] # "none" /\ t[1] \notin Malformed ~>
            \/ t \in answered \/ t[2] \notin up
            \/ call[t].h # None /\ Stalled(call[t].h)

\* When a connection has broken, everything that used it ends: run returns, the heartbeat
\* stops at its next write and the old connection's mutex is given up.
Abandons ==
    \A c \in Conns : link[c] # "none" /\ c \notin up ~>
        link[c] = "closed" /\ hb[c] \in {"none", "ended"} /\ c \notin connMu
=============================================================================
