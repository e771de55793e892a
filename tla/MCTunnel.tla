------------------------------ MODULE MCTunnel -------------------------------
(* Two processes, one with a pty.  A behaviour has clients of the server's own or a
   backend that pushes input through the tunnel: a stream of any messages with a
   CloseStdin, or two streams whose messages of two pieces meet at one process, or
   requests, copies of requests and a malformed one, all for one process. *)
EXTENDS Tunnel

CONSTANTS r1, r2, r3, s1, s2

MCRequests == {r1, r2, r3}
MCCalls == {<<r1, 1>>, <<r1, 2>>, <<r2, 2>>, <<r3, 1>>}
MCParts == [c \in Writers |-> IF c \in Streams THEN 2 ELSE 1]

\* A client that has done nothing.
Untouched(x) == call[x].h = None /\ call[x].pc \in {"idle", "recv"}

\* Input of the kind that its process takes.
Fits(x) == call[x].n = 0 \/ (call[x].kind = "pty" <=> call[x].h \in Tty)

Direct == link[1] = "none"
OneStream == Direct /\ Untouched(s2)
TwoStreams ==
    /\ Direct /\ \A x \in Closers : Untouched(x)
    /\ \A s \in Streams : call[s].n < 2 /\ Fits(s)
    /\ call[s1].h = call[s2].h \/ \E s \in Streams : Untouched(s)
Tunnelled ==
    /\ \A x \in Streams \cup Closers : Untouched(x)
    /\ \A t \in Calls : Fits(t)
    /\ \E h \in Handlers : \A t \in Calls : call[t].h \in {None, h}
    /\ \A h \in Handlers : proc[h] = "run"
    /\ link[2] # "none" => 2 \in up
    /\ <<r3, 1>> \in pushed => pushed = {<<r3, 1>>} /\ link[2] = "none"

Apart == OneStream \/ TwoStreams \/ Tunnelled

MCNext == Next /\ Apart'

MCSpec == Init /\ [][MCNext]_vars /\ Fairness
=============================================================================
