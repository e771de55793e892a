-------------------------------- MODULE Input --------------------------------
(***************************************************************************)
(* Input of processes: SendInput, StreamInput and CloseStdin              *)
(* (internal/services/process/input.go) on the handlers' WriteStdin,      *)
(* WriteTty and CloseStdin (handler/handler.go), with stdinMu and the     *)
(* pipe or pty behind it.                                                 *)
(*                                                                         *)
(* A message is the pair of the caller and its number; the kernel takes   *)
(* it in one or more pieces.  External: the operating system's pipe holds *)
(* PipeCap pieces, a write to it blocks while it is full, fails when the  *)
(* reading or the writing end is closed, and os.File lets one write at a  *)
(* time through.  What getProcess finds is the subject of ProcessTable:   *)
(* here it is any handler or none.  Keepalive messages change nothing.    *)
(***************************************************************************)
EXTENDS Integers, Sequences, SequencesExt

CONSTANTS
    Handlers,   \* processes that can be found
    Tty,        \* those with a pty
    NoStdin,    \* those started with stdin disabled
    Calls,      \* SendInput calls
    Streams,    \* StreamInput calls
    Closers,    \* CloseStdin calls
    None,       \* no handler, no owner of a mutex
    Parts,      \* pieces of a message, for each caller that writes
    PipeCap,    \* pieces a pipe holds
    MaxData     \* bound: data messages of a StreamInput call

Writers == Calls \cup Streams
Callers == Writers \cup Closers

ASSUME HandlersAssumption ==
    /\ Tty \subseteq Handlers /\ NoStdin \subseteq Handlers \ Tty
    /\ None \notin Handlers /\ None \notin Callers
ASSUME CallersAssumption ==
    /\ Calls \cap Streams = {} /\ Closers \cap Writers = {}
ASSUME BoundsAssumption == Parts \in [Writers -> Nat \ {0}] /\ PipeCap \in Nat \ {0} /\ MaxData \in Nat

VARIABLES
    stdin,      \* handlers whose field stdin is not nil
    fd,         \* handlers whose writing end, pipe or pty, is open
    mu,         \* stdinMu: who holds it
    proc,       \* "run"; "orphan": exited, a child still has its stdin; "gone"
    written,    \* history: the pieces the kernel has taken: <<caller, n, part>>
    unread,     \* how many of them the process has not read
    call        \* each caller: where it is, on which handler, with what

inputVars == <<stdin, fd, mu, proc, written, unread, call>>

Pieces == UNION {{c} \X (1..MaxData + 1) \X (1..Parts[c]) : c \in Writers}
Outcomes == {"done", "failed", "panicked"}

\* pc: "idle"; "recv" a stream in Receive; "check" before the test of tty; "lock"
\* before stdinMu; "write" in Write with part pieces taken; or an outcome.
NoCall == [pc |-> "idle", h |-> None, kind |-> "stdin", n |-> 0, part |-> 0]

InputTypeOK ==
    /\ stdin \subseteq Handlers /\ fd \subseteq Handlers
    /\ mu \in [Handlers -> Callers \cup {None}]
    /\ proc \in [Handlers -> {"run", "orphan", "gone"}]
    /\ written \in [Handlers -> Seq(Pieces)]
    /\ unread \in [Handlers -> 0..PipeCap]
    /\ call \in [Callers -> [pc : {"idle", "recv", "check", "lock", "write"} \cup Outcomes,
                             h : Handlers \cup {None}, kind : {"stdin", "pty"},
                             n : 0..MaxData + 1, part : Nat]]

InputInit ==
    /\ stdin = Handlers \ (Tty \cup NoStdin)
    /\ fd = Handlers \ NoStdin
    /\ mu = [h \in Handlers |-> None]
    /\ proc = [h \in Handlers |-> "run"]
    /\ written = [h \in Handlers |-> <<>>]
    /\ unread = [h \in Handlers |-> 0]
    /\ call = [c \in Callers |-> [NoCall EXCEPT !.pc = IF c \in Streams THEN "recv"
                                                       ELSE "idle"]]
-----------------------------------------------------------------------------
(***************************************************************************)
(* The process and Wait.                                                  *)
(***************************************************************************)
Read(h) ==
    /\ proc[h] # "gone" /\ unread[h] > 0
    /\ unread' = [unread EXCEPT ![h] = @ - 1]
    /\ UNCHANGED <<stdin, fd, mu, proc, written, call>>

Exit(h, left) ==
    /\ \/ proc[h] = "run" /\ left \in {"orphan", "gone"}
       \/ proc[h] = "orphan" /\ left = "gone"
    /\ proc' = [proc EXCEPT ![h] = left]
    /\ UNCHANGED <<stdin, fd, mu, written, unread, call>>

\* cmd.Wait closes the pipe, and Wait the pty, without stdinMu, once the output has
\* ended: a child of the process may keep that from happening.
Wait(h) ==
    /\ proc[h] # "run" /\ h \in fd
    /\ fd' = fd \ {h}
    /\ UNCHANGED <<stdin, mu, proc, written, unread, call>>
-----------------------------------------------------------------------------
(***************************************************************************)
(* The callers.                                                           *)
(***************************************************************************)
To(c, pc) == call' = [call EXCEPT ![c].pc = pc]

\* Where handleInput goes once the input was written.  A stream receives again; its context
\* has an operation ID, which that of a SendInput call has not, so that the log line after
\* a write to stdin panics; net/http recovers and drops the client's connection.
Resumed(c) == IF c \in Streams THEN "recv"
              ELSE IF call[c].kind = "stdin" THEN "panicked" ELSE "done"

Free(c, h) == IF mu[h] = c THEN mu' = [mu EXCEPT ![h] = None] ELSE UNCHANGED mu

\* SendInput: getProcess, then handleInput.
SendInput(c, h, kind) ==
    /\ c \in Calls /\ call[c].pc = "idle"
    /\ call' = [call EXCEPT ![c] = [pc |-> "check", h |-> h, kind |-> kind, n |-> 1, part |-> 0]]
    /\ UNCHANGED <<stdin, fd, mu, proc, written, unread>>

\* SendInput, CloseStdin, or the start message of StreamInput: getProcess finds none.
NotFound(c) ==
    /\ call[c].pc = IF c \in Streams THEN "recv" ELSE "idle"
    /\ To(c, "failed")
    /\ UNCHANGED <<stdin, fd, mu, proc, written, unread>>

\* StreamInputRequest_Start, the first one or a later one.
StreamStart(s, h) ==
    /\ call[s].pc = "recv"
    /\ call' = [call EXCEPT ![s].h = h]
    /\ UNCHANGED <<stdin, fd, mu, proc, written, unread>>

\* StreamInputRequest_Data; before any start message the handler is nil, and the
\* read of its field tty panics.
StreamData(s, kind) ==
    /\ call[s].pc = "recv" /\ call[s].n < MaxData
    /\ IF call[s].h = None
       THEN To(s, "panicked")
       ELSE call' = [call EXCEPT ![s] = [pc |-> "check", h |-> call[s].h, kind |-> kind,
                                         n |-> call[s].n + 1, part |-> 0]]
    /\ UNCHANGED <<stdin, fd, mu, proc, written, unread>>

\* The client ends its messages, breaks off, or sends one of no known type.
StreamEnd(s, outcome) ==
    /\ call[s].pc = "recv"
    /\ To(s, outcome)
    /\ UNCHANGED <<stdin, fd, mu, proc, written, unread>>

\* Mutant of CheckTty: the stream goes on after input of the wrong kind.
CheckTtyLeniently(c) ==
    /\ call[c].pc = "check"
    /\ To(c, IF (call[c].kind = "pty") # (call[c].h \in Tty) THEN Resumed(c)
             ELSE IF call[c].kind = "pty" THEN "write" ELSE "lock")
    /\ UNCHANGED <<stdin, fd, mu, proc, written, unread>>

\* WriteTty and WriteStdin refuse the other kind of process; WriteTty takes no mutex.
CheckTty(c) ==
    /\ call[c].pc = "check"
    /\ To(c, IF (call[c].kind = "pty") # (call[c].h \in Tty) THEN "failed"
             ELSE IF call[c].kind = "pty" THEN "write" ELSE "lock")
    /\ UNCHANGED <<stdin, fd, mu, proc, written, unread>>

\* WriteStdin: stdinMu.Lock, and the test of stdin under it.
WriteStdin(c) ==
    /\ call[c].pc = "lock" /\ c \in Writers /\ mu[call[c].h] = None
    /\ IF call[c].h \in stdin
       THEN To(c, "write") /\ mu' = [mu EXCEPT ![call[c].h] = c]
       ELSE To(c, "failed") /\ UNCHANGED mu
    /\ UNCHANGED <<stdin, fd, proc, written, unread>>

\* os.File: another write to the same file is under way.
Midway(c) == \E d \in Writers \ {c} :
                 call[d].pc = "write" /\ call[d].h = call[c].h /\ call[d].part > 0

\* Write: the kernel takes the next piece; with the last one the call returns.
WritePart(c) ==
    LET h == call[c].h  k == call[c].part + 1 IN
    /\ call[c].pc = "write" /\ ~Midway(c)
    /\ h \in fd /\ proc[h] # "gone" /\ unread[h] < PipeCap
    /\ written' = [written EXCEPT ![h] = Append(@, <<c, call[c].n, k>>)]
    /\ unread' = [unread EXCEPT ![h] = @ + 1]
    /\ IF k < Parts[c]
       THEN call' = [call EXCEPT ![c].part = k] /\ UNCHANGED mu
       ELSE /\ call' = [call EXCEPT ![c] = [pc |-> Resumed(c), h |-> h, kind |-> call[c].kind,
                                            n |-> call[c].n, part |-> k]]
            /\ Free(c, h)
    /\ UNCHANGED <<stdin, fd, proc>>

\* Mutant of WriteFails: the error return forgets the mutex.
WriteFailsLocked(c) ==
    LET h == call[c].h IN
    /\ call[c].pc = "write" /\ (h \notin fd \/ proc[h] = "gone")
    /\ To(c, "failed")
    /\ UNCHANGED <<stdin, fd, mu, proc, written, unread>>

\* Write fails: one of the two ends is closed.
WriteFails(c) ==
    LET h == call[c].h IN
    /\ call[c].pc = "write" /\ (h \notin fd \/ proc[h] = "gone")
    /\ To(c, "failed") /\ Free(c, h)
    /\ UNCHANGED <<stdin, fd, proc, written, unread>>

\* CloseStdin: getProcess, then the test of tty.
FindToClose(c, h) ==
    /\ c \in Closers /\ call[c].pc = "idle"
    /\ call' = [call EXCEPT ![c] = [pc |-> IF h \in Tty THEN "failed" ELSE "lock",
                                     h |-> h, kind |-> "stdin", n |-> 0, part |-> 0]]
    /\ UNCHANGED <<stdin, fd, mu, proc, written, unread>>

\* Mutant of CloseStdin: it does not wait for the mutex.
CloseStdinUnlocked(c) ==
    LET h == call[c].h IN
    /\ call[c].pc = "lock" /\ c \in Closers
    /\ To(c, IF h \in stdin \ fd THEN "failed" ELSE "done")
    /\ stdin' = stdin \ {h} /\ fd' = IF h \in stdin THEN fd \ {h} ELSE fd
    /\ UNCHANGED <<mu, proc, written, unread>>

\* CloseStdin under stdinMu.  Closing what Wait has closed is an error; stdin is nil
\* afterwards in either case.
CloseStdin(c) ==
    LET h == call[c].h IN
    /\ call[c].pc = "lock" /\ c \in Closers /\ mu[h] = None
    /\ To(c, IF h \in stdin \ fd THEN "failed" ELSE "done")
    /\ stdin' = stdin \ {h} /\ fd' = IF h \in stdin THEN fd \ {h} ELSE fd
    /\ UNCHANGED <<mu, proc, written, unread>>
-----------------------------------------------------------------------------
\* The steps a caller takes by itself once it has a handler.
Proceed(c) == CheckTty(c) \/ WriteStdin(c) \/ WritePart(c) \/ WriteFails(c) \/ CloseStdin(c)

ProcessStep(h) == Read(h) \/ Wait(h) \/ \E left \in {"orphan", "gone"} : Exit(h, left)

DirectStep(c) ==
    \/ NotFound(c)
    \/ c \in Closers /\ \E h \in Handlers : FindToClose(c, h)
    \/ /\ c \in Streams
       /\ \/ \E h \in Handlers : StreamStart(c, h)
          \/ \E kind \in {"stdin", "pty"} : StreamData(c, kind)
          \/ \E outcome \in {"done", "failed"} : StreamEnd(c, outcome)

-----------------------------------------------------------------------------
\* The piece that follows x in an unbroken message.
NextPiece(x) == <<x[1], x[2], x[3] + 1>>

TakenWhole(c, n) == \E h \in Handlers : <<c, n, Parts[c]>> \in Range(written[h])

\* What a process reads is one whole message after the other, whoever sends them: pieces
\* of two messages never mix (handler.go:377, and os.File for a pty), a CloseStdin never
\* ends the input inside a message, and a message is cut short only where the process has
\* exited.
MessagesWhole ==
    \A h \in Handlers : LET w == written[h] IN
        /\ \A i \in DOMAIN w : i < Len(w) /\ w[i][3] < Parts[w[i][1]] => w[i + 1] = NextPiece(w[i])
        /\ \A i \in DOMAIN w : w[i][3] > 1 => i > 1 /\ NextPiece(w[i - 1]) = w[i]
        /\ w # <<>> /\ Last(w)[3] < Parts[Last(w)[1]] /\ call[Last(w)[1]].pc # "write"
             => proc[h] # "run"

\* A StreamInput call delivers its data messages in order and without a gap: when it has
\* gone on to a message, every earlier one was taken whole, also across a later start
\* message and input of the wrong kind (input.go:75-78 ends the stream at the first error).
StreamHasNoGap ==
    \A s \in Streams :
        /\ \A n \in 1..call[s].n - 1 : TakenWhole(s, n)
        /\ \A h \in Handlers : \A i, j \in DOMAIN written[h] :
               /\ i < j /\ written[h][i][1] = s /\ written[h][j][1] = s
               => written[h][i][2] <= written[h][j][2]

Active(c) == call[c].pc \in {"check", "lock", "write"}

\* A pipe that nobody empties although somebody could.
Stalled(h) == h \in fd /\ proc[h] # "gone" /\ unread[h] = PipeCap

\* Every input call returns, and every CloseStdin, unless its process is alive and stops
\* reading for ever: then the writer waits in Write with stdinMu held (handler.go:377-384),
\* and all others and CloseStdin wait behind it.
Returns ==
    \A c \in Callers : []<>~Active(c) \/ <>[](Active(c) /\ Stalled(call[c].h))
=============================================================================
