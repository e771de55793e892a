---------------------------- MODULE ProcessTable -----------------------------
(***************************************************************************)
(* The process service as a whole (internal/services/process): the map    *)
(* processes from pids to handlers, the launches that fill and empty it,  *)
(* and the unary and streaming requests that look a handler up and then   *)
(* act on it.  Output and events are the subject of ProcessStream; here   *)
(* the end of a process's output is one step.  A request that only reads  *)
(* the service's state (List, Update, input) is a lookup and no more.     *)
(***************************************************************************)
EXTENDS Integers, Sequences, FiniteSets

CONSTANTS
    Handlers,   \* one per Start RPC or InitializeStartProcess call
    Pids,       \* the pids the kernel hands out, again after a reap
    Tags,       \* the tags a StartRequest may carry
    NoTag,      \* a StartRequest without a tag
    Requests,   \* concurrent requests, one each
    None        \* no handler

ASSUME HandlersAssumption == None \notin Handlers
ASSUME TagsAssumption == NoTag \notin Tags
ASSUME PidsAssumption == 0 \notin Pids

VARIABLES
    launch,     \* where the call that starts the process is
    client,     \* its stream: "none" for InitializeStartProcess
    tag,        \* Handler.Tag
    pid,        \* the pid of the started command, 0 before
    proc,       \* the operating system's process
    outDone,    \* Handler.outCtx is done
    waiter,     \* the goroutine that runs Wait and then Delete
    processes,  \* Service.processes
    req,        \* what each request is doing
    held        \* the output cannot end: see Hold

launchVars == <<launch, client, tag, pid>>
vars == <<launchVars, proc, outDone, waiter, processes, req, held>>

NoRequest == [pc |-> "idle", h |-> None, by |-> NoTag]

TypeOK ==
    /\ launch \in [Handlers -> {"none", "new", "started", "stored", "served",
                                "failed"}]
    /\ client \in [Handlers -> {"none", "waiting", "left"}]
    /\ tag \in [Handlers -> Tags \cup {NoTag}]
    /\ pid \in [Handlers -> Pids \cup {0}]
    /\ proc \in [Handlers -> {"none", "running", "zombie", "reaped"}]
    /\ outDone \in [Handlers -> BOOLEAN]
    /\ waiter \in [Handlers -> {"none", "waiting", "ended", "done"}]
    /\ processes \in [Pids -> Handlers \cup {None}]
    /\ req \in [Requests ->
                  [pc : {"idle", "found", "notFound", "done"},
                   h : Handlers \cup {None}, by : Tags \cup {NoTag}]]
    /\ \A r \in Requests : req[r].pc = "found" => req[r].h # None
    /\ held \in [Handlers -> BOOLEAN]

Init ==
    /\ launch = [h \in Handlers |-> "none"]
    /\ client = [h \in Handlers |-> "none"]
    /\ tag = [h \in Handlers |-> NoTag]
    /\ pid = [h \in Handlers |-> 0]
    /\ proc = [h \in Handlers |-> "none"]
    /\ outDone = [h \in Handlers |-> FALSE]
    /\ waiter = [h \in Handlers |-> "none"]
    /\ processes = [p \in Pids |-> None]
    /\ req = [r \in Requests |-> NoRequest]
    /\ held = [h \in Handlers |-> FALSE]
-----------------------------------------------------------------------------
(***************************************************************************)
(* Launching: handleStart and InitializeStartProcess.                     *)
(***************************************************************************)
\* A pid is free once its last owner has been reaped.
FreePids == {p \in Pids : \A h \in Handlers :
                pid[h] = p => proc[h] \notin {"running", "zombie"}}

Tracked == {h \in Handlers : \E p \in Pids : processes[p] = h}

\* handler.New up to where the process would start: the user, cwd and pipe
\* checks fail, or the handler is made.
New(h, t, hasClient) ==
    /\ launch[h] = "none"
    /\ tag' = [tag EXCEPT ![h] = t]
    /\ client' = [client EXCEPT ![h] = IF hasClient THEN "waiting" ELSE "none"]
    /\ \E next \in {"new", "failed"} : launch' = [launch EXCEPT ![h] = next]
    /\ UNCHANGED <<pid, proc, outDone, waiter, processes, req, held>>

\* pty.StartWithSize in New, or cmd.Start: the kernel picks a free pid.
Start(h) ==
    /\ launch[h] = "new"
    /\ \E p \in FreePids : pid' = [pid EXCEPT ![h] = p]
    /\ proc' = [proc EXCEPT ![h] = "running"]
    /\ launch' = [launch EXCEPT ![h] = "started"]
    /\ UNCHANGED <<client, tag, outDone, waiter, processes, req,
                   held>>

StartFails(h) ==
    /\ launch[h] = "new"
    /\ launch' = [launch EXCEPT ![h] = "failed"]
    /\ UNCHANGED <<client, tag, pid, proc, outDone, waiter,
                   processes, req, held>>

\* s.processes.Store(pid, proc)
Store(h) ==
    /\ launch[h] = "started"
    /\ processes' = [processes EXCEPT ![pid[h]] = h]
    /\ launch' = [launch EXCEPT ![h] = "stored"]
    /\ UNCHANGED <<client, tag, pid, proc, outDone, waiter, req,
                   held>>

\* The client's context is done before the StartEvent: its goroutine returns.
ClientLeave(h) ==
    /\ client[h] = "waiting" /\ launch[h] \in {"new", "started", "stored"}
    /\ client' = [client EXCEPT ![h] = "left"]
    /\ UNCHANGED <<launch, tag, pid, proc, outDone, waiter,
                   processes, req, held>>

\* Mutant of Serve: the waiter is never launched.
ServeNoWaiter(h) ==
    /\ launch[h] = "stored" /\ client[h] # "left"
    /\ launch' = [launch EXCEPT ![h] = "served"]
    /\ UNCHANGED <<client, tag, pid, proc, outDone, waiter, processes, req,
                   held>>

\* start <- StartEvent needs the streaming goroutine; only then is the waiter
\* launched.  InitializeStartProcess launches it at once.
Serve(h) ==
    /\ launch[h] = "stored" /\ client[h] # "left"
    /\ launch' = [launch EXCEPT ![h] = "served"]
    /\ waiter' = [waiter EXCEPT ![h] = "waiting"]
    /\ UNCHANGED <<client, tag, pid, proc, outDone, processes,
                   req, held>>

-----------------------------------------------------------------------------
(***************************************************************************)
(* The process and Wait.                                                  *)
(***************************************************************************)
ProcExit(h) ==
    /\ proc[h] = "running"
    /\ proc' = [proc EXCEPT ![h] = "zombie"]
    /\ UNCHANGED <<launchVars, outDone, waiter, processes, req, held>>

\* Something keeps the readers from their end: a child of the process has
\* inherited the pipe and keeps it open, or the readers are blocked behind a data
\* fan-out that is wedged (ProcessStream has both in detail).
Hold(h) ==
    /\ proc[h] \in {"running", "zombie"} /\ ~outDone[h] /\ ~held[h]
    /\ held' = [held EXCEPT ![h] = TRUE]
    /\ UNCHANGED <<launchVars, proc, outDone, waiter, processes, req>>

\* The child exits.
Release(h) ==
    /\ held[h]
    /\ held' = [held EXCEPT ![h] = FALSE]
    /\ UNCHANGED <<launchVars, proc, outDone, waiter, processes, req>>

\* The readers have reached the end of an exited process's output; the collector
\* cancels outCtx.
OutputEnds(h) ==
    /\ proc[h] = "zombie" /\ ~outDone[h] /\ ~held[h]
    /\ outDone' = [outDone EXCEPT ![h] = TRUE]
    /\ UNCHANGED <<launchVars, proc, waiter, processes, req, held>>

\* <-outCtx.Done(); cmd.Wait(); EndEvent.Source <- event; cancel()
Wait(h) ==
    /\ waiter[h] = "waiting" /\ outDone[h] /\ proc[h] = "zombie"
    /\ proc' = [proc EXCEPT ![h] = "reaped"]
    /\ waiter' = [waiter EXCEPT ![h] = "ended"]
    /\ UNCHANGED <<launchVars, outDone, processes, req, held>>

\* Mutant of Delete: it is left out.
DeleteNothing(h) ==
    /\ waiter[h] = "ended"
    /\ waiter' = [waiter EXCEPT ![h] = "done"]
    /\ UNCHANGED <<launchVars, proc, outDone, processes, req, held>>

\* Mutant of Delete: not deferred until Wait has returned.
DeleteEager(h) ==
    /\ waiter[h] \in {"waiting", "ended"}
    /\ processes' = [processes EXCEPT ![pid[h]] = None]
    /\ waiter' = [waiter EXCEPT ![h] = IF @ = "ended" THEN "done" ELSE @]
    /\ UNCHANGED <<launchVars, proc, outDone, req, held>>

\* The deferred s.processes.Delete(pid): whatever is stored under the pid.
Delete(h) ==
    /\ waiter[h] = "ended"
    /\ processes' = [processes EXCEPT ![pid[h]] = None]
    /\ waiter' = [waiter EXCEPT ![h] = "done"]
    /\ UNCHANGED <<launchVars, proc, outDone, req, held>>

-----------------------------------------------------------------------------
(***************************************************************************)
(* Requests: getProcess, then the handler's method.                       *)
(***************************************************************************)
\* The callback given to Range skips handlers without a tag, remembers one whose
\* tag matches and goes on, and stops at the first whose tag does not match.
\* Range visits the entries in no particular order.
TagAnswers(t) ==
    LET matching == {h \in Tracked : tag[h] = t}
        stopping == {h \in Tracked : tag[h] \notin {t, NoTag}}
    IN  matching \cup (IF matching = {} \/ stopping # {} THEN {None} ELSE {})

\* Mutant of Answer: without the test for nil.
AnswerUnchecked(r, h, t) ==
    req' = [req EXCEPT ![r] = [pc |-> "found", h |-> h, by |-> t]]

Answer(r, h, t) ==
    req' = [req EXCEPT ![r] = [pc |-> IF h = None THEN "notFound" ELSE "found",
                               h |-> h, by |-> t]]

LookupPid(r, p) ==
    /\ req[r].pc = "idle"
    /\ Answer(r, processes[p], NoTag)
    /\ UNCHANGED <<launchVars, proc, outDone, waiter, processes, held>>

LookupTag(r, t) ==
    /\ req[r].pc = "idle"
    /\ \E h \in TagAnswers(t) : Answer(r, h, t)
    /\ UNCHANGED <<launchVars, proc, outDone, waiter, processes, held>>

Finish(r) == req' = [req EXCEPT ![r].pc = "done"]

\* SendSignal: outCancel, then the signal.  A SIGKILL or SIGTERM that arrives
\* ends the process at some later ProcExit.
SendSignal(r) ==
    /\ req[r].pc = "found"
    /\ outDone' = [outDone EXCEPT ![req[r].h] = TRUE]
    /\ Finish(r)
    /\ UNCHANGED <<launchVars, proc, waiter, processes, held>>

-----------------------------------------------------------------------------
Environment(h) ==
    \/ \E t \in Tags \cup {NoTag}, hasClient \in BOOLEAN : New(h, t, hasClient)
    \/ ClientLeave(h) \/ ProcExit(h) \/ Hold(h) \/ Release(h)

Service(h) ==
    \/ Start(h) \/ StartFails(h) \/ Store(h) \/ Serve(h)
    \/ OutputEnds(h) \/ Wait(h) \/ Delete(h)

Request(r) ==
    \/ \E p \in Pids : LookupPid(r, p)
    \/ \E t \in Tags : LookupTag(r, t)
    \/ SendSignal(r)

Next ==
    \/ \E h \in Handlers : Environment(h) \/ Service(h)
    \/ \E r \in Requests : Request(r)

\* The goroutines of a launch run when they can; nothing obliges a caller to
\* launch, a process to exit or a request to be made.
Fairness == \A h \in Handlers : WF_vars(Service(h))

Spec == Init /\ [][Next]_vars

FairSpec == Spec /\ Fairness
-----------------------------------------------------------------------------
(***************************************************************************)
(* Properties.                                                            *)
(***************************************************************************)
\* A running or unreaped process that was stored is found under its pid.  The one
\* exception: an earlier owner of the pid, reaped before this process started,
\* deletes the entry late and takes the new owner's with it (start.go:212-224).
ListedUnlessReused ==
    \A h \in Handlers :
        (launch[h] \in {"stored", "served"} /\ proc[h] # "reaped") =>
            \/ processes[pid[h]] = h
            \/ /\ processes[pid[h]] = None
               /\ \E g \in Handlers \ {h} :
                     pid[g] = pid[h] /\ waiter[g] = "done"

\* Once Wait and Delete are done no entry leads to the handler any more, whatever
\* other launches did meanwhile (start.go:44-50, 212-224).
NoGhost ==
    \A h \in Handlers : waiter[h] = "done" => h \notin Tracked

\* A launch blocked on a StartEvent that nobody will receive (start.go:214).
Abandoned(h) == launch[h] = "stored" /\ client[h] = "left"

\* The output of h ends: nothing holds it for ever, or a signal cuts it off.
OutputFree(h) == ~held[h] \/ outDone[h]

\* Every process that exits and whose output is not held for ever is reaped and
\* its entry deleted, unless its client left before the StartEvent, whatever the
\* requests and the other launches do (start.go:212-224, handler.go:333-339,
\* 446-483).
Reaps ==
    \A h \in Handlers :
        <>[]OutputFree(h) =>
            (proc[h] = "zombie" ~> (waiter[h] = "done" \/ Abandoned(h)))

\* getProcess says "process with tag %s not found" (service.go:76): it answers
\* so only when no tracked process has the tag.
NotFoundMeansNone ==
    [][\A r \in Requests, t \in Tags :
          (req[r].pc = "idle" /\ req'[r].pc = "notFound" /\ req'[r].by = t)
              => \A h \in Tracked : tag[h] # t]_vars
=============================================================================
