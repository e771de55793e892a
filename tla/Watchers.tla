------------------------------ MODULE Watchers -------------------------------
(***************************************************************************)
(* Directory watching (internal/services/filesystem): the table of file   *)
(* watchers with their event buffers (watch_sync.go), the polls and       *)
(* removals that overlap on it, and the streams of WatchDir (watch.go).   *)
(*                                                                         *)
(* External: fsnotify.  It hands over one event at a time, each with one  *)
(* or more operations, until it is closed, and may report an error.  The  *)
(* operations of a watcher are numbered as they happen.                   *)
(***************************************************************************)
EXTENDS Integers, Sequences, SequencesExt

CONSTANTS
    Watched,        \* one per CreateWatcher call
    Streams,        \* one per WatchDir call
    Polls,          \* GetWatcherEvents calls
    Removals,       \* RemoveWatcher calls
    NoWatcher,      \* what Load gives for an id that is not there
    MaxOps,         \* bound: operations per watcher or stream
    OpsPerEvent     \* the numbers of operations an event can have

ASSUME SetsAssumption == Watched \cap Streams = {} /\ NoWatcher \notin Watched
ASSUME OpsAssumption == MaxOps \in Nat /\ OpsPerEvent \subseteq 1..MaxOps

Notifiers == Watched \cup Streams

VARIABLES
    create,     \* how far each CreateWatcher call is
    table,      \* Service.watchers
    open,       \* fsnotify watchers that are open
    queue,      \* events that were not handed over: their operations
    happened,   \* operations so far
    hand,       \* operations left of the event a goroutine or a stream is at
    loop,       \* the goroutine of a watcher, or the handler of a stream
    cancelled,  \* watchers whose context is done, streams whose client is gone
    error,      \* watchers whose FileWatcher.Error is set
    events,     \* FileWatcher.Events
    answered,   \* history: what polls returned, or a stream sent, in that order
    poll,       \* what each poll is doing
    removal     \* what each removal is doing

notifyVars == <<open, queue, happened>>
vars == <<create, table, notifyVars, hand, loop, cancelled, error, events, answered,
          poll, removal>>

Ops == Seq(1..MaxOps)

TypeOK ==
    /\ create \in [Watched -> {"none", "made", "stored"}]
    /\ table \subseteq Watched /\ open \subseteq Notifiers
    /\ queue \in [Notifiers -> Seq(Ops)] /\ happened \in [Notifiers -> 0..MaxOps]
    /\ hand \in [Notifiers -> Ops]
    /\ loop \in [Notifiers -> {"none", "run", "ended"}]
    /\ cancelled \subseteq Notifiers /\ error \subseteq Watched
    /\ events \in [Watched -> Ops] /\ answered \in [Notifiers -> Ops]
    /\ poll \in [Polls -> [pc : {"idle", "loaded", "checked", "done"},
                           w : Watched \cup {NoWatcher}]]
    /\ removal \in [Removals -> [pc : {"idle", "loaded", "closed", "cancelled", "done"},
                                 w : Watched \cup {NoWatcher}]]
    /\ \A p \in Polls : poll[p].w = NoWatcher => poll[p].pc \in {"idle", "done"}
    /\ \A r \in Removals : removal[r].w = NoWatcher => removal[r].pc \in {"idle", "done"}

Init ==
    /\ create = [w \in Watched |-> "none"] /\ table = {} /\ open = {}
    /\ queue = [x \in Notifiers |-> <<>>] /\ happened = [x \in Notifiers |-> 0]
    /\ hand = [x \in Notifiers |-> <<>>] /\ loop = [x \in Notifiers |-> "none"]
    /\ cancelled = {} /\ error = {}
    /\ events = [w \in Watched |-> <<>>] /\ answered = [x \in Notifiers |-> <<>>]
    /\ poll = [p \in Polls |-> [pc |-> "idle", w |-> NoWatcher]]
    /\ removal = [r \in Removals |-> [pc |-> "idle", w |-> NoWatcher]]
-----------------------------------------------------------------------------
\* fsnotify: something happens under a watched path.
Happens(x, n) ==
    /\ x \in open /\ happened[x] + n <= MaxOps
    /\ queue' = [queue EXCEPT ![x] = Append(@, [i \in 1..n |-> happened[x] + i])]
    /\ happened' = [happened EXCEPT ![x] = @ + n]
    /\ UNCHANGED <<create, table, open, hand, loop, cancelled, error, events, answered,
                   poll, removal>>

\* Mutant of Selecting: the other cases are looked at only when there is an event.
SelectingEvents(x) == loop[x] = "run" /\ hand[x] = <<>> /\ queue[x] # <<>>

\* A goroutine or a stream is in its select.
Selecting(x) == loop[x] = "run" /\ hand[x] = <<>>

\* case e := <-w.Events: the operations of the event, one after the other.  Their name
\* is below the watched path, so that filepath.Rel does not fail.
TakeEvent(x) ==
    /\ Selecting(x) /\ x \in open /\ queue[x] # <<>>
    /\ hand' = [hand EXCEPT ![x] = Head(queue[x])]
    /\ queue' = [queue EXCEPT ![x] = Tail(@)]
    /\ UNCHANGED <<create, table, open, happened, loop, cancelled, error, events, answered,
                   poll, removal>>
-----------------------------------------------------------------------------
(***************************************************************************)
(* File watchers.                                                         *)
(***************************************************************************)
\* CreateFileWatcher; its failures leave nothing behind.
CreateFileWatcher(w) ==
    /\ create[w] = "none"
    /\ create' = [create EXCEPT ![w] = "made"]
    /\ open' = open \cup {w}
    /\ loop' = [loop EXCEPT ![w] = "run"]
    /\ UNCHANGED <<table, queue, happened, hand, cancelled, error, events, answered,
                   poll, removal>>

\* watchers.Store(watcherId, w), after which the client learns the id.
Store(w) ==
    /\ create[w] = "made"
    /\ create' = [create EXCEPT ![w] = "stored"]
    /\ table' = table \cup {w}
    /\ UNCHANGED <<notifyVars, hand, loop, cancelled, error, events, answered, poll, removal>>

\* Mutant of AppendEvent: only an event's first operation is recorded.
AppendFirst(w) ==
    /\ hand[w] # <<>>
    /\ events' = [events EXCEPT ![w] = Append(@, Head(hand[w]))]
    /\ hand' = [hand EXCEPT ![w] = <<>>]
    /\ UNCHANGED <<create, table, notifyVars, loop, cancelled, error, answered, poll, removal>>

\* Under Lock: one operation is appended.
AppendEvent(w) ==
    /\ hand[w] # <<>>
    /\ events' = [events EXCEPT ![w] = Append(@, Head(hand[w]))]
    /\ hand' = [hand EXCEPT ![w] = Tail(@)]
    /\ UNCHANGED <<create, table, notifyVars, loop, cancelled, error, answered, poll, removal>>

\* case <-ctx.Done()
LoopCancelled(w) ==
    /\ Selecting(w) /\ w \in cancelled
    /\ loop' = [loop EXCEPT ![w] = "ended"]
    /\ UNCHANGED <<create, table, notifyVars, hand, cancelled, error, events, answered,
                   poll, removal>>

LoopFails(w) ==
    /\ loop' = [loop EXCEPT ![w] = "ended"] /\ error' = error \cup {w}
    /\ UNCHANGED <<create, table, notifyVars, hand, cancelled, events, answered,
                   poll, removal>>

\* Errors or Events is closed: the watcher is.
LoopClosed(w) == Selecting(w) /\ w \notin open /\ LoopFails(w)

\* case chErr := <-w.Errors
LoopError(w) == Selecting(w) /\ w \in open /\ LoopFails(w)
-----------------------------------------------------------------------------
(***************************************************************************)
(* GetWatcherEvents and RemoveWatcher.                                    *)
(***************************************************************************)
\* watchers.Load: a client asks for an id it was given.
Load(req, q, w) ==
    /\ req[q].pc = "idle" /\ create[w] = "stored"
    /\ UNCHANGED <<create, table, notifyVars, hand, loop, cancelled, error, events, answered>>

\* Mutant of Loaded: without the test of ok.
LoadedUnchecked(w) == [pc |-> "loaded", w |-> IF w \in table THEN w ELSE NoWatcher]

Loaded(w) == IF w \in table THEN [pc |-> "loaded", w |-> w] ELSE [pc |-> "done", w |-> NoWatcher]

PollLoad(p, w) ==
    /\ Load(poll, p, w)
    /\ poll' = [poll EXCEPT ![p] = Loaded(w)]
    /\ UNCHANGED removal

\* if w.Error != nil, read without the lock.
PollCheck(p) ==
    /\ poll[p].pc = "loaded"
    /\ poll' = [poll EXCEPT ![p].pc = IF poll[p].w \in error THEN "done" ELSE "checked"]
    /\ UNCHANGED <<create, table, notifyVars, hand, loop, cancelled, error, events, answered,
                   removal>>

\* Under Lock: the buffer is taken and a new one put in its place.
PollTake(p) ==
    /\ poll[p].pc = "checked"
    /\ answered' = [answered EXCEPT ![poll[p].w] = @ \o events[poll[p].w]]
    /\ events' = [events EXCEPT ![poll[p].w] = <<>>]
    /\ poll' = [poll EXCEPT ![p].pc = "done"]
    /\ UNCHANGED <<create, table, notifyVars, hand, loop, cancelled, error, removal>>

RemoveLoad(r, w) ==
    /\ Load(removal, r, w)
    /\ removal' = [removal EXCEPT ![r] = Loaded(w)]
    /\ UNCHANGED poll

\* Mutant of RemoveClose: the fsnotify watcher is left open.
RemoveLeave(r) ==
    /\ removal[r].pc = "loaded"
    /\ removal' = [removal EXCEPT ![r].pc = "closed"]
    /\ UNCHANGED <<create, table, notifyVars, hand, loop, cancelled, error, events, answered,
                   poll>>

\* FileWatcher.Close: the fsnotify watcher, which may have been closed already.
RemoveClose(r) ==
    /\ removal[r].pc = "loaded"
    /\ open' = open \ {removal[r].w}
    /\ removal' = [removal EXCEPT ![r].pc = "closed"]
    /\ UNCHANGED <<create, table, queue, happened, hand, loop, cancelled, error, events,
                   answered, poll>>

\* FileWatcher.Close: cancel().
RemoveCancel(r) ==
    /\ removal[r].pc = "closed"
    /\ cancelled' = cancelled \cup {removal[r].w}
    /\ removal' = [removal EXCEPT ![r].pc = "cancelled"]
    /\ UNCHANGED <<create, table, notifyVars, hand, loop, error, events, answered, poll>>

\* watchers.Delete(watcherId)
RemoveDelete(r) ==
    /\ removal[r].pc = "cancelled"
    /\ table' = table \ {removal[r].w}
    /\ removal' = [removal EXCEPT ![r].pc = "done"]
    /\ UNCHANGED <<create, notifyVars, hand, loop, cancelled, error, events, answered, poll>>
-----------------------------------------------------------------------------
(***************************************************************************)
(* WatchDir.                                                              *)
(***************************************************************************)
WatchDir(s) ==
    /\ loop[s] = "none"
    /\ open' = open \cup {s} /\ loop' = [loop EXCEPT ![s] = "run"]
    /\ UNCHANGED <<create, table, queue, happened, hand, cancelled, error, events, answered,
                   poll, removal>>

ClientLeaves(s) ==
    /\ loop[s] = "run" /\ s \notin cancelled
    /\ cancelled' = cancelled \cup {s}
    /\ UNCHANGED <<create, table, notifyVars, hand, loop, error, events, answered, poll, removal>>

\* stream.Send, which may still succeed when the client has left.
SendEvent(s) ==
    /\ hand[s] # <<>>
    /\ answered' = [answered EXCEPT ![s] = Append(@, Head(hand[s]))]
    /\ hand' = [hand EXCEPT ![s] = Tail(@)]
    /\ UNCHANGED <<create, table, notifyVars, loop, cancelled, error, events, poll, removal>>

\* Mutant of Return: without the deferred Close.
ReturnOpen(s) ==
    /\ loop' = [loop EXCEPT ![s] = "ended"]
    /\ UNCHANGED <<create, table, notifyVars, hand, cancelled, error, events, answered,
                   poll, removal>>

\* The handler returns, and its deferred w.Close() runs.
Return(s) ==
    /\ loop' = [loop EXCEPT ![s] = "ended"] /\ open' = open \ {s}
    /\ UNCHANGED <<create, table, queue, happened, hand, cancelled, error, events, answered,
                   poll, removal>>

\* case <-ctx.Done(), or a Send, of an event or a keepalive, that fails.
StreamEnds(s) == loop[s] = "run" /\ s \in cancelled /\ Return(s)

\* case chErr := <-w.Errors
StreamError(s) == Selecting(s) /\ Return(s)
-----------------------------------------------------------------------------
Environment ==
    \/ \E x \in Notifiers, n \in OpsPerEvent : Happens(x, n)
    \/ \E w \in Watched : CreateFileWatcher(w) \/ LoopError(w)
    \/ \E s \in Streams : WatchDir(s) \/ ClientLeaves(s) \/ StreamError(s)
    \/ \E p \in Polls, w \in Watched : PollLoad(p, w)
    \/ \E r \in Removals, w \in Watched : RemoveLoad(r, w)

Goroutine(w) ==
    TakeEvent(w) \/ AppendEvent(w) \/ LoopCancelled(w) \/ LoopClosed(w)

StreamHandler(s) == TakeEvent(s) \/ SendEvent(s) \/ StreamEnds(s)

Poll(p) == PollCheck(p) \/ PollTake(p)

Removing(r) == RemoveClose(r) \/ RemoveCancel(r) \/ RemoveDelete(r)

Next ==
    \/ Environment
    \/ \E w \in Watched : Goroutine(w) \/ Store(w)
    \/ \E s \in Streams : StreamHandler(s)
    \/ \E p \in Polls : Poll(p)
    \/ \E r \in Removals : Removing(r)

\* A goroutine that can run does, and so does every handler that has begun.
Fairness ==
    /\ \A w \in Watched : WF_vars(Goroutine(w)) /\ WF_vars(Store(w))
    /\ \A s \in Streams : WF_vars(StreamHandler(s))
    /\ \A p \in Polls : WF_vars(Poll(p))
    /\ \A r \in Removals : WF_vars(Removing(r))

Spec == Init /\ [][Next]_vars /\ Fairness
-----------------------------------------------------------------------------
(***************************************************************************)
(* Properties.                                                            *)
(***************************************************************************)
Buffered(x) == IF x \in Watched THEN events[x] ELSE <<>>

\* However polls overlap with each other, with the goroutine in the middle of an
\* event and with a removal, what was returned and what is still to come is what
\* happened, in order, nothing twice and nothing left out (watch_sync.go:68-130,
\* 190-210, watch.go:97-156).
NothingLost ==
    \A x \in Notifiers :
        answered[x] \o Buffered(x) \o hand[x] \o FlattenSeq(queue[x])
            = [i \in 1..happened[x] |-> i]

\* An open fsnotify watcher of CreateWatcher can be found and so removed: two
\* removals of one id, or a removal during a poll, leave none behind
\* (watch_sync.go:138-141, 212-224).
NoneForgotten == \A w \in Watched : w \in open => w \in table \/ create[w] = "made"

\* After RemoveWatcher the goroutine ends, whatever it was doing
\* (watch_sync.go:53-73, 138-141).
Stops == \A r \in Removals, w \in Watched :
    (removal[r] = [pc |-> "done", w |-> w]) ~> (loop[w] = "ended")

\* A stream whose client is gone gives its fsnotify watcher back (watch.go:59, 86-90).
StreamsClose == \A s \in Streams : (s \in cancelled) ~> (s \notin open)
=============================================================================
