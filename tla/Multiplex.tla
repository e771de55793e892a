------------------------------ MODULE Multiplex ------------------------------
(***************************************************************************)
(* MultiplexedChannel (internal/services/process/handler/multiplex.go):   *)
(* one goroutine, the fan-out, ranges over the channel Source and sends   *)
(* every value to every forked consumer channel; when Source is closed it *)
(* closes the consumer channels.  Consumers fork and remove themselves    *)
(* concurrently.  A Handler has two of them, DataEvent and EndEvent.      *)
(*                                                                         *)
(* Values are abstracted to their position: the n-th value sent on Source *)
(* is n, and since a Go channel is FIFO the buffer of Source always holds *)
(* taken + 1 .. sent.  mu is a sync.RWMutex: its write sections (Fork,    *)
(* remove) are short and atomic here, its read section is the sending of  *)
(* one value, pc = "send".                                                *)
(***************************************************************************)
EXTENDS Integers, Sequences, FiniteSets

CONSTANTS
    Consumers,      \* the goroutines that call Fork, once each
    NoConsumer,     \* an unused slot of the slice's backing array (nil)
    Buffer,         \* the capacity of Source
    MaxSent         \* bound: how many values are ever sent on Source

ASSUME ConsumersAssumption == NoConsumer \notin Consumers
ASSUME BufferAssumption == Buffer \in Nat
ASSUME MaxSentAssumption == MaxSent \in Nat

VARIABLES
    sent,       \* values sent on Source so far
    taken,      \* values the fan-out has received from Source
    srcClosed,  \* close(Source) has been called
    array,      \* backing array of the slice channels; Len(array) is its cap
    len,        \* len(channels): channels is array[1..len]
    exited,     \* the atomic.Bool exited
    closed,     \* the consumers whose channel has been closed
    panicked,   \* close of a closed or nil channel: the agent crashes
    pc,         \* where the fan-out goroutine is
    k,          \* the index its current range loop is at
    held,       \* the backing array the closing loop ranges over
    heldLen,    \* the length the closing loop ranges over
    shared,     \* held is still the backing array of channels
    st,         \* where each consumer is
    from,       \* history: how many fan-outs had begun when it was added
    received,   \* history: the values it has received
    overlap     \* history: channels was written while the closing loop ran

srcVars == <<sent, taken, srcClosed>>
sliceVars == <<array, len>>
closeVars == <<exited, closed, panicked>>
loopVars == <<held, heldLen, shared>>
consVars == <<st, from, received>>
vars == <<srcVars, sliceVars, closeVars, pc, k, loopVars, consVars, overlap>>

FanPcs == {"range", "rlock", "send", "exited", "gotLen", "gotArray",
           "closing", "done"}
ClosePcs == {"exited", "gotLen", "gotArray", "closing"}
ConsStates == {"idle", "checked", "reading", "drained", "leaving", "gone",
               "refused"}

CountersOK ==
    /\ sent \in 0..MaxSent /\ taken \in 0..sent
    /\ pc \in FanPcs /\ k \in Nat \ {0}

FlagsOK ==
    /\ srcClosed \in BOOLEAN /\ exited \in BOOLEAN /\ panicked \in BOOLEAN
    /\ shared \in BOOLEAN /\ overlap \in BOOLEAN
    /\ closed \subseteq Consumers

SliceOK ==
    /\ array \in Seq(Consumers \cup {NoConsumer}) /\ len \in 0..Len(array)
    /\ held \in Seq(Consumers \cup {NoConsumer}) /\ heldLen \in Nat

ConsumersOK ==
    /\ st \in [Consumers -> ConsStates]
    /\ from \in [Consumers -> Nat]
    /\ received \in [Consumers -> Seq(Nat)]

TypeOK == CountersOK /\ FlagsOK /\ SliceOK /\ ConsumersOK

Init ==
    /\ sent = 0 /\ taken = 0 /\ srcClosed = FALSE
    /\ array = <<>> /\ len = 0
    /\ exited = FALSE /\ closed = {} /\ panicked = FALSE
    /\ pc = "range" /\ k = 1
    /\ held = <<>> /\ heldLen = 0 /\ shared = FALSE
    /\ st = [c \in Consumers |-> "idle"]
    /\ from = [c \in Consumers |-> 0]
    /\ received = [c \in Consumers |-> <<>>]
    /\ overlap = FALSE
-----------------------------------------------------------------------------
(***************************************************************************)
(* The producer's side of Source.                                         *)
(***************************************************************************)
\* Source <- v into the buffer.
Send ==
    /\ ~srcClosed /\ sent < MaxSent
    /\ sent - taken < Buffer
    /\ sent' = sent + 1
    /\ UNCHANGED <<taken, srcClosed, sliceVars, closeVars, pc, k, loopVars,
                   consVars, overlap>>

\* Source <- v on an unbuffered Source: it meets the fan-out's receive.
SendUnbuffered ==
    /\ Buffer = 0 /\ pc = "range"
    /\ ~srcClosed /\ sent < MaxSent
    /\ sent' = sent + 1 /\ taken' = taken + 1
    /\ pc' = "rlock"
    /\ UNCHANGED <<srcClosed, sliceVars, closeVars, k, loopVars, consVars,
                   overlap>>

CloseSource ==
    /\ ~srcClosed
    /\ srcClosed' = TRUE
    /\ UNCHANGED <<sent, taken, sliceVars, closeVars, pc, k, loopVars,
                   consVars, overlap>>
-----------------------------------------------------------------------------
(***************************************************************************)
(* The fan-out goroutine.                                                 *)
(***************************************************************************)
\* Mutant of Take: a receive that does not wait for a value.
TakeAny ==
    /\ pc = "range"
    /\ taken' = taken + 1 /\ pc' = "rlock"
    /\ UNCHANGED <<sent, srcClosed, sliceVars, closeVars, k, loopVars,
                   consVars, overlap>>

\* for v := range c.Source receives the oldest buffered value.
Take ==
    /\ pc = "range" /\ taken < sent
    /\ taken' = taken + 1 /\ pc' = "rlock"
    /\ UNCHANGED <<sent, srcClosed, sliceVars, closeVars, k, loopVars,
                   consVars, overlap>>

\* c.mu.RLock() and the start of the loop over channels.
RLock ==
    /\ pc = "rlock"
    /\ pc' = "send" /\ k' = 1
    /\ UNCHANGED <<srcVars, sliceVars, closeVars, loopVars, consVars, overlap>>

\* cons <- v: consumer channels are unbuffered, so the send completes only
\* together with the receive of a consumer that is still reading.
Deliver(c) ==
    /\ pc = "send" /\ k <= len /\ array[k] = c
    /\ st[c] = "reading"
    /\ received' = [received EXCEPT ![c] = Append(@, taken)]
    /\ k' = k + 1
    /\ UNCHANGED <<srcVars, sliceVars, closeVars, pc, loopVars, st, from,
                   overlap>>

RUnlock ==
    /\ pc = "send" /\ k > len
    /\ pc' = "range"
    /\ UNCHANGED <<srcVars, sliceVars, closeVars, k, loopVars, consVars,
                   overlap>>

\* Mutant of Exit: a close that overtakes the buffered values.
ExitEarly ==
    /\ pc = "range" /\ srcClosed
    /\ exited' = TRUE /\ pc' = "exited"
    /\ UNCHANGED <<srcVars, sliceVars, closed, panicked, k, loopVars,
                   consVars, overlap>>

\* Source is closed and empty: exited.Store(true).
Exit ==
    /\ pc = "range" /\ srcClosed /\ taken = sent
    /\ exited' = TRUE /\ pc' = "exited"
    /\ UNCHANGED <<srcVars, sliceVars, closed, panicked, k, loopVars,
                   consVars, overlap>>

(***************************************************************************)
(* The closing loop evaluates c.channels without mu.  The slice header is *)
(* two words, loaded in an order the compiler is free to choose, so a     *)
(* concurrent append can be seen by one load and not by the other.        *)
(***************************************************************************)
LoadLen ==
    /\ \/ pc = "exited" /\ pc' = "gotLen"
       \/ pc = "gotArray" /\ pc' = "closing"
    /\ heldLen' = len /\ k' = 1
    /\ UNCHANGED <<srcVars, sliceVars, closeVars, held, shared, consVars,
                   overlap>>

LoadArray ==
    /\ \/ pc = "exited" /\ pc' = "gotArray"
       \/ pc = "gotLen" /\ pc' = "closing"
    /\ held' = array /\ shared' = TRUE /\ k' = 1
    /\ UNCHANGED <<srcVars, sliceVars, closeVars, heldLen, consVars, overlap>>

\* Mutant of CloseNext: the loop without its close.
CloseNothing ==
    /\ pc = "closing" /\ k <= heldLen
    /\ k' = k + 1
    /\ UNCHANGED <<srcVars, sliceVars, closeVars, pc, loopVars, consVars,
                   overlap>>

\* close(cons) panics on a closed or nil channel; reading past the array of a
\* torn header is counted as a crash as well.
CloseNext ==
    /\ pc = "closing" /\ k <= heldLen
    /\ IF k <= Len(held) /\ held[k] \notin closed \cup {NoConsumer}
       THEN closed' = closed \cup {held[k]} /\ UNCHANGED panicked
       ELSE panicked' = TRUE /\ UNCHANGED closed
    /\ k' = k + 1
    /\ UNCHANGED <<srcVars, sliceVars, exited, pc, loopVars, consVars,
                   overlap>>

CloseDone ==
    /\ pc = "closing" /\ k > heldLen
    /\ pc' = "done"
    /\ UNCHANGED <<srcVars, sliceVars, closeVars, k, loopVars, consVars,
                   overlap>>
-----------------------------------------------------------------------------
(***************************************************************************)
(* The consumers.  A writer enters mu only while no value is being sent.  *)
(***************************************************************************)
\* Mutant of LockFree: Fork and remove without mu.
NoMutex == TRUE

LockFree == pc # "send"

\* Fork: the load of exited.  If set, the caller gets a fresh closed channel.
ForkCheck(c) ==
    /\ st[c] = "idle"
    /\ st' = [st EXCEPT ![c] = IF exited THEN "refused" ELSE "checked"]
    /\ UNCHANGED <<srcVars, sliceVars, closeVars, pc, k, loopVars, from,
                   received, overlap>>

\* append(channels, c): in place while there is capacity, otherwise into a new
\* array of twice the capacity that the closing loop does not see.
Grown ==
    [i \in 1..(IF array = <<>> THEN 1 ELSE 2 * Len(array)) |->
        IF i <= Len(array) THEN array[i] ELSE NoConsumer]

ForkAppend(c) ==
    /\ st[c] = "checked" /\ LockFree
    /\ array' = [(IF len < Len(array) THEN array ELSE Grown)
                    EXCEPT ![len + 1] = c]
    /\ len' = len + 1
    /\ shared' = (shared /\ len < Len(array))
    /\ held' = IF shared' THEN array' ELSE held
    /\ overlap' = (overlap \/ pc \in ClosePcs)
    /\ st' = [st EXCEPT ![c] = "reading"]
    /\ from' = [from EXCEPT ![c] = IF pc = "rlock" THEN taken - 1 ELSE taken]
    /\ UNCHANGED <<srcVars, closeVars, pc, k, heldLen, received>>

\* The consumer finds its channel closed.
SeeClosed(c) ==
    /\ st[c] = "reading" /\ c \in closed
    /\ st' = [st EXCEPT ![c] = "drained"]
    /\ UNCHANGED <<srcVars, sliceVars, closeVars, pc, k, loopVars, from,
                   received, overlap>>

\* The consumer stops reading: its client went away or sending to it failed.
Leave(c) ==
    /\ st[c] = "reading"
    /\ st' = [st EXCEPT ![c] = "leaving"]
    /\ UNCHANGED <<srcVars, sliceVars, closeVars, pc, k, loopVars, from,
                   received, overlap>>

\* append(channels[:i], channels[i+1:]...) moves the rest down in place.
ShiftedAt(i) ==
    [j \in 1..Len(array) |->
        IF i <= j /\ j < len THEN array[j + 1] ELSE array[j]]

\* Mutant of Remove: the shift without the truncation.
RemoveNoTruncate(c) ==
    /\ st[c] \in {"drained", "leaving"} /\ LockFree
    /\ \E i \in 1..len : array[i] = c /\ array' = ShiftedAt(i)
    /\ held' = IF shared THEN array' ELSE held
    /\ overlap' = (overlap \/ pc \in ClosePcs)
    /\ st' = [st EXCEPT ![c] = "gone"]
    /\ UNCHANGED <<len, srcVars, closeVars, pc, k, heldLen, shared, from,
                   received>>

\* remove: the first slot that holds c.
Remove(c) ==
    /\ st[c] \in {"drained", "leaving"} /\ LockFree
    /\ \E i \in 1..len :
          /\ array[i] = c /\ \A j \in 1..(i - 1) : array[j] # c
          /\ array' = ShiftedAt(i)
    /\ len' = len - 1
    /\ held' = IF shared THEN array' ELSE held
    /\ overlap' = (overlap \/ pc \in ClosePcs)
    /\ st' = [st EXCEPT ![c] = "gone"]
    /\ UNCHANGED <<srcVars, closeVars, pc, k, heldLen, shared, from, received>>
-----------------------------------------------------------------------------
Producer == Send \/ SendUnbuffered \/ CloseSource

FanOut ==
    \/ Take \/ RLock \/ RUnlock \/ Exit
    \/ LoadLen \/ LoadArray \/ CloseNext \/ CloseDone

Consumer(c) ==
    \/ ForkCheck(c) \/ ForkAppend(c) \/ Deliver(c)
    \/ SeeClosed(c) \/ Leave(c) \/ Remove(c)

\* A panic ends the agent, and the channel with it.
Next ==
    /\ ~panicked
    /\ Producer \/ FanOut \/ \E c \in Consumers : Consumer(c)

(***************************************************************************)
(* The scheduler runs every goroutine that can run: the fan-out, a        *)
(* consumer that waits in a receive, and one that waits for mu.  Nothing  *)
(* obliges the process to write output or to end, nor a client to stay or *)
(* to leave.                                                              *)
(***************************************************************************)
Fairness ==
    /\ WF_vars(~panicked /\ FanOut)
    /\ \A c \in Consumers :
          /\ WF_vars(~panicked /\ Deliver(c))
          /\ WF_vars(~panicked /\ (ForkAppend(c) \/ SeeClosed(c) \/ Remove(c)))

Spec == Init /\ [][Next]_vars

FairSpec == Spec /\ Fairness
-----------------------------------------------------------------------------
(***************************************************************************)
(* Properties.                                                            *)
(***************************************************************************)
\* How many values the fan-out has begun to send.
Begun == IF pc = "rlock" THEN taken - 1 ELSE taken

\* What a consumer has received is an unbroken run of what was sent on Source,
\* in order, from the first value sent after its Fork: no gap, no duplicate and
\* no reordering, whoever forks or is removed meanwhile (multiplex.go:22-30).
InOrder ==
    \A c \in Consumers : \A i \in DOMAIN received[c] :
        received[c][i] = from[c] + i

\* Consumers advance together: those before the loop's index have the current
\* value, those from it on have every value but that one.  So the slowest
\* consumer bounds the others by one value, and none in the slice is skipped.
Lockstep ==
    \A i \in 1..len :
        from[array[i]] + Len(received[array[i]]) =
            IF pc = "send" /\ i >= k THEN taken - 1 ELSE Begun

\* A consumer that finds its channel closed has had everything sent on Source
\* since its Fork: the close cannot overtake a value (multiplex.go:32-36).
DrainedHasAll ==
    \A c \in Consumers :
        st[c] = "drained" => from[c] + Len(received[c]) = sent

\* The closing loop, which takes no lock, panics only if some Fork or remove
\* writes the slice while it runs (multiplex.go:34-36 against 55 and 68).
PanicNeedsOverlap == panicked => overlap

\* The fan-out is sending, with mu read-locked, to a consumer that no longer
\* reads and that waits for mu in order to remove itself.
Wedged == pc = "send" /\ k <= len /\ st[array[k]] = "leaving"

\* Once that happens it is for ever: no step of the program frees the fan-out
\* (multiplex.go:26 against multiplex.go:63).
WedgeIsForever == [][Wedged => Wedged']_vars

\* Once Source is closed every consumer added before the fan-out exited finds
\* its channel closed, unless it leaves by itself, the fan-out is wedged on a
\* consumer that left, or the slice is written during the closing loop.
Drains ==
    \A c \in Consumers :
        (srcClosed /\ ~exited /\ st[c] = "reading")
            ~> (st[c] # "reading" \/ Wedged \/ overlap)
=============================================================================
