----------------------------- MODULE ConnLimiter -----------------------------
(***************************************************************************)
(* The limit on the connections of one sandbox                            *)
(* (packages/shared/pkg/connlimit/limiter.go): a counter in a concurrent  *)
(* map, changed by compare-and-swap, looked up again for every call.      *)
(***************************************************************************)
EXTENDS Integers, FiniteSets

CONSTANTS
    Conns,          \* connections, each acquired and released once
    MaxLimits,      \* what GetMaxLimit may answer; negative is no limit
    MaxCounters     \* bound: counters made for the sandbox

ASSUME LimiterAssumption == MaxLimits \subseteq Int /\ MaxCounters \in Nat \ {0}

NoCounter == 0

VARIABLES
    inMap,      \* the sandbox's counter in the map
    made,       \* counters made so far
    count,      \* their values
    conn,       \* each connection's call: where it is, its counter, the value it loaded
    maxLimit,   \* the limit each came with
    cut         \* history: Remove was called with a connection or a call under way

limiterVars == <<inMap, made, count, conn, maxLimit, cut>>

Counters == 1..MaxCounters
NoCall(pc) == [pc |-> pc, counter |-> NoCounter, seen |-> 0]

LimiterTypeOK ==
    /\ inMap \in 0..MaxCounters /\ made \in 0..MaxCounters /\ cut \in BOOLEAN
    /\ count \in [Counters -> Nat]
    /\ conn \in [Conns -> [pc : {"new", "try", "swap", "refused", "open", "drop", "unswap", "over"},
                           counter : 0..MaxCounters, seen : Nat]]
    /\ maxLimit \in [Conns -> MaxLimits \cup {-1}]

LimiterInit ==
    /\ inMap = NoCounter /\ made = 0 /\ count = [i \in Counters |-> 0]
    /\ conn = [c \in Conns |-> NoCall("new")] /\ cut = FALSE
    /\ maxLimit = [c \in Conns |-> -1]
-----------------------------------------------------------------------------
\* A request reads the limit of the moment and calls TryAcquire.  getCounter: the sandbox's
\* counter, made when there is none.
GetCounter(c) ==
    /\ conn[c].pc = "new"
    /\ \/ inMap # NoCounter /\ UNCHANGED <<inMap, made>>
       \/ inMap = NoCounter /\ made < MaxCounters /\ made' = made + 1 /\ inMap' = made'
    /\ conn' = [conn EXCEPT ![c] = [pc |-> "try", counter |-> inMap', seen |-> 0]]
    /\ \E max \in MaxLimits : maxLimit' = [maxLimit EXCEPT ![c] = max]
    /\ UNCHANGED <<count, cut>>

\* TryAcquire: Load, and the limit.
TryLoad(c) ==
    LET n == count[conn[c].counter] IN
    /\ conn[c].pc = "try"
    /\ conn' = [conn EXCEPT ![c] = IF maxLimit[c] >= 0 /\ n >= maxLimit[c]
                                   THEN NoCall("refused")
                                   ELSE [pc |-> "swap", counter |-> @.counter, seen |-> n]]
    /\ UNCHANGED <<inMap, made, count, cut, maxLimit>>

\* Mutant of TrySwap: Store instead of CompareAndSwap.
TryStore(c) ==
    LET i == conn[c].counter IN
    /\ conn[c].pc = "swap"
    /\ count' = [count EXCEPT ![i] = conn[c].seen + 1]
    /\ conn' = [conn EXCEPT ![c] = NoCall("open")]
    /\ UNCHANGED <<inMap, made, cut, maxLimit>>

\* TryAcquire: CompareAndSwap, or once more.
TrySwap(c) ==
    LET i == conn[c].counter IN
    /\ conn[c].pc = "swap"
    /\ \/ /\ count[i] = conn[c].seen
          /\ count' = [count EXCEPT ![i] = @ + 1]
          /\ conn' = [conn EXCEPT ![c] = NoCall("open")]
       \/ /\ count[i] # conn[c].seen
          /\ conn' = [conn EXCEPT ![c].pc = "try"] /\ UNCHANGED count
    /\ UNCHANGED <<inMap, made, cut, maxLimit>>

\* The connection ends.  Release: the counter that is in the map now, if there is one.
ReleaseGet(c) ==
    /\ conn[c].pc = "open"
    /\ conn' = [conn EXCEPT ![c] = IF inMap = NoCounter THEN NoCall("over")
                                   ELSE [pc |-> "drop", counter |-> inMap, seen |-> 0]]
    /\ UNCHANGED <<inMap, made, count, cut, maxLimit>>

ReleaseLoad(c) ==
    LET n == count[conn[c].counter] IN
    /\ conn[c].pc = "drop"
    /\ conn' = [conn EXCEPT ![c] = IF n <= 0 THEN NoCall("over")
                                   ELSE [pc |-> "unswap", counter |-> @.counter, seen |-> n]]
    /\ UNCHANGED <<inMap, made, count, cut, maxLimit>>

ReleaseSwap(c) ==
    LET i == conn[c].counter IN
    /\ conn[c].pc = "unswap"
    /\ \/ /\ count[i] = conn[c].seen
          /\ count' = [count EXCEPT ![i] = @ - 1]
          /\ conn' = [conn EXCEPT ![c] = NoCall("over")]
       \/ /\ count[i] # conn[c].seen
          /\ conn' = [conn EXCEPT ![c].pc = "drop"] /\ UNCHANGED count
    /\ UNCHANGED <<inMap, made, cut, maxLimit>>

\* Remove: "Call when the key is no longer needed."
Remove ==
    /\ inMap # NoCounter /\ inMap' = NoCounter
    /\ cut' = (cut \/ \E c \in Conns : conn[c].pc \notin {"new", "refused", "over"})
    /\ UNCHANGED <<made, count, conn, maxLimit>>
-----------------------------------------------------------------------------
LimiterNext ==
    \/ Remove
    \/ \E c \in Conns : \/ GetCounter(c) \/ TryLoad(c) \/ TrySwap(c)
                        \/ ReleaseGet(c) \/ ReleaseLoad(c) \/ ReleaseSwap(c)
-----------------------------------------------------------------------------
\* Unless Remove cut in, the counter is the number of connections that are open or on their
\* way out, and of these no more than k came with a limit of k or less, whatever limits the
\* others came with before and after them (limiter.go:34-63, proxy/handler.go:151-152).
CountsOpen ==
    LET Counted == {c \in Conns : conn[c].pc \in {"open", "drop", "unswap"}} IN
    ~cut => /\ Cardinality(Counted) = IF inMap = NoCounter THEN 0 ELSE count[inMap]
            /\ \A k \in MaxLimits : k >= 0 => Cardinality({c \in Counted : maxLimit[c] \in 0..k}) <= k
=============================================================================
