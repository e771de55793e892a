--------------------------- MODULE WatchersProofs ----------------------------
(***************************************************************************)
(* Proofs about Watchers, for any watchers, streams, polls and removals.  *)
(***************************************************************************)
EXTENDS Watchers, SequenceTheorems, WellFoundedInduction, TLAPS

\* Only what CreateWatcher has stored is being removed.
RemovesStored ==
    \A r \in Removals : removal[r].w # NoWatcher => create[removal[r].w] = "stored"

\* A removal that is past Close has left its watcher closed: nothing opens it again.
ClosedFirst ==
    \A r \in Removals :
        removal[r].pc \in {"closed", "cancelled"} => removal[r].w \notin open

\* A watcher is open only once it has been made.
OpenIsMade == \A w \in Watched : w \in open => create[w] # "none"

\* Only stored watchers are in the table.
TableIsStored == \A w \in table : create[w] = "stored"

IInv == TypeOK /\ RemovesStored /\ ClosedFirst /\ OpenIsMade /\ TableIsStored /\ NoneForgotten
-----------------------------------------------------------------------------
LEMMA InitIInv == ASSUME Init PROVE IInv
<1>1. TypeOK
  BY OpsAssumption DEF Init, TypeOK, Notifiers, Ops
<1>2. RemovesStored /\ ClosedFirst /\ OpenIsMade /\ TableIsStored /\ NoneForgotten
  BY DEF Init, RemovesStored, ClosedFirst, OpenIsMade, TableIsStored, NoneForgotten
<1>3. QED
  BY <1>1, <1>2 DEF IInv

LEMMA HeadTail ==
    ASSUME NEW S, NEW q \in Seq(S), q # <<>> PROVE Head(q) \in S /\ Tail(q) \in Seq(S)
OBVIOUS

\* Steps that leave the table, the open watchers, CreateWatcher and removals alone.
LEMMA Untouched ==
    ASSUME IInv, TypeOK', UNCHANGED <<create, table, open, removal>> PROVE IInv'
BY DEF IInv, RemovesStored, ClosedFirst, OpenIsMade, TableIsStored, NoneForgotten

\* fsnotify and the loops that read from it.
LEMMA NotifyType ==
    ASSUME TypeOK, NEW x \in Notifiers,
           (\E n \in OpsPerEvent : Happens(x, n)) \/ TakeEvent(x)
    PROVE  TypeOK'
<1>1. ASSUME NEW n \in OpsPerEvent, Happens(x, n) PROVE TypeOK'
  <2>1. n \in 1..MaxOps /\ MaxOps \in Nat /\ happened[x] \in Nat /\ happened[x] + n <= MaxOps
    BY <1>1, OpsAssumption DEF Happens, TypeOK
  <2>2. [i \in 1..n |-> happened[x] + i] \in Ops
    BY <2>1 DEF Ops
  <2>3. queue' \in [Notifiers -> Seq(Ops)]
    BY <1>1, <2>2 DEF Happens, TypeOK
  <2>4. happened' \in [Notifiers -> 0..MaxOps]
    BY <1>1, <2>1 DEF Happens, TypeOK
  <2>5. QED
    BY <1>1, <2>3, <2>4 DEF Happens, TypeOK
<1>2. CASE TakeEvent(x)
  <2>1. Head(queue[x]) \in Ops /\ Tail(queue[x]) \in Seq(Ops)
    BY <1>2 DEF TakeEvent, TypeOK
  <2>2. QED
    BY <1>2, <2>1 DEF TakeEvent, TypeOK
<1>3. QED
  BY <1>1, <1>2

LEMMA NotifyIInv ==
    ASSUME IInv, NEW x \in Notifiers,
           (\E n \in OpsPerEvent : Happens(x, n)) \/ TakeEvent(x)
    PROVE  IInv'
<1>1. TypeOK'
  BY NotifyType DEF IInv
<1>2. UNCHANGED <<create, table, open, removal>>
  BY DEF Happens, TakeEvent
<1>3. QED
  BY <1>1, <1>2, Untouched

LEMMA WatcherIInv ==
    ASSUME IInv, NEW w \in Watched,
           \/ CreateFileWatcher(w) \/ Store(w) \/ AppendEvent(w)
           \/ LoopCancelled(w) \/ LoopClosed(w) \/ LoopError(w)
    PROVE  IInv'
<1> w \in Notifiers
  BY DEF Notifiers
<1> USE DEF IInv
<1>1. CASE CreateFileWatcher(w)
  <2>1. TypeOK'
    BY <1>1 DEF CreateFileWatcher, TypeOK
  <2>2. RemovesStored' /\ ClosedFirst'
    BY <1>1 DEF CreateFileWatcher, TypeOK, RemovesStored, ClosedFirst
  <2>3. OpenIsMade' /\ TableIsStored' /\ NoneForgotten'
    BY <1>1 DEF CreateFileWatcher, TypeOK, OpenIsMade, TableIsStored, NoneForgotten
  <2>4. QED
    BY <2>1, <2>2, <2>3
<1>2. CASE Store(w)
  <2>1. TypeOK'
    BY <1>2 DEF Store, notifyVars, TypeOK
  <2>2. RemovesStored' /\ ClosedFirst'
    BY <1>2 DEF Store, notifyVars, TypeOK, RemovesStored, ClosedFirst
  <2>3. OpenIsMade' /\ TableIsStored' /\ NoneForgotten'
    BY <1>2 DEF Store, notifyVars, TypeOK, OpenIsMade, TableIsStored, NoneForgotten
  <2>4. QED
    BY <2>1, <2>2, <2>3
<1>3. CASE AppendEvent(w)
  <2>1. Head(hand[w]) \in 1..MaxOps /\ Tail(hand[w]) \in Ops
    <3>1. hand[w] \in Seq(1..MaxOps) /\ hand[w] # <<>>
      BY <1>3 DEF AppendEvent, TypeOK, Ops
    <3>2. QED
      BY <3>1, HeadTail DEF Ops
  <2>2. Append(events[w], Head(hand[w])) \in Ops
    BY <2>1 DEF TypeOK, Ops
  <2>3. TypeOK' /\ UNCHANGED <<create, table, open, removal>>
    BY <1>3, <2>1, <2>2 DEF AppendEvent, notifyVars, TypeOK
  <2>4. QED
    BY <2>3, Untouched
<1>4. CASE LoopCancelled(w)
  <2>1. TypeOK' /\ UNCHANGED <<create, table, open, removal>>
    BY <1>4 DEF LoopCancelled, notifyVars, TypeOK
  <2>2. QED
    BY <2>1, Untouched
<1>5. CASE LoopClosed(w) \/ LoopError(w)
  <2>1. TypeOK' /\ UNCHANGED <<create, table, open, removal>>
    BY <1>5 DEF LoopClosed, LoopError, LoopFails, notifyVars, TypeOK
  <2>2. QED
    BY <2>1, Untouched
<1>6. QED
  BY <1>1, <1>2, <1>3, <1>4, <1>5

LEMMA PollIInv ==
    ASSUME IInv, NEW p \in Polls,
           (\E w \in Watched : PollLoad(p, w)) \/ PollCheck(p) \/ PollTake(p)
    PROVE  IInv'
<1>1. ASSUME NEW w \in Watched, PollLoad(p, w) PROVE IInv'
  <2>1. TypeOK' /\ UNCHANGED <<create, table, open, removal>>
    BY <1>1, SetsAssumption DEF PollLoad, Load, Loaded, notifyVars, IInv, TypeOK
  <2>2. QED
    BY <2>1, Untouched
<1>2. CASE PollCheck(p)
  <2>1. TypeOK' /\ UNCHANGED <<create, table, open, removal>>
    BY <1>2 DEF PollCheck, notifyVars, IInv, TypeOK
  <2>2. QED
    BY <2>1, Untouched
<1>3. CASE PollTake(p)
  <2>1. poll[p].w \in Watched /\ poll[p].w \in Notifiers
    BY <1>3 DEF PollTake, IInv, TypeOK, Notifiers
  <2>2. answered[poll[p].w] \o events[poll[p].w] \in Ops /\ <<>> \in Ops
    BY <2>1 DEF IInv, TypeOK, Ops
  <2>3. TypeOK' /\ UNCHANGED <<create, table, open, removal>>
    BY <1>3, <2>1, <2>2 DEF PollTake, notifyVars, IInv, TypeOK
  <2>4. QED
    BY <2>3, Untouched
<1>4. QED
  BY <1>1, <1>2, <1>3

LEMMA RemovalIInv ==
    ASSUME IInv, NEW r \in Removals,
           \/ \E w \in Watched : RemoveLoad(r, w)
           \/ RemoveClose(r) \/ RemoveCancel(r) \/ RemoveDelete(r)
    PROVE  IInv'
<1> USE DEF IInv
<1>1. ASSUME NEW w \in Watched, RemoveLoad(r, w) PROVE IInv'
  <2>1. TypeOK'
    BY <1>1, SetsAssumption DEF RemoveLoad, Load, Loaded, notifyVars, TypeOK
  <2>2. RemovesStored' /\ ClosedFirst'
    BY <1>1 DEF RemoveLoad, Load, Loaded, notifyVars, TypeOK, RemovesStored, ClosedFirst
  <2>3. OpenIsMade' /\ TableIsStored' /\ NoneForgotten'
    BY <1>1 DEF RemoveLoad, Load, notifyVars, OpenIsMade, TableIsStored, NoneForgotten
  <2>4. QED
    BY <2>1, <2>2, <2>3
<1>2. ASSUME RemoveClose(r) \/ RemoveCancel(r) \/ RemoveDelete(r)
      PROVE  removal[r].w \in Watched /\ removal[r].w \in Notifiers
  BY <1>2 DEF RemoveClose, RemoveCancel, RemoveDelete, TypeOK, Notifiers
<1>3. CASE RemoveClose(r)
  <2>1. TypeOK'
    BY <1>2, <1>3 DEF RemoveClose, TypeOK
  <2>2. RemovesStored' /\ ClosedFirst'
    BY <1>3 DEF RemoveClose, TypeOK, RemovesStored, ClosedFirst
  <2>3. OpenIsMade' /\ TableIsStored' /\ NoneForgotten'
    BY <1>3 DEF RemoveClose, OpenIsMade, TableIsStored, NoneForgotten
  <2>4. QED
    BY <2>1, <2>2, <2>3
<1>4. CASE RemoveCancel(r)
  <2>1. TypeOK'
    BY <1>2, <1>4 DEF RemoveCancel, notifyVars, TypeOK
  <2>2. RemovesStored' /\ ClosedFirst'
    BY <1>4 DEF RemoveCancel, notifyVars, TypeOK, RemovesStored, ClosedFirst
  <2>3. OpenIsMade' /\ TableIsStored' /\ NoneForgotten'
    BY <1>4 DEF RemoveCancel, notifyVars, OpenIsMade, TableIsStored, NoneForgotten
  <2>4. QED
    BY <2>1, <2>2, <2>3
<1>5. CASE RemoveDelete(r)
  <2>1. TypeOK'
    BY <1>2, <1>5 DEF RemoveDelete, notifyVars, TypeOK
  <2>2. RemovesStored' /\ ClosedFirst'
    BY <1>5 DEF RemoveDelete, notifyVars, TypeOK, RemovesStored, ClosedFirst
  <2>3. OpenIsMade' /\ TableIsStored' /\ NoneForgotten'
    BY <1>5 DEF RemoveDelete, notifyVars, ClosedFirst, OpenIsMade, TableIsStored, NoneForgotten
  <2>4. QED
    BY <2>1, <2>2, <2>3
<1>6. QED
  BY <1>1, <1>3, <1>4, <1>5

LEMMA StreamIInv ==
    ASSUME IInv, NEW s \in Streams,
           \/ WatchDir(s) \/ ClientLeaves(s) \/ SendEvent(s)
           \/ StreamEnds(s) \/ StreamError(s)
    PROVE  IInv'
<1> s \in Notifiers /\ s \notin Watched
  BY SetsAssumption DEF Notifiers
<1>1. TypeOK'
  <2>1. CASE SendEvent(s)
    <3>1. Head(hand[s]) \in 1..MaxOps /\ Tail(hand[s]) \in Ops
      <4>1. hand[s] \in Seq(1..MaxOps) /\ hand[s] # <<>>
        BY <2>1 DEF SendEvent, IInv, TypeOK, Ops
      <4>2. QED
        BY <4>1, HeadTail DEF Ops
    <3>2. Append(answered[s], Head(hand[s])) \in Ops
      BY <3>1 DEF IInv, TypeOK, Ops
    <3>3. QED
      BY <2>1, <3>1, <3>2 DEF SendEvent, notifyVars, IInv, TypeOK
  <2>2. CASE WatchDir(s) \/ ClientLeaves(s)
    BY <2>2 DEF WatchDir, ClientLeaves, notifyVars, IInv, TypeOK
  <2>3. CASE StreamEnds(s) \/ StreamError(s)
    BY <2>3 DEF StreamEnds, StreamError, Return, IInv, TypeOK
  <2>4. QED
    BY <2>1, <2>2, <2>3
<1>2. UNCHANGED <<create, table, removal>> /\ \A w \in Watched : w \in open' => w \in open
  BY DEF WatchDir, ClientLeaves, SendEvent, StreamEnds, StreamError, Return, notifyVars
<1>3. ClosedFirst'
  <2>1. \A r \in Removals : removal[r].pc \in {"closed", "cancelled"} => removal[r].w \in Watched
    BY DEF IInv, TypeOK
  <2>2. QED
    BY <1>2, <2>1 DEF IInv, ClosedFirst
<1>4. RemovesStored' /\ OpenIsMade' /\ TableIsStored' /\ NoneForgotten'
  BY <1>2 DEF IInv, RemovesStored, OpenIsMade, TableIsStored, NoneForgotten
<1>5. QED
  BY <1>1, <1>3, <1>4 DEF IInv
-----------------------------------------------------------------------------
LEMMA StepIInv == ASSUME IInv, [Next]_vars PROVE IInv'
<1>1. CASE UNCHANGED vars
  <2>1. TypeOK'
    BY <1>1 DEF IInv, TypeOK, vars, notifyVars
  <2>2. QED
    BY <1>1, <2>1, Untouched DEF vars, notifyVars
<1>2. CASE Environment
  BY <1>2, NotifyIInv, WatcherIInv, StreamIInv, PollIInv, RemovalIInv DEF Environment
<1>3. ASSUME NEW w \in Watched, Goroutine(w) \/ Store(w) PROVE IInv'
  BY <1>3, NotifyIInv, WatcherIInv DEF Goroutine, Notifiers
<1>4. ASSUME NEW s \in Streams, StreamHandler(s) PROVE IInv'
  BY <1>4, NotifyIInv, StreamIInv DEF StreamHandler, Notifiers
<1>5. ASSUME NEW p \in Polls, Poll(p) PROVE IInv'
  BY <1>5, PollIInv DEF Poll
<1>6. ASSUME NEW r \in Removals, Removing(r) PROVE IInv'
  BY <1>6, RemovalIInv DEF Removing
<1>7. QED
  BY <1>1, <1>2, <1>3, <1>4, <1>5, <1>6 DEF Next

\* The inductive invariant holds throughout, however polls, removals and the
\* goroutine of a watcher (watch_sync.go:53-133) overlap.
THEOREM Inductive == Spec => []IInv
BY InitIInv, StepIInv, PTL DEF Spec

\* Watcher table, buffers and requests keep their types; in particular a poll or a
\* removal past its Load has a watcher (watch_sync.go:193-196, 215-218).
THEOREM TypeCorrect == Spec => []TypeOK
<1>1. IInv => TypeOK
  BY DEF IInv
<1>2. QED
  BY <1>1, Inductive, PTL

\* Every open fsnotify watcher of CreateWatcher stays in the table until it is
\* closed, however many removals of it overlap (watch_sync.go:212-224).
THEOREM Findable == Spec => []NoneForgotten
<1>1. IInv => NoneForgotten
  BY DEF IInv
<1>2. QED
  BY <1>1, Inductive, PTL
-----------------------------------------------------------------------------
\* A set of numbers that is not empty has a least element: induction over the length
\* of a queue is by the least counterexample.
LEMMA LeastNat ==
    ASSUME NEW T \in SUBSET Nat, T # {}
    PROVE  \E x \in T : \A y \in T : x <= y
<1> DEFINE R == OpToRel(<, Nat)
<1>1. IsWellFoundedOn(R, Nat)
  BY NatLessThanWellFounded
<1>2. \A x, y \in Nat : x < y => <<x, y>> \in R
  BY DEF OpToRel
<1> HIDE DEF R
<1>3. PICK x \in T : \A y \in T : ~ (<<y, x>> \in R)
  BY <1>1, WFMin
<1>4. ASSUME NEW y \in T PROVE x <= y
  <2>1. x \in Nat /\ y \in Nat
    OBVIOUS
  <2>2. ~(y < x)
    BY <1>2, <1>3, <2>1, Zenon
  <2>3. QED
    BY <2>1, <2>2
<1>5. QED
  BY <1>4

\* Concatenation, under a name the provers do not look behind.
Cat(a, b) == a \o b

\* What two sequences make is a sequence.
LEMMA CatIsSeq == \A S : \A a, b \in Seq(S) : Cat(a, b) \in Seq(S)
BY DEF Cat

\* It does not matter which two of three are joined first.
LEMMA CatAssociates ==
    \A S : \A a, b, c \in Seq(S) : Cat(Cat(a, b), c) = Cat(a, Cat(b, c))
BY DEF Cat

\* The empty sequence adds nothing.
LEMMA CatEmpty == \A S : \A a \in Seq(S) : Cat(<<>>, a) = a /\ Cat(a, <<>>) = a
BY DEF Cat

\* f joins the first n sequences of q, one after the other.
Joins(f, q, n) ==
    /\ n >= 1 => f[1] = q[1]
    /\ \A i \in 2..n : f[i] = Cat(f[i - 1], q[i])

\* The body of FlattenSeq's recursive function, over the first n sequences of q.
JoinUp(q, n, f) == [i \in 1..n |-> IF i = 1 THEN q[i] ELSE f[i-1] \o q[i]]

\* There is a function with that body, for every n.
LEMMA JoinUpExists ==
    ASSUME NEW q, NEW m \in Nat
    PROVE  \E f : f = JoinUp(q, m, f)
<1> DEFINE T == {n \in Nat : ~ \E f : f = JoinUp(q, n, f)}
<1> SUFFICES ASSUME T # {} PROVE FALSE
  OBVIOUS
<1>1. PICK n \in T : \A y \in T : n <= y
  BY LeastNat
<1>2. n # 0
  <2>1. JoinUp(q, 0, <<>>) = <<>>
    BY DEF JoinUp
  <2>2. QED
    BY <2>1
<1>3. n - 1 \in Nat /\ n \in Nat /\ n - 1 \notin T
  BY <1>1, <1>2
<1>4. PICK f : f = JoinUp(q, n - 1, f)
  BY <1>3
<1> DEFINE g == [i \in 1..n |-> IF i < n THEN f[i] ELSE IF n = 1 THEN q[n] ELSE f[n - 1] \o q[n]]
           h == JoinUp(q, n, g)
<1>5. \A i \in 1..(n - 1) : f[i] = IF i = 1 THEN q[i] ELSE f[i - 1] \o q[i]
  BY <1>4 DEF JoinUp
<1>6. \A i \in 1..n : g[i] = h[i]
  <2>1. ASSUME NEW i \in 1..n, i # n, i # 1 PROVE g[i] = h[i]
    <3>1. i \in 1..(n - 1) /\ i - 1 \in 1..n /\ i - 1 < n /\ i < n
      BY <1>3, <2>1
    <3>2. g[i] = f[i] /\ g[i - 1] = f[i - 1]
      BY <1>3, <3>1
    <3>3. h[i] = g[i - 1] \o q[i]
      BY <2>1 DEF JoinUp
    <3> HIDE DEF g, h
    <3>4. QED
      BY <1>5, <2>1, <3>1, <3>2, <3>3
  <2>2. ASSUME NEW i \in 1..n, i = 1 PROVE g[i] = h[i]
    <3>1. h[i] = q[1]
      BY <2>2 DEF JoinUp
    <3>2. CASE n = 1
      BY <2>2, <3>1, <3>2
    <3>3. CASE n # 1
      <4>1. 1 \in 1..(n - 1) /\ 1 < n
        BY <1>3, <3>3
      <4>2. g[i] = f[1]
        BY <2>2, <4>1
      <4>3. QED
        BY <1>5, <3>1, <4>1, <4>2
    <3>4. QED
      BY <3>2, <3>3
  <2>3. ASSUME NEW i \in 1..n, i = n, n # 1 PROVE g[i] = h[i]
    <3>1. n - 1 \in 1..n /\ n - 1 < n
      BY <1>2, <1>3, <2>3
    <3>2. g[n] = f[n - 1] \o q[n]
      <4>1. n \in 1..n /\ ~(n < n)
        BY <1>2, <1>3
      <4>2. QED
        BY <2>3, <4>1
    <3>a. g[n - 1] = f[n - 1]
      BY <3>1
    <3>3. h[n] = g[n - 1] \o q[n]
      BY <2>3 DEF JoinUp
    <3> HIDE DEF g, h
    <3>4. QED
      BY <2>3, <3>2, <3>3, <3>a
  <2>4. QED
    BY <2>1, <2>2, <2>3
<1>7. g = h
  <2>1. g = [i \in 1..n |-> g[i]]
    OBVIOUS
  <2>2. h = [i \in 1..n |-> h[i]]
    BY DEF JoinUp
  <2> HIDE DEF g, h
  <2>3. QED
    BY <1>6, <2>1, <2>2
<1>8. QED
  BY <1>1, <1>7

\* So FlattenSeq is the last value of a function that joins.
LEMMA FlattenJoins ==
    ASSUME NEW S, NEW q \in Seq(Seq(S)), q # <<>>
    PROVE  \E f : Joins(f, q, Len(q)) /\ FlattenSeq(q) = f[Len(q)]
<1> DEFINE f == CHOOSE g : g = [i \in 1..Len(q) |-> IF i = 1 THEN q[i] ELSE g[i-1] \o q[i]]
<1>1. Len(q) \in Nat \ {0}
  BY EmptySeq
<1>2. FlattenSeq(q) = f[Len(q)]
  BY <1>1 DEF FlattenSeq
<1>3. \E g : g = [i \in 1..Len(q) |-> IF i = 1 THEN q[i] ELSE g[i-1] \o q[i]]
  BY <1>1, JoinUpExists DEF JoinUp
<1>4. f = [i \in 1..Len(q) |-> IF i = 1 THEN q[i] ELSE f[i-1] \o q[i]]
  BY <1>3, Zenon
<1> HIDE DEF f
<1>5. \A i \in 1..Len(q) : f[i] = IF i = 1 THEN q[i] ELSE f[i-1] \o q[i]
  BY <1>4
<1>6. Joins(f, q, Len(q))
  <2>1. 1 \in 1..Len(q)
    BY <1>1
  <2>2. f[1] = q[1]
    BY <1>5, <2>1
  <2>3. ASSUME NEW i \in 2..Len(q) PROVE f[i] = f[i - 1] \o q[i]
    <3>1. i \in 1..Len(q) /\ i # 1
      BY <1>1, <2>3
    <3>2. QED
      BY <1>5, <3>1
  <2>4. QED
    BY <2>2, <2>3 DEF Joins, Cat
<1>7. QED
  BY <1>2, <1>6

\* What is joined is a sequence over the same set.
LEMMA JoinsType ==
    ASSUME NEW S, NEW q \in Seq(Seq(S)), NEW f, Joins(f, q, Len(q))
    PROVE  \A i \in 1..Len(q) : f[i] \in Seq(S)
<1> DEFINE T == {i \in 1..Len(q) : f[i] \notin Seq(S)}
<1> SUFFICES ASSUME T # {} PROVE FALSE
  OBVIOUS
<1>1. T \in SUBSET Nat /\ Len(q) \in Nat
  OBVIOUS
<1>2. PICK x \in T : \A y \in T : x <= y
  BY <1>1, LeastNat
<1>3. q[x] \in Seq(S)
  BY <1>2
<1>4. CASE x = 1
  BY <1>1, <1>2, <1>3, <1>4 DEF Joins
<1>5. CASE x # 1
  <2>1. x - 1 \in 1..Len(q) /\ x \in 2..Len(q) /\ x - 1 \notin T
    BY <1>1, <1>2, <1>5
  <2>2. f[x - 1] \in Seq(S) /\ f[x] = Cat(f[x - 1], q[x])
    BY <2>1 DEF Joins
  <2>3. f[x] \in Seq(S)
    BY <1>3, <2>2, CatIsSeq
  <2>4. QED
    BY <1>2, <2>3
<1>6. QED
  BY <1>4, <1>5

\* Two functions that join the same sequences are equal.
LEMMA JoinsAgree ==
    ASSUME NEW q, NEW f, NEW g, NEW n \in Nat, Joins(f, q, n), Joins(g, q, n)
    PROVE  \A i \in 1..n : f[i] = g[i]
<1> DEFINE T == {i \in 1..n : f[i] # g[i]}
<1> SUFFICES ASSUME T # {} PROVE FALSE
  OBVIOUS
<1>1. T \in SUBSET Nat
  OBVIOUS
<1>2. PICK x \in T : \A y \in T : x <= y
  BY <1>1, LeastNat
<1>3. CASE x = 1
  BY <1>1, <1>2, <1>3 DEF Joins
<1>4. CASE x # 1
  <2>1. x - 1 \in 1..n /\ x \in 2..n /\ x - 1 \notin T
    BY <1>1, <1>2, <1>4
  <2>2. f[x - 1] = g[x - 1] /\ f[x] = Cat(f[x - 1], q[x]) /\ g[x] = Cat(g[x - 1], q[x])
    BY <2>1 DEF Joins
  <2>3. QED
    BY <1>2, <2>2
<1>5. QED
  BY <1>3, <1>4

\* f begins with a sequence of its own and then joins the first n sequences of p.
JoinsOn(f, p, n) == \A i \in 1..n : f[i + 1] = Cat(f[i], p[i])

\* The first n values are sequences over S.
SeqsUpTo(p, n, S) == \A i \in 1..n : p[i] \in Seq(S)

\* Joining p behind a sequence puts that sequence before what p joins to.
LEMMA JoinsBehind ==
    ASSUME NEW S, NEW n \in Nat, NEW a \in Seq(S), NEW p, NEW f, NEW g,
           SeqsUpTo(p, n, S), SeqsUpTo(g, n, S),
           f[1] = a, JoinsOn(f, p, n), Joins(g, p, n)
    PROVE  \A i \in 1..n : f[i + 1] = Cat(a, g[i])
<1> DEFINE T == {i \in 1..n : f[i + 1] # Cat(a, g[i])}
<1> SUFFICES ASSUME T # {} PROVE FALSE
  OBVIOUS
<1>1. T \in SUBSET Nat
  OBVIOUS
<1>2. PICK x \in T : \A y \in T : x <= y
  BY <1>1, LeastNat
<1>3. x \in 1..n
  BY <1>2
<1>4. CASE x = 1
  <2>1. f[1 + 1] = Cat(f[1], p[1]) /\ g[1] = p[1]
    BY <1>3, <1>4 DEF Joins, JoinsOn
  <2>2. QED
    BY <1>2, <1>4, <2>1
<1>5. CASE x # 1
  <2>1. x - 1 \in 1..n /\ x \in 2..n /\ (x - 1) + 1 = x /\ ~(x <= x - 1)
    BY <1>3, <1>5
  <2>2. x - 1 \notin T
    <3> HIDE DEF T
    <3>1. QED
      BY <1>2, <2>1
  <2>3. f[x] = Cat(a, g[x - 1])
    BY <2>1, <2>2
  <2>4. f[x + 1] = Cat(f[x], p[x]) /\ g[x] = Cat(g[x - 1], p[x])
    BY <1>3, <2>1 DEF Joins, JoinsOn
  <2>5. g[x - 1] \in Seq(S) /\ p[x] \in Seq(S)
    BY <1>3, <2>1 DEF SeqsUpTo
  <2>6. Cat(Cat(a, g[x - 1]), p[x]) = Cat(a, Cat(g[x - 1], p[x]))
    BY <2>5, CatAssociates
  <2>7. QED
    BY <1>2, <2>3, <2>4, <2>6
<1>6. QED
  BY <1>4, <1>5

\* A queue without events has no operations.
LEMMA FlattenEmpty == FlattenSeq(<<>>) = <<>>
BY DEF FlattenSeq

\* The operations of a queue are a sequence.
LEMMA FlattenType ==
    ASSUME NEW S, NEW q \in Seq(Seq(S)) PROVE FlattenSeq(q) \in Seq(S)
<1>1. CASE q = <<>>
  BY <1>1, FlattenEmpty, EmptySeq
<1>2. CASE q # <<>>
  <2>1. PICK f : Joins(f, q, Len(q)) /\ FlattenSeq(q) = f[Len(q)]
    BY <1>2, FlattenJoins
  <2>2. Len(q) \in 1..Len(q)
    BY <1>2, EmptySeq
  <2>3. QED
    BY <2>1, <2>2, JoinsType
<1>3. QED
  BY <1>1, <1>2

\* An event at the end of the queue comes after all the others.
LEMMA FlattenAppend ==
    ASSUME NEW S, NEW q \in Seq(Seq(S)), NEW e \in Seq(S)
    PROVE  FlattenSeq(Append(q, e)) = Cat(FlattenSeq(q), e)
<1> DEFINE p == Append(q, e)
           n == Len(q)
<1>1. /\ p \in Seq(Seq(S)) /\ Len(p) = n + 1 /\ n \in Nat /\ p # <<>>
      /\ p[n + 1] = e /\ \A i \in 1..n : p[i] = q[i]
  BY AppendProperties
<1> HIDE DEF p, n
<1>2. PICK g : Joins(g, p, Len(p)) /\ FlattenSeq(p) = g[Len(p)]
  BY <1>1, FlattenJoins
<1>3. CASE q = <<>>
  <2>1. n = 0
    BY <1>3 DEF n
  <2>2. FlattenSeq(p) = e
    BY <1>1, <1>2, <2>1 DEF Joins
  <2>3. Cat(<<>>, e) = e
    BY CatEmpty
  <2>4. QED
    BY <1>3, <2>2, <2>3, FlattenEmpty DEF p
<1>4. CASE q # <<>>
  <2>1. n \in Nat \ {0}
    BY <1>4, EmptySeq DEF n
  <2>2. PICK f : Joins(f, q, n) /\ FlattenSeq(q) = f[n]
    BY <1>4, FlattenJoins DEF n
  <2>3. f[n] = g[n]
    <3>1. Joins(g, p, n + 1) /\ n + 1 \in Nat /\ n <= n + 1 /\ n \in 1..n
      BY <1>1, <1>2, <2>1
    <3>2. Joins(g, q, n)
      <4>1. g[1] = p[1] /\ 1 \in 1..n
        BY <2>1, <3>1 DEF Joins
      <4>2. ASSUME NEW i \in 2..n PROVE g[i] = Cat(g[i - 1], p[i]) /\ i \in 1..n
        <5>1. i \in 2..(n + 1) /\ i \in 1..n
          BY <2>1
        <5>2. QED
          BY <3>1, <5>1 DEF Joins
      <4>3. QED
        BY <1>1, <4>1, <4>2 DEF Joins
    <3>3. \A i \in 1..n : f[i] = g[i]
      BY <1>1, <2>2, <3>2, JoinsAgree
    <3>4. QED
      BY <3>1, <3>3
  <2>4. n + 1 \in 2..(n + 1) /\ (n + 1) - 1 = n
    BY <2>1
  <2>5. g[n + 1] = Cat(g[n], e)
    BY <1>1, <1>2, <2>4 DEF Joins
  <2>6. QED
    BY <1>1, <1>2, <2>2, <2>3, <2>5 DEF p
<1>5. QED
  BY <1>3, <1>4

\* The event at the head of the queue comes before all the others.
LEMMA FlattenHead ==
    ASSUME NEW S, NEW q \in Seq(Seq(S)), q # <<>>
    PROVE  FlattenSeq(q) = Cat(Head(q), FlattenSeq(Tail(q)))
<1> DEFINE p == Tail(q)
           n == Len(q)
<1>1. /\ n \in Nat \ {0} /\ p \in Seq(Seq(S)) /\ Len(p) = n - 1 /\ Head(q) = q[1]
      /\ q[1] \in Seq(S)
  BY HeadTailProperties, EmptySeq
<1> HIDE DEF p, n
<1>2. PICK f : Joins(f, q, n) /\ FlattenSeq(q) = f[n]
  BY FlattenJoins DEF n
<1>3. CASE p = <<>>
  <2>1. n = 1
    BY <1>1, <1>3
  <2>2. FlattenSeq(q) = q[1]
    BY <1>2, <2>1 DEF Joins
  <2>3. Cat(q[1], <<>>) = q[1]
    BY <1>1, CatEmpty
  <2>4. QED
    BY <1>1, <1>3, <2>2, <2>3, FlattenEmpty DEF p
<1>4. CASE p # <<>>
  <2>1. PICK g : Joins(g, p, n - 1) /\ FlattenSeq(p) = g[n - 1]
    BY <1>1, <1>4, FlattenJoins
  <2>2. n - 1 \in 1..(n - 1) /\ (n - 1) + 1 = n
    <3>1. Len(p) \in Nat \ {0}
      BY <1>1, <1>4, EmptySeq
    <3>2. QED
      BY <1>1, <3>1
  <2>3. \A i \in 1..(n - 1) : f[i + 1] = Cat(q[1], g[i])
    <3>1. \A i \in 1..(n - 1) : p[i] \in Seq(S) /\ g[i] \in Seq(S) /\ p[i] = q[i + 1]
      <4>1. \A i \in 1..(n - 1) : g[i] \in Seq(S)
        BY <1>1, <2>1, JoinsType
      <4>2. \A i \in 1..(n - 1) : p[i] \in Seq(S)
        BY <1>1, ElementOfSeq
      <4>3. \A i \in 1..(n - 1) : p[i] = q[i + 1]
        BY <1>1, HeadTailProperties DEF p
      <4>4. QED
        BY <4>1, <4>2, <4>3
    <3>2. \A i \in 1..(n - 1) : f[i + 1] = Cat(f[i], p[i])
      <4> SUFFICES ASSUME NEW i \in 1..(n - 1) PROVE f[i + 1] = Cat(f[i], q[i + 1])
        BY <3>1
      <4>1. i + 1 \in 2..n /\ (i + 1) - 1 = i
        BY <1>1
      <4>2. QED
        BY <1>2, <4>1 DEF Joins
    <3>3. f[1] = q[1] /\ n - 1 \in Nat
      BY <1>1, <1>2 DEF Joins
    <3> DEFINE k == n - 1
    <3>4. /\ k \in Nat /\ q[1] \in Seq(S) /\ f[1] = q[1] /\ Joins(g, p, k)
          /\ SeqsUpTo(p, k, S) /\ SeqsUpTo(g, k, S) /\ JoinsOn(f, p, k)
      BY <1>1, <2>1, <3>1, <3>2, <3>3 DEF SeqsUpTo, JoinsOn
    <3> HIDE DEF k
    <3>5. \A i \in 1..k : f[i + 1] = Cat(q[1], g[i])
      BY <3>4, JoinsBehind
    <3>6. QED
      BY <3>5 DEF k
  <2>4. f[n] = Cat(q[1], g[n - 1])
    BY <2>2, <2>3
  <2>5. QED
    BY <1>1, <1>2, <2>1, <2>4 DEF p
<1>5. QED
  BY <1>3, <1>4

\* Append joins a sequence of one.
LEMMA AppendIsCat == \A S : \A a \in Seq(S), e \in S : Append(a, e) = Cat(a, <<e>>)
BY DEF Cat

\* A sequence is its head and then its tail.
LEMMA HeadFirst ==
    ASSUME NEW S, NEW a \in Seq(S), a # <<>>
    PROVE  a = Cat(<<Head(a)>>, Tail(a)) /\ Head(a) \in S /\ Tail(a) \in Seq(S)
BY DEF Cat

\* Counting to h and on by n is counting to h + n.
LEMMA CountOn ==
    ASSUME NEW h \in Nat, NEW n \in Nat
    PROVE  Cat([i \in 1..h |-> i], [i \in 1..n |-> h + i]) = [i \in 1..(h + n) |-> i]
<1> DEFINE a == [i \in 1..h |-> i]
           b == [i \in 1..n |-> h + i]
           c == [i \in 1..(h + n) |-> i]
<1>1. a \in Seq(Nat) /\ b \in Seq(Nat) /\ c \in Seq(Nat)
  OBVIOUS
<1>2. Len(a) = h /\ Len(b) = n /\ Len(c) = h + n
  OBVIOUS
<1>3. /\ \A i \in 1..h : a[i] = i
      /\ \A i \in 1..n : b[i] = h + i
      /\ \A i \in 1..(h + n) : c[i] = i
  OBVIOUS
<1> HIDE DEF a, b, c
<1>4. /\ a \o b \in Seq(Nat) /\ Len(a \o b) = Len(a) + Len(b)
      /\ \A i \in 1..(Len(a) + Len(b)) : (a \o b)[i] = IF i <= Len(a) THEN a[i] ELSE b[i - Len(a)]
  BY <1>1, ConcatProperties
<1>5. \A i \in 1..(h + n) : (a \o b)[i] = c[i]
  <2> SUFFICES ASSUME NEW i \in 1..(h + n) PROVE (a \o b)[i] = c[i]
    OBVIOUS
  <2>1. CASE i <= h
    BY <1>2, <1>3, <1>4, <2>1
  <2>2. CASE ~(i <= h)
    <3>1. i - h \in 1..n /\ h + (i - h) = i
      BY <2>2
    <3>2. QED
      BY <1>2, <1>3, <1>4, <2>2, <3>1
  <2>3. QED
    BY <2>1, <2>2
<1>6. a \o b = c
  BY <1>1, <1>2, <1>4, <1>5, SeqEqual
<1>7. QED
  BY <1>6 DEF Cat, a, b, c

\* From the queue to the hand.
LEMMA Handed ==
    ASSUME NEW S, NEW a \in Seq(S), NEW e \in Seq(S), NEW f \in Seq(S)
    PROVE  Cat(Cat(a, <<>>), Cat(e, f)) = Cat(Cat(a, e), f)
BY CatEmpty, CatAssociates

\* From the hand to the buffer, or to the client.
LEMMA Moved ==
    ASSUME NEW S, NEW a \in Seq(S), NEW b \in Seq(S), NEW h \in Seq(S), h # <<>>
    PROVE  /\ Cat(Cat(a, Append(b, Head(h))), Tail(h)) = Cat(Cat(a, b), h)
           /\ Cat(Append(b, Head(h)), Tail(h)) = Cat(b, h)
<1>1. h = Cat(<<Head(h)>>, Tail(h)) /\ Head(h) \in S /\ Tail(h) \in Seq(S)
  BY HeadFirst
<1>2. <<Head(h)>> \in Seq(S) /\ Append(b, Head(h)) = Cat(b, <<Head(h)>>)
  BY <1>1, AppendIsCat
<1> DEFINE u == <<Head(h)>>
           t == Tail(h)
           v == Append(b, Head(h))
<1>3. h = Cat(u, t) /\ u \in Seq(S) /\ t \in Seq(S) /\ v = Cat(b, u)
  BY <1>1, <1>2
<1> HIDE DEF u, t, v
<1>4. Cat(v, t) = Cat(b, h)
  BY <1>3, CatAssociates
<1>5. v \in Seq(S)
  BY <1>3, CatIsSeq
<1>6. Cat(Cat(a, v), t) = Cat(Cat(a, b), h)
  <2>1. Cat(Cat(a, v), t) = Cat(a, Cat(v, t))
    BY <1>3, <1>5, CatAssociates
  <2>2. Cat(Cat(a, b), h) = Cat(a, Cat(b, h))
    BY CatAssociates
  <2>3. QED
    BY <1>4, <2>1, <2>2
<1>7. QED
  BY <1>4, <1>6 DEF u, t, v
-----------------------------------------------------------------------------
\* What was returned, what is buffered, what is at hand and what is queued, in order.
Whole(x) == Cat(Cat(Cat(answered[x], Buffered(x)), hand[x]), FlattenSeq(queue[x]))

\* That is what happened, in the order in which it did.
Accounted(x) == Whole(x) = [i \in 1..happened[x] |-> i]

\* So it is for every watcher and stream: NothingLost, with concatenation named.
AllAccounted == \A x \in Notifiers : Accounted(x)

\* The two say the same.
LEMMA AccountIsNothingLost == AllAccounted <=> NothingLost
BY DEF AllAccounted, Accounted, Whole, NothingLost, Cat

\* The parts are sequences of operations.
LEMMA PartTypes ==
    ASSUME TypeOK, NEW x \in Notifiers
    PROVE  /\ answered[x] \in Ops /\ Buffered(x) \in Ops /\ hand[x] \in Ops
           /\ queue[x] \in Seq(Ops) /\ FlattenSeq(queue[x]) \in Ops
           /\ happened[x] \in Nat
<1>1. <<>> \in Ops
  BY DEF Ops
<1>2. answered[x] \in Ops /\ Buffered(x) \in Ops /\ hand[x] \in Ops /\ queue[x] \in Seq(Ops)
  BY <1>1 DEF TypeOK, Buffered
<1>3. happened[x] \in Nat
  BY OpsAssumption DEF TypeOK
<1>4. FlattenSeq(queue[x]) \in Ops
  BY <1>2, FlattenType DEF Ops
<1>5. QED
  BY <1>2, <1>3, <1>4

\* Only what one notifier's parts are has to be looked at.
Same(x) ==
    /\ answered'[x] = answered[x] /\ Buffered(x)' = Buffered(x) /\ hand'[x] = hand[x]
    /\ queue'[x] = queue[x] /\ happened'[x] = happened[x]

\* A watcher whose parts stay stays accounted for.
LEMMA SameAccount == ASSUME NEW x \in Notifiers, Accounted(x), Same(x) PROVE Accounted(x)'
BY DEF Accounted, Whole, Same

\* A step of one watcher leaves the others accounted for.
LEMMA OneAccount ==
    ASSUME AllAccounted, NEW x \in Notifiers, Accounted(x)',
           \A y \in Notifiers \ {x} : Same(y)
    PROVE  AllAccounted'
<1>1. ASSUME NEW y \in Notifiers, y # x PROVE Accounted(y)'
  BY <1>1, SameAccount DEF AllAccounted
<1>2. QED
  BY <1>1 DEF AllAccounted

\* Steps that move no operation.
LEMMA QuietAccount ==
    ASSUME AllAccounted, UNCHANGED <<queue, happened, hand, events, answered>> PROVE AllAccounted'
BY DEF AllAccounted, Accounted, Whole, Buffered
-----------------------------------------------------------------------------
\* An event joins the queue, and its operations continue the count.
LEMMA HappensAccount ==
    ASSUME IInv, AllAccounted, NEW x \in Notifiers, NEW n \in OpsPerEvent, Happens(x, n)
    PROVE  AllAccounted'
<1> DEFINE e == [i \in 1..n |-> happened[x] + i]
           a == Cat(Cat(answered[x], Buffered(x)), hand[x])
           f == FlattenSeq(queue[x])
<1>0. TypeOK /\ n \in Nat /\ n \in 1..MaxOps /\ MaxOps \in Nat
  BY OpsAssumption DEF IInv
<1>1. /\ queue'[x] = Append(queue[x], e) /\ happened'[x] = happened[x] + n
      /\ happened[x] + n <= MaxOps
      /\ UNCHANGED <<hand, answered, events>>
      /\ \A y \in Notifiers \ {x} : queue'[y] = queue[y] /\ happened'[y] = happened[y]
  BY <1>0 DEF Happens, TypeOK
<1>2. e \in Ops
  BY <1>0, <1>1, PartTypes DEF Ops
<1>3. FlattenSeq(queue'[x]) = Cat(f, e)
  <2> HIDE DEF e
  <2>1. queue[x] \in Seq(Seq(1..MaxOps)) /\ e \in Seq(1..MaxOps)
    BY <1>0, <1>2, PartTypes DEF Ops
  <2>2. QED
    BY <1>1, <2>1, FlattenAppend
<1>4. a \in Ops /\ f \in Ops
  <2>1. Cat(answered[x], Buffered(x)) \in Ops
    BY <1>0, PartTypes, CatIsSeq DEF Ops
  <2>2. QED
    BY <1>0, <2>1, PartTypes, CatIsSeq DEF Ops
<1>5. Whole(x) = Cat(a, f) /\ Whole(x)' = Cat(a, FlattenSeq(queue'[x]))
  BY <1>1 DEF Whole, Buffered
<1> HIDE DEF a, f
<1>6. Cat(a, Cat(f, e)) = Cat(Cat(a, f), e)
  <2> HIDE DEF e
  <2>1. QED
    BY <1>2, <1>4, CatAssociates DEF Ops
<1>7. Cat([i \in 1..happened[x] |-> i], e) = [i \in 1..(happened[x] + n) |-> i]
  BY <1>0, PartTypes, CountOn
<1>8. Whole(x) = [i \in 1..happened[x] |-> i]
  BY DEF AllAccounted, Accounted
<1>9. Accounted(x)'
  <2> HIDE DEF e
  <2>1. Whole(x)' = [i \in 1..(happened[x] + n) |-> i]
    BY <1>3, <1>5, <1>6, <1>7, <1>8
  <2>2. QED
    BY <1>1, <2>1 DEF Accounted
<1>10. \A y \in Notifiers \ {x} : Same(y)
  BY <1>1 DEF Same, Buffered
<1>11. QED
  BY <1>9, <1>10, OneAccount

\* The select takes the queue's first event (watch_sync.go:68, watch.go:97).
LEMMA TakeAccount ==
    ASSUME IInv, AllAccounted, NEW x \in Notifiers, TakeEvent(x) PROVE AllAccounted'
<1> DEFINE a == Cat(answered[x], Buffered(x))
           e == Head(queue[x])
           f == FlattenSeq(Tail(queue[x]))
<1>0. TypeOK
  BY DEF IInv
<1>1. /\ queue[x] # <<>> /\ hand[x] = <<>> /\ hand'[x] = e /\ queue'[x] = Tail(queue[x])
      /\ UNCHANGED <<happened, answered, events>>
      /\ \A y \in Notifiers \ {x} : queue'[y] = queue[y] /\ hand'[y] = hand[y]
  BY <1>0 DEF TakeEvent, Selecting, TypeOK
<1>2. queue[x] \in Seq(Seq(1..MaxOps))
  BY <1>0, PartTypes DEF Ops
<1>3. FlattenSeq(queue[x]) = Cat(e, f)
  BY <1>1, <1>2, FlattenHead
<1>4. e \in Seq(1..MaxOps) /\ f \in Seq(1..MaxOps)
  <2>1. e \in Seq(1..MaxOps) /\ Tail(queue[x]) \in Seq(Seq(1..MaxOps))
    BY <1>1, <1>2, HeadTailProperties
  <2>2. QED
    BY <2>1, FlattenType
<1>5. a \in Seq(1..MaxOps)
  BY <1>0, PartTypes, CatIsSeq DEF Ops
<1>6. Whole(x) = Cat(Cat(a, <<>>), FlattenSeq(queue[x])) /\ Whole(x)' = Cat(Cat(a, e), f)
  BY <1>1 DEF Whole, Buffered
<1> HIDE DEF a, e, f
<1>7. Whole(x)' = Whole(x)
  BY <1>3, <1>4, <1>5, <1>6, Handed
<1>8. Accounted(x)'
  BY <1>1, <1>7 DEF AllAccounted, Accounted
<1>9. \A y \in Notifiers \ {x} : Same(y)
  BY <1>1 DEF Same, Buffered
<1>10. QED
  BY <1>8, <1>9, OneAccount

\* One operation is appended to the buffer under the lock (watch_sync.go:106-111).
LEMMA AppendAccount ==
    ASSUME IInv, AllAccounted, NEW w \in Watched, AppendEvent(w) PROVE AllAccounted'
<1> DEFINE a == answered[w]
           b == events[w]
           h == hand[w]
<1>0. TypeOK /\ w \in Notifiers
  BY DEF IInv, Notifiers
<1>1. /\ h # <<>> /\ hand'[w] = Tail(h) /\ events'[w] = Append(b, Head(h))
      /\ UNCHANGED <<happened, answered, queue>>
      /\ \A y \in Notifiers \ {w} : hand'[y] = hand[y]
      /\ \A y \in Watched \ {w} : events'[y] = events[y]
  BY <1>0 DEF AppendEvent, notifyVars, TypeOK
<1>2. a \in Seq(1..MaxOps) /\ b \in Seq(1..MaxOps) /\ h \in Seq(1..MaxOps)
  BY <1>0 DEF TypeOK, Ops
<1>3. /\ Whole(w) = Cat(Cat(Cat(a, b), h), FlattenSeq(queue[w]))
      /\ Whole(w)' = Cat(Cat(Cat(a, Append(b, Head(h))), Tail(h)), FlattenSeq(queue[w]))
  BY <1>1 DEF Whole, Buffered
<1> HIDE DEF a, b, h
<1>4. Cat(Cat(a, Append(b, Head(h))), Tail(h)) = Cat(Cat(a, b), h)
  BY <1>1, <1>2, Moved
<1>5. Accounted(w)'
  BY <1>0, <1>1, <1>3, <1>4 DEF AllAccounted, Accounted
<1>6. \A y \in Notifiers \ {w} : Same(y)
  BY <1>1 DEF Same, Buffered
<1>7. QED
  BY <1>0, <1>5, <1>6, OneAccount

\* One operation is sent to the client (watch.go:142).
LEMMA SendAccount ==
    ASSUME IInv, AllAccounted, NEW s \in Streams, SendEvent(s) PROVE AllAccounted'
<1> DEFINE b == answered[s]
           h == hand[s]
<1>0. TypeOK /\ s \in Notifiers /\ s \notin Watched
  BY SetsAssumption DEF IInv, Notifiers
<1>1. /\ h # <<>> /\ hand'[s] = Tail(h) /\ answered'[s] = Append(b, Head(h))
      /\ UNCHANGED <<happened, events, queue>>
      /\ \A y \in Notifiers \ {s} : hand'[y] = hand[y] /\ answered'[y] = answered[y]
  BY <1>0 DEF SendEvent, notifyVars, TypeOK
<1>2. b \in Seq(1..MaxOps) /\ h \in Seq(1..MaxOps)
  BY <1>0 DEF TypeOK, Ops
<1>3. /\ Whole(s) = Cat(Cat(Cat(b, <<>>), h), FlattenSeq(queue[s]))
      /\ Whole(s)' = Cat(Cat(Cat(Append(b, Head(h)), <<>>), Tail(h)), FlattenSeq(queue[s]))
  BY <1>0, <1>1 DEF Whole, Buffered
<1> HIDE DEF b, h
<1>4. Cat(Cat(Append(b, Head(h)), <<>>), Tail(h)) = Cat(Cat(b, <<>>), h)
  <2>1. Head(h) \in 1..MaxOps
    BY <1>1, <1>2, HeadFirst
  <2>2. Append(b, Head(h)) \in Seq(1..MaxOps)
    BY <1>2, <2>1
  <2>3. Cat(Append(b, Head(h)), <<>>) = Append(b, Head(h)) /\ Cat(b, <<>>) = b
    BY <1>2, <2>2, CatEmpty
  <2>4. Cat(Append(b, Head(h)), Tail(h)) = Cat(b, h)
    BY <1>1, <1>2, Moved
  <2>5. QED
    BY <2>3, <2>4
<1>5. Accounted(s)'
  BY <1>0, <1>1, <1>3, <1>4 DEF AllAccounted, Accounted
<1>6. \A y \in Notifiers \ {s} : Same(y)
  BY <1>1 DEF Same, Buffered
<1>7. QED
  BY <1>0, <1>5, <1>6, OneAccount

\* A poll takes the whole buffer under the lock (watch_sync.go:202-205).
LEMMA PollAccount ==
    ASSUME IInv, AllAccounted, NEW p \in Polls, PollTake(p) PROVE AllAccounted'
<1> PICK w \in Watched : poll[p].w = w
  BY DEF PollTake, IInv, TypeOK
<1> DEFINE a == answered[w]
           b == events[w]
<1>0. TypeOK /\ w \in Notifiers
  BY DEF IInv, Notifiers
<1>1. /\ answered'[w] = a \o b /\ events'[w] = <<>> /\ UNCHANGED <<happened, hand, queue>>
      /\ \A y \in Notifiers \ {w} : answered'[y] = answered[y]
      /\ \A y \in Watched \ {w} : events'[y] = events[y]
  BY <1>0 DEF PollTake, notifyVars, TypeOK
<1>2. a \in Seq(1..MaxOps) /\ b \in Seq(1..MaxOps)
  BY <1>0 DEF TypeOK, Ops
<1>3. Whole(w) = Cat(Cat(Cat(a, b), hand[w]), FlattenSeq(queue[w]))
  BY <1>0 DEF Whole, Buffered
<1>4. Whole(w)' = Cat(Cat(Cat(Cat(a, b), <<>>), hand[w]), FlattenSeq(queue[w]))
  <2>1. a \o b = Cat(a, b)
    BY DEF Cat
  <2> HIDE DEF a, b
  <2>2. QED
    BY <1>0, <1>1, <2>1 DEF Whole, Buffered
<1> HIDE DEF a, b
<1>5. Cat(Cat(a, b), <<>>) = Cat(a, b)
  BY <1>2, CatIsSeq, CatEmpty
<1>6. Accounted(w)'
  BY <1>0, <1>1, <1>3, <1>4, <1>5 DEF AllAccounted, Accounted
<1>7. \A y \in Notifiers \ {w} : Same(y)
  BY <1>1 DEF Same, Buffered
<1>8. QED
  BY <1>0, <1>6, <1>7, OneAccount

\* One step per action; those not named above move nothing.
LEMMA StepAccount == ASSUME IInv, AllAccounted, [Next]_vars PROVE AllAccounted'
<1>1. CASE UNCHANGED vars
  BY <1>1, QuietAccount DEF vars, notifyVars
<1>2. ASSUME NEW w \in Watched,
             CreateFileWatcher(w) \/ Store(w) \/ LoopCancelled(w) \/ LoopClosed(w) \/ LoopError(w)
      PROVE  AllAccounted'
  BY <1>2, QuietAccount
     DEF CreateFileWatcher, Store, LoopCancelled, LoopClosed, LoopError, LoopFails, notifyVars
<1>3. ASSUME NEW s \in Streams,
             WatchDir(s) \/ ClientLeaves(s) \/ StreamEnds(s) \/ StreamError(s)
      PROVE  AllAccounted'
  BY <1>3, QuietAccount DEF WatchDir, ClientLeaves, StreamEnds, StreamError, Return, notifyVars
<1>4. ASSUME NEW p \in Polls, (\E w \in Watched : PollLoad(p, w)) \/ PollCheck(p)
      PROVE  AllAccounted'
  BY <1>4, QuietAccount DEF PollLoad, Load, PollCheck, notifyVars
<1>5. ASSUME NEW r \in Removals,
             (\E w \in Watched : RemoveLoad(r, w)) \/ Removing(r)
      PROVE  AllAccounted'
  BY <1>5, QuietAccount
     DEF RemoveLoad, Load, Removing, RemoveClose, RemoveCancel, RemoveDelete, notifyVars
<1>6. CASE Environment
  BY <1>2, <1>3, <1>4, <1>5, <1>6, HappensAccount DEF Environment
<1>7. ASSUME NEW w \in Watched, Goroutine(w) \/ Store(w) PROVE AllAccounted'
  BY <1>2, <1>7, TakeAccount, AppendAccount DEF Goroutine, Notifiers
<1>8. ASSUME NEW s \in Streams, StreamHandler(s) PROVE AllAccounted'
  BY <1>3, <1>8, TakeAccount, SendAccount DEF StreamHandler, Notifiers
<1>9. ASSUME NEW p \in Polls, Poll(p) PROVE AllAccounted'
  BY <1>4, <1>9, PollAccount DEF Poll
<1>10. QED
  BY <1>1, <1>5, <1>6, <1>7, <1>8, <1>9 DEF Next

\* However polls, removals and the goroutine overlap, what was returned and what is
\* still to come is what happened, in order, nothing twice and nothing left out, for
\* any number of watchers, events and operations (watch_sync.go:68-130, 190-210,
\* watch.go:97-156).
THEOREM NothingIsLost == Spec => []NothingLost
<1>1. Init => AllAccounted
  <2> SUFFICES ASSUME Init, NEW x \in Notifiers PROVE Accounted(x)
    BY DEF AllAccounted
  <2>1. /\ answered[x] = <<>> /\ Buffered(x) = <<>> /\ hand[x] = <<>>
        /\ queue[x] = <<>> /\ happened[x] = 0
    BY DEF Init, Buffered
  <2>2. Cat(<<>>, <<>>) = <<>>
    BY DEF Cat
  <2>3. Whole(x) = <<>>
    BY <2>1, <2>2, FlattenEmpty DEF Whole
  <2>4. QED
    BY <2>1, <2>3 DEF Accounted
<1>2. Spec => []AllAccounted
  BY <1>1, StepAccount, Inductive, PTL DEF Spec
<1>3. QED
  BY <1>2, AccountIsNothingLost, PTL
=============================================================================
