--------------------------- MODULE MultiplexProofs ---------------------------
(***************************************************************************)
(* Proofs about Multiplex, for any set of consumers, buffer capacity and  *)
(* number of values.                                                      *)
(***************************************************************************)
EXTENDS Multiplex, TLAPS

Attached == {"reading", "drained", "leaving"}

\* The slice holds exactly the attached consumers, each once.
Membership ==
    /\ \A i \in 1..len : array[i] \in Consumers /\ st[array[i]] \in Attached
    /\ \A i, j \in 1..len : array[i] = array[j] => i = j
    /\ \A c \in Consumers : st[c] \in Attached =>
          \E i \in 1..len : array[i] = c

\* A consumer that has not been added yet has received nothing.
Fresh ==
    \A c \in Consumers :
        st[c] \in {"idle", "checked"} => received[c] = <<>>

\* What the fan-out's position says of its other variables.
FanControl ==
    /\ pc \in {"rlock", "send"} => taken >= 1
    /\ pc = "send" => k <= len + 1
    /\ exited <=> pc \in ClosePcs \cup {"done"}
    /\ exited => srcClosed /\ taken = sent
    /\ closed # {} => exited
    /\ \A c \in Consumers : st[c] = "drained" => c \in closed

\* While nobody writes the slice, the closing loop sees it as it is and has
\* closed exactly the slots before its index.
CloseLoop ==
    ~overlap =>
        /\ pc \in {"gotArray", "closing"} => held = array
        /\ pc \in {"gotLen", "closing"} => heldLen = len
        /\ pc \in {"exited", "gotLen", "gotArray"} => closed = {}
        /\ pc = "closing" =>
              \A c \in closed : \E i \in 1..len : i < k /\ array[i] = c
        /\ ~panicked

IInv ==
    /\ TypeOK /\ Membership /\ Fresh /\ FanControl
    /\ Lockstep /\ InOrder /\ CloseLoop
-----------------------------------------------------------------------------
Slots == Consumers \cup {NoConsumer}

\* A function on 1..n is a sequence of length n.
LEMMA FcnIsSeq ==
    ASSUME NEW S, NEW n \in Nat, NEW f \in [1..n -> S]
    PROVE  f \in Seq(S) /\ Len(f) = n /\ DOMAIN f = 1..n
  OBVIOUS

\* Growing the backing array keeps its contents and leaves room for one more.
LEMMA GrownFacts ==
    ASSUME array \in Seq(Slots)
    PROVE  /\ Grown \in Seq(Slots)
           /\ Len(Grown) > Len(array)
           /\ \A i \in 1..Len(array) : Grown[i] = array[i]
<1> DEFINE n == IF array = <<>> THEN 1 ELSE 2 * Len(array)
<1>1. n \in Nat /\ n > Len(array)
  BY SMT
<1>2. Grown \in [1..n -> Slots]
  BY <1>1 DEF Grown, Slots
<1>3. QED
  BY <1>1, <1>2, FcnIsSeq DEF Grown

\* remove's shift keeps the length and moves the slots after i down by one.
LEMMA ShiftFacts ==
    ASSUME array \in Seq(Slots), len \in 0..Len(array), NEW i \in 1..len
    PROVE  /\ ShiftedAt(i) \in Seq(Slots)
           /\ Len(ShiftedAt(i)) = Len(array)
           /\ \A j \in 1..(len - 1) :
                 ShiftedAt(i)[j] = IF j < i THEN array[j] ELSE array[j + 1]
<1>1. ShiftedAt(i) \in [1..Len(array) -> Slots]
  BY DEF ShiftedAt, Slots
<1>2. QED
  BY <1>1, FcnIsSeq DEF ShiftedAt

-----------------------------------------------------------------------------
LEMMA InitIInv == ASSUME Init PROVE IInv
<1>1. TypeOK
  <2>1. CountersOK
    BY MaxSentAssumption DEF Init, CountersOK, FanPcs
  <2>2. FlagsOK
    BY DEF Init, FlagsOK
  <2>3. SliceOK
    BY DEF Init, SliceOK
  <2>4. ConsumersOK
    BY DEF Init, ConsumersOK, ConsStates
  <2>5. QED
    BY <2>1, <2>2, <2>3, <2>4 DEF TypeOK
<1>2. Membership /\ Fresh
  BY DEF Init, Membership, Fresh, Attached
<1>3. FanControl /\ CloseLoop
  BY DEF Init, FanControl, CloseLoop, ClosePcs
<1>4. Lockstep /\ InOrder
  BY DEF Init, Lockstep, InOrder
<1>5. QED
  BY <1>1, <1>2, <1>3, <1>4 DEF IInv
-----------------------------------------------------------------------------
(***************************************************************************)
(* IInv is preserved, one lemma per kind of step.                         *)
(***************************************************************************)
LEMMA SameSlice ==
    ASSUME IInv, UNCHANGED <<sliceVars, consVars>>
    PROVE  Membership' /\ Fresh' /\ InOrder'
  BY DEF IInv, Membership, Fresh, InOrder, sliceVars, consVars

LEMMA ProducerIInv == ASSUME IInv, ~panicked, Producer PROVE IInv'
<1> USE DEF IInv, TypeOK, srcVars, sliceVars, closeVars, loopVars, consVars
<1>1. CASE Send
  <2>1. CountersOK'
    BY <1>1, MaxSentAssumption DEF Send, CountersOK, FanPcs
  <2>2. FlagsOK'
    BY <1>1 DEF Send, FlagsOK
  <2>3. SliceOK' /\ ConsumersOK'
    BY <1>1 DEF Send, SliceOK, ConsumersOK
  <2>4. Membership' /\ Fresh' /\ InOrder'
    BY <1>1, SameSlice DEF Send
  <2>5. FanControl'
    BY <1>1 DEF Send, CountersOK, FanControl, ClosePcs
  <2>6. Lockstep'
    BY <1>1 DEF Send, CountersOK, Lockstep, Begun
  <2>7. CloseLoop'
    BY <1>1 DEF Send, CloseLoop
  <2>8. QED
    BY <2>1, <2>2, <2>3, <2>4, <2>5, <2>6, <2>7
<1>2. CASE SendUnbuffered
  <2>1. CountersOK'
    BY <1>2, MaxSentAssumption DEF SendUnbuffered, CountersOK, FanPcs
  <2>2. FlagsOK'
    BY <1>2 DEF SendUnbuffered, FlagsOK
  <2>3. SliceOK' /\ ConsumersOK'
    BY <1>2 DEF SendUnbuffered, SliceOK, ConsumersOK
  <2>4. Membership' /\ Fresh' /\ InOrder'
    BY <1>2, SameSlice DEF SendUnbuffered
  <2>5. FanControl'
    BY <1>2 DEF SendUnbuffered, CountersOK, FanControl, ClosePcs
  <2>6. Lockstep'
    BY <1>2 DEF SendUnbuffered, CountersOK, Lockstep, Begun
  <2>7. CloseLoop'
    BY <1>2 DEF SendUnbuffered, CloseLoop
  <2>8. QED
    BY <2>1, <2>2, <2>3, <2>4, <2>5, <2>6, <2>7
<1>3. CASE CloseSource
  <2>1. CountersOK'
    BY <1>3 DEF CloseSource, CountersOK, FanPcs
  <2>2. FlagsOK'
    BY <1>3 DEF CloseSource, FlagsOK
  <2>3. SliceOK' /\ ConsumersOK'
    BY <1>3 DEF CloseSource, SliceOK, ConsumersOK
  <2>4. Membership' /\ Fresh' /\ InOrder'
    BY <1>3, SameSlice DEF CloseSource
  <2>5. FanControl'
    BY <1>3 DEF CloseSource, CountersOK, FanControl, ClosePcs
  <2>6. Lockstep'
    BY <1>3 DEF CloseSource, CountersOK, Lockstep, Begun
  <2>7. CloseLoop'
    BY <1>3 DEF CloseSource, CloseLoop
  <2>8. QED
    BY <2>1, <2>2, <2>3, <2>4, <2>5, <2>6, <2>7
<1>4. QED
  BY <1>1, <1>2, <1>3 DEF Producer

LEMMA FanOutIInv == ASSUME IInv, ~panicked, FanOut PROVE IInv'
<1> USE DEF IInv, TypeOK, srcVars, sliceVars, closeVars, loopVars, consVars
<1>1. CASE Take
  <2>1. CountersOK'
    BY <1>1 DEF Take, CountersOK, FanPcs
  <2>2. FlagsOK'
    BY <1>1 DEF Take, FlagsOK
  <2>3. SliceOK' /\ ConsumersOK'
    BY <1>1 DEF Take, SliceOK, ConsumersOK
  <2>4. Membership' /\ Fresh' /\ InOrder'
    BY <1>1, SameSlice DEF Take
  <2>5. FanControl'
    BY <1>1 DEF Take, CountersOK, FanControl, ClosePcs
  <2>6. Lockstep'
    BY <1>1 DEF Take, CountersOK, Lockstep, Begun
  <2>7. CloseLoop'
    BY <1>1 DEF Take, CloseLoop
  <2>8. QED
    BY <2>1, <2>2, <2>3, <2>4, <2>5, <2>6, <2>7
<1>2. CASE RLock
  <2>1. CountersOK'
    BY <1>2 DEF RLock, CountersOK, FanPcs
  <2>2. FlagsOK'
    BY <1>2 DEF RLock, FlagsOK
  <2>3. SliceOK' /\ ConsumersOK'
    BY <1>2 DEF RLock, SliceOK, ConsumersOK
  <2>4. Membership' /\ Fresh' /\ InOrder'
    BY <1>2, SameSlice DEF RLock
  <2>5. FanControl'
    BY <1>2 DEF RLock, CountersOK, SliceOK, FanControl, ClosePcs
  <2>6. Lockstep'
    BY <1>2 DEF RLock, CountersOK, Lockstep, Begun
  <2>7. CloseLoop'
    BY <1>2 DEF RLock, CloseLoop
  <2>8. QED
    BY <2>1, <2>2, <2>3, <2>4, <2>5, <2>6, <2>7
<1>3. CASE RUnlock
  <2>1. CountersOK'
    BY <1>3 DEF RUnlock, CountersOK, FanPcs
  <2>2. FlagsOK'
    BY <1>3 DEF RUnlock, FlagsOK
  <2>3. SliceOK' /\ ConsumersOK'
    BY <1>3 DEF RUnlock, SliceOK, ConsumersOK
  <2>4. Membership' /\ Fresh' /\ InOrder'
    BY <1>3, SameSlice DEF RUnlock
  <2>5. FanControl'
    BY <1>3 DEF RUnlock, CountersOK, FanControl, ClosePcs
  <2>6. Lockstep'
    BY <1>3 DEF RUnlock, CountersOK, SliceOK, Lockstep, Begun
  <2>7. CloseLoop'
    BY <1>3 DEF RUnlock, CloseLoop
  <2>8. QED
    BY <2>1, <2>2, <2>3, <2>4, <2>5, <2>6, <2>7
<1>4. CASE Exit
  <2>1. CountersOK'
    BY <1>4 DEF Exit, CountersOK, FanPcs
  <2>2. FlagsOK'
    BY <1>4 DEF Exit, FlagsOK
  <2>3. SliceOK' /\ ConsumersOK'
    BY <1>4 DEF Exit, SliceOK, ConsumersOK
  <2>4. Membership' /\ Fresh' /\ InOrder'
    BY <1>4, SameSlice DEF Exit
  <2>5. FanControl'
    BY <1>4 DEF Exit, CountersOK, FanControl, ClosePcs
  <2>6. Lockstep'
    BY <1>4 DEF Exit, CountersOK, Lockstep, Begun
  <2>7. CloseLoop'
    BY <1>4 DEF Exit, CloseLoop, FanControl, ClosePcs
  <2>8. QED
    BY <2>1, <2>2, <2>3, <2>4, <2>5, <2>6, <2>7
<1>5. CASE LoadLen
  <2>1. CountersOK'
    BY <1>5 DEF LoadLen, CountersOK, FanPcs
  <2>2. FlagsOK'
    BY <1>5 DEF LoadLen, FlagsOK
  <2>3. SliceOK' /\ ConsumersOK'
    BY <1>5 DEF LoadLen, SliceOK, ConsumersOK
  <2>4. Membership' /\ Fresh' /\ InOrder'
    BY <1>5, SameSlice DEF LoadLen
  <2>5. FanControl'
    BY <1>5 DEF LoadLen, CountersOK, FanControl, ClosePcs
  <2>6. Lockstep'
    BY <1>5 DEF LoadLen, CountersOK, Lockstep, Begun
  <2>7. CloseLoop'
    BY <1>5 DEF LoadLen, CloseLoop
  <2>8. QED
    BY <2>1, <2>2, <2>3, <2>4, <2>5, <2>6, <2>7
<1>6. CASE LoadArray
  <2>1. CountersOK'
    BY <1>6 DEF LoadArray, CountersOK, FanPcs
  <2>2. FlagsOK'
    BY <1>6 DEF LoadArray, FlagsOK
  <2>3. SliceOK' /\ ConsumersOK'
    BY <1>6 DEF LoadArray, SliceOK, ConsumersOK
  <2>4. Membership' /\ Fresh' /\ InOrder'
    BY <1>6, SameSlice DEF LoadArray
  <2>5. FanControl'
    BY <1>6 DEF LoadArray, CountersOK, FanControl, ClosePcs
  <2>6. Lockstep'
    BY <1>6 DEF LoadArray, CountersOK, Lockstep, Begun
  <2>7. CloseLoop'
    BY <1>6 DEF LoadArray, CloseLoop
  <2>8. QED
    BY <2>1, <2>2, <2>3, <2>4, <2>5, <2>6, <2>7
<1>7. CASE CloseNext
  <2>1. CountersOK'
    BY <1>7 DEF CloseNext, CountersOK, FanPcs
  <2>2. FlagsOK'
    <3>1. CASE k <= Len(held) /\ held[k] \notin closed \cup {NoConsumer}
      <4>1. held[k] \in Consumers
        BY <1>7, <3>1 DEF SliceOK, CountersOK
      <4>2. QED
        BY <1>7, <3>1, <4>1 DEF CloseNext, FlagsOK
    <3>2. CASE ~(k <= Len(held) /\ held[k] \notin closed \cup {NoConsumer})
      BY <1>7, <3>2 DEF CloseNext, FlagsOK
    <3>3. QED
      BY <3>1, <3>2
  <2>3. SliceOK' /\ ConsumersOK'
    BY <1>7 DEF CloseNext, SliceOK, ConsumersOK
  <2>4. Membership' /\ Fresh' /\ InOrder'
    BY <1>7, SameSlice DEF CloseNext
  <2>5. FanControl'
    BY <1>7 DEF CloseNext, CountersOK, FanControl, ClosePcs
  <2>6. Lockstep'
    BY <1>7 DEF CloseNext, CountersOK, Lockstep, Begun
  <2>7. CloseLoop'
    <3> SUFFICES ASSUME ~overlap PROVE CloseLoop'
      BY <1>7 DEF CloseNext, CloseLoop
    <3>1. held = array /\ heldLen = len
      BY <1>7 DEF CloseNext, CloseLoop
    <3>2. k \in 1..len /\ k <= Len(held)
      BY <1>7, <3>1 DEF CloseNext, SliceOK, CountersOK
    <3>3. held[k] \in Consumers
      BY <3>1, <3>2 DEF Membership
    <3>4. held[k] \notin closed
      BY <1>7, <3>1, <3>2, <3>3 DEF CloseNext, CloseLoop, Membership, SliceOK
    <3>5. closed' = closed \cup {array[k]} /\ panicked' = panicked
      BY <1>7, <3>1, <3>2, <3>3, <3>4, ConsumersAssumption DEF CloseNext
    <3>6. QED
      BY <1>7, <3>1, <3>2, <3>5 DEF CloseNext, CloseLoop, CountersOK, SliceOK
  <2>8. QED
    BY <2>1, <2>2, <2>3, <2>4, <2>5, <2>6, <2>7
<1>8. CASE CloseDone
  <2>1. CountersOK'
    BY <1>8 DEF CloseDone, CountersOK, FanPcs
  <2>2. FlagsOK'
    BY <1>8 DEF CloseDone, FlagsOK
  <2>3. SliceOK' /\ ConsumersOK'
    BY <1>8 DEF CloseDone, SliceOK, ConsumersOK
  <2>4. Membership' /\ Fresh' /\ InOrder'
    BY <1>8, SameSlice DEF CloseDone
  <2>5. FanControl'
    BY <1>8 DEF CloseDone, CountersOK, FanControl, ClosePcs
  <2>6. Lockstep'
    BY <1>8 DEF CloseDone, CountersOK, Lockstep, Begun
  <2>7. CloseLoop'
    BY <1>8 DEF CloseDone, CloseLoop
  <2>8. QED
    BY <2>1, <2>2, <2>3, <2>4, <2>5, <2>6, <2>7
<1>9. QED
  BY <1>1, <1>2, <1>3, <1>4, <1>5, <1>6, <1>7, <1>8 DEF FanOut

LEMMA ConsumerIInv ==
    ASSUME IInv, ~panicked, NEW c \in Consumers, Consumer(c)
    PROVE  IInv'
<1> USE DEF IInv, TypeOK, srcVars, sliceVars, closeVars, loopVars, consVars
<1>1. CASE ForkCheck(c)
  <2>1. CountersOK' /\ FlagsOK' /\ SliceOK'
    BY <1>1 DEF ForkCheck, CountersOK, FlagsOK, SliceOK
  <2>2. ConsumersOK'
    BY <1>1 DEF ForkCheck, ConsumersOK, ConsStates
  <2>3. Membership' /\ Fresh' /\ InOrder'
    BY <1>1 DEF ForkCheck, ConsumersOK, Membership, Attached, Fresh, InOrder
  <2>4. FanControl' /\ CloseLoop'
    BY <1>1 DEF ForkCheck, ConsumersOK, FanControl, CloseLoop
  <2>5. Lockstep'
    BY <1>1 DEF ForkCheck, Lockstep, Begun
  <2>6. QED
    BY <2>1, <2>2, <2>3, <2>4, <2>5
<1>2. CASE ForkAppend(c)
  <2>1. /\ array' \in Seq(Slots) /\ len' = len + 1 /\ len' \in 1..Len(array')
        /\ array'[len + 1] = c
        /\ \A i \in 1..len : array'[i] = array[i]
    <3>1. CASE len < Len(array)
      BY <1>2, <3>1 DEF ForkAppend, SliceOK, Slots
    <3>2. CASE ~(len < Len(array))
      BY <1>2, <3>2, GrownFacts DEF ForkAppend, SliceOK, Slots
    <3>3. QED
      BY <3>1, <3>2
  <2>2. CountersOK' /\ FlagsOK'
    BY <1>2 DEF ForkAppend, CountersOK, FlagsOK
  <2>3. SliceOK'
    <3>1. held' \in {array', held} /\ heldLen' = heldLen
      BY <1>2 DEF ForkAppend
    <3>2. QED
      BY <2>1, <3>1 DEF SliceOK, Slots
  <2>4. ConsumersOK'
    BY <1>2 DEF ForkAppend, ConsumersOK, CountersOK, FanControl, ConsStates
  <2>5. \A i \in 1..len : array[i] # c
    BY <1>2 DEF ForkAppend, Membership, Attached
  <2>6. Membership'
    <3>1. st' = [st EXCEPT ![c] = "reading"]
      BY <1>2 DEF ForkAppend
    <3>2. \A i \in 1..len' : i \in 1..len \/ i = len + 1
      BY <2>1 DEF SliceOK
    <3>3. \A i \in 1..len' :
             array'[i] \in Consumers /\ st'[array'[i]] \in Attached
      BY <2>1, <2>5, <3>1, <3>2 DEF ConsumersOK, Membership, Attached
    <3>4. \A i, j \in 1..len' : array'[i] = array'[j] => i = j
      BY <2>1, <2>5, <3>2 DEF Membership
    <3>5. ASSUME NEW d \in Consumers, st'[d] \in Attached
          PROVE  \E i \in 1..len' : array'[i] = d
      <4>1. CASE d = c
        BY <2>1, <4>1 DEF SliceOK
      <4>2. CASE d # c
        <5>1. PICK i \in 1..len : array[i] = d
          BY <3>1, <3>5, <4>2 DEF ConsumersOK, Membership
        <5>2. i \in 1..len'
          BY <2>1 DEF SliceOK
        <5>3. QED
          BY <2>1, <5>1, <5>2
      <4>3. QED
        BY <4>1, <4>2
    <3>6. QED
      BY <3>3, <3>4, <3>5 DEF Membership
  <2>7. Fresh' /\ InOrder'
    BY <1>2 DEF ForkAppend, ConsumersOK, Fresh, InOrder
  <2>8. FanControl'
    BY <1>2 DEF ForkAppend, ConsumersOK, FanControl, LockFree
  <2>9. Lockstep'
    <3>1. received[c] = <<>> /\ from'[c] = Begun /\ pc # "send"
      BY <1>2 DEF ForkAppend, Fresh, LockFree, ConsumersOK, Begun
    <3>2. \A i \in 1..len : from'[array[i]] = from[array[i]]
      BY <1>2, <2>5 DEF ForkAppend, ConsumersOK
    <3>3. pc' = pc /\ Begun' = Begun /\ received' = received
      BY <1>2 DEF ForkAppend, Begun, srcVars
    <3>4. \A i \in 1..len' : i \in 1..len \/ i = len + 1
      BY <2>1 DEF SliceOK
    <3>5. \A i \in 1..len' :
             from'[array'[i]] + Len(received'[array'[i]]) = Begun'
      <4>1. Begun \in Nat
        BY DEF Begun, CountersOK, FanControl
      <4>2. \A i \in 1..len :
               from'[array'[i]] + Len(received'[array'[i]]) = Begun'
        BY <2>1, <3>1, <3>2, <3>3 DEF Lockstep
      <4>3. from'[array'[len + 1]] + Len(received'[array'[len + 1]]) = Begun'
        BY <2>1, <3>1, <3>3, <4>1
      <4>4. QED
        BY <3>4, <4>2, <4>3
    <3>6. QED
      BY <3>1, <3>3, <3>5 DEF Lockstep
  <2>10. CloseLoop'
    BY <1>2 DEF ForkAppend, CloseLoop, ClosePcs
  <2>11. QED
    BY <2>2, <2>3, <2>4, <2>6, <2>7, <2>8, <2>9, <2>10
<1>3. CASE Deliver(c)
  <2>1. CountersOK' /\ FlagsOK' /\ SliceOK'
    BY <1>3 DEF Deliver, CountersOK, FlagsOK, SliceOK
  <2>2. ConsumersOK'
    BY <1>3 DEF Deliver, ConsumersOK, CountersOK
  <2>3. Membership' /\ Fresh'
    BY <1>3 DEF Deliver, ConsumersOK, Membership, Fresh
  <2>4. k \in 1..len /\ from[c] + Len(received[c]) = taken - 1
    BY <1>3 DEF Deliver, Lockstep, CountersOK, SliceOK
  <2>5. InOrder'
    BY <1>3, <2>4 DEF Deliver, InOrder, ConsumersOK, CountersOK
  <2>6. FanControl' /\ CloseLoop'
    BY <1>3 DEF Deliver, FanControl, CloseLoop, CountersOK, SliceOK
  <2>7. Lockstep'
    <3>1. \A i \in 1..len : i # k => array[i] # c
      BY <1>3, <2>4 DEF Deliver, Membership
    <3>2. /\ received' = [received EXCEPT ![c] = Append(@, taken)]
          /\ k' = k + 1 /\ pc = "send" /\ array[k] = c
          /\ UNCHANGED <<pc, taken, array, len, from>>
      BY <1>3 DEF Deliver
    <3>3. Len(received'[c]) = Len(received[c]) + 1 /\ from[c] \in Nat
          /\ Len(received[c]) \in Nat
      BY <3>2 DEF ConsumersOK
    <3>4. ASSUME NEW i \in 1..len
          PROVE  from[array[i]] + Len(received'[array[i]]) =
                     IF i >= k' THEN taken - 1 ELSE taken
      <4>1. CASE i = k
        BY <2>4, <3>2, <3>3, <4>1 DEF CountersOK
      <4>2. CASE i # k
        <5>1. received'[array[i]] = received[array[i]]
          BY <3>1, <3>2, <4>2 DEF ConsumersOK, Membership
        <5>2. QED
          <6>1. from[array[i]] + Len(received[array[i]]) =
                    IF i >= k THEN taken - 1 ELSE taken
            BY <3>2 DEF Lockstep, Begun
          <6>2. (i >= k') <=> (i >= k)
            BY <3>2, <4>2 DEF CountersOK, SliceOK
          <6>3. QED
            BY <5>1, <6>1, <6>2
      <4>3. QED
        BY <4>1, <4>2
    <3>5. QED
      BY <3>2, <3>4 DEF Lockstep, Begun
  <2>8. QED
    BY <2>1, <2>2, <2>3, <2>5, <2>6, <2>7
<1>4. CASE SeeClosed(c) \/ Leave(c)
  <2>1. PICK s \in {"drained", "leaving"} :
           /\ st[c] = "reading" /\ st' = [st EXCEPT ![c] = s]
           /\ s = "drained" => c \in closed
           /\ UNCHANGED <<srcVars, sliceVars, closeVars, pc, k, loopVars,
                          from, received, overlap>>
    BY <1>4 DEF SeeClosed, Leave
  <2>2. CountersOK' /\ FlagsOK' /\ SliceOK' /\ CloseLoop'
    BY <2>1 DEF CountersOK, FlagsOK, SliceOK, CloseLoop
  <2>3. ConsumersOK'
    BY <2>1 DEF ConsumersOK, ConsStates
  <2>4. \A d \in Consumers :
           /\ st'[d] \in Attached <=> st[d] \in Attached
           /\ st'[d] \in {"idle", "checked"} => st[d] \in {"idle", "checked"}
           /\ st'[d] = "drained" => d \in closed
    BY <2>1 DEF ConsumersOK, Attached, FanControl
  <2>5. Membership'
    BY <2>1, <2>4 DEF Membership
  <2>6. Fresh' /\ InOrder'
    BY <2>1, <2>4 DEF Fresh, InOrder
  <2>7. FanControl'
    BY <2>1, <2>4 DEF FanControl
  <2>8. Lockstep'
    BY <2>1 DEF Lockstep, Begun
  <2>9. QED
    BY <2>2, <2>3, <2>5, <2>6, <2>7, <2>8
<1>5. CASE Remove(c)
  <2>1. PICK i \in 1..len : array[i] = c /\ array' = ShiftedAt(i)
    BY <1>5 DEF Remove
  <2>2. /\ array' \in Seq(Slots) /\ Len(array') = Len(array)
        /\ len' = len - 1
        /\ \A j \in 1..len' :
              array'[j] = IF j < i THEN array[j] ELSE array[j + 1]
    BY <1>5, <2>1, ShiftFacts DEF Remove, SliceOK, Slots
  <2>3. CountersOK' /\ FlagsOK'
    BY <1>5 DEF Remove, CountersOK, FlagsOK
  <2>4. SliceOK'
    BY <1>5, <2>2 DEF Remove, SliceOK, Slots
  <2>5. ConsumersOK'
    BY <1>5 DEF Remove, ConsumersOK, ConsStates
  <2>6. \A j \in 1..len' : array'[j] # c
    BY <2>1, <2>2 DEF Membership, SliceOK
  <2>7. Membership'
    <3>1. \A j \in 1..len' :
             array'[j] \in Consumers /\ st'[array'[j]] \in Attached
      <4>1. ASSUME NEW j \in 1..len'
            PROVE  array'[j] \in Consumers /\ st[array'[j]] \in Attached
        BY <2>2 DEF Membership, SliceOK
      <4>2. st' = [st EXCEPT ![c] = "gone"]
        BY <1>5 DEF Remove
      <4>3. QED
        BY <2>6, <4>1, <4>2 DEF ConsumersOK
    <3>2. ASSUME NEW j \in 1..len', NEW l \in 1..len', array'[j] = array'[l]
          PROVE  j = l
      <4> DEFINE At(n) == IF n < i THEN n ELSE n + 1
      <4>1. At(j) \in 1..len /\ At(l) \in 1..len
        BY <2>1, <2>2 DEF SliceOK
      <4>2. array[At(j)] = array[At(l)]
        BY <2>2, <3>2
      <4>3. At(j) = At(l)
        BY <4>1, <4>2 DEF Membership
      <4>4. QED
        BY <2>1, <2>2, <4>3 DEF SliceOK
    <3>3. ASSUME NEW d \in Consumers, st'[d] \in Attached
          PROVE  \E j \in 1..len' : array'[j] = d
      <4>1. d # c /\ st[d] \in Attached
        BY <1>5, <3>3 DEF Remove, ConsumersOK, Attached
      <4>2. PICK l \in 1..len : array[l] = d
        BY <4>1 DEF Membership
      <4>3. CASE l < i
        BY <2>1, <2>2, <4>2, <4>3 DEF SliceOK
      <4>4. CASE l > i
        <5>1. l - 1 \in 1..len' /\ array'[l - 1] = array[l]
          BY <2>1, <2>2, <4>2, <4>4 DEF SliceOK
        <5>2. QED
          BY <4>2, <5>1
      <4>5. QED
        BY <2>1, <4>1, <4>2, <4>3, <4>4 DEF SliceOK
    <3>4. QED
      BY <3>1, <3>2, <3>3 DEF Membership
  <2>8. Fresh' /\ InOrder'
    BY <1>5 DEF Remove, ConsumersOK, Fresh, InOrder
  <2>9. FanControl'
    BY <1>5 DEF Remove, ConsumersOK, FanControl, LockFree
  <2>10. Lockstep'
    <3>1. pc # "send" /\ UNCHANGED <<pc, taken, from, received>>
      BY <1>5 DEF Remove, LockFree
    <3>2. \A j \in 1..len' :
             from[array'[j]] + Len(received[array'[j]]) = Begun
      BY <2>2, <3>1 DEF Lockstep, SliceOK
    <3>3. QED
      BY <3>1, <3>2 DEF Lockstep, Begun
  <2>11. CloseLoop'
    BY <1>5 DEF Remove, CloseLoop, ClosePcs
  <2>12. QED
    BY <2>3, <2>4, <2>5, <2>7, <2>8, <2>9, <2>10, <2>11
<1>6. QED
  BY <1>1, <1>2, <1>3, <1>4, <1>5 DEF Consumer

LEMMA NextIInv == ASSUME IInv, [Next]_vars PROVE IInv'
<1>1. CASE Next
  BY <1>1, ProducerIInv, FanOutIInv, ConsumerIInv DEF Next
<1>2. CASE UNCHANGED vars
  <2> USE <1>2 DEF vars, srcVars, sliceVars, closeVars, loopVars, consVars
  <2>1. TypeOK'
    BY DEF IInv, TypeOK, CountersOK, FlagsOK, SliceOK, ConsumersOK
  <2>2. Membership' /\ Fresh' /\ InOrder'
    BY SameSlice
  <2>3. FanControl' /\ Lockstep' /\ CloseLoop'
    BY DEF IInv, FanControl, Lockstep, Begun, CloseLoop
  <2>4. QED
    BY <2>1, <2>2, <2>3 DEF IInv
<1>3. QED
  BY <1>1, <1>2

\* The inductive invariant holds of every behaviour.
THEOREM Invariance == Spec => []IInv
<1>1. Init => IInv
  BY InitIInv
<1>2. IInv /\ [Next]_vars => IInv'
  BY NextIInv
<1>3. QED
  BY <1>1, <1>2, PTL DEF Spec
-----------------------------------------------------------------------------
\* Every variable of the channel keeps its type (multiplex.go:8-13).
THEOREM TypeCorrect == Spec => []TypeOK
  BY Invariance, PTL DEF IInv

\* Every consumer receives an unbroken, ordered run of what was sent on Source
\* since its Fork, for any number of consumers (multiplex.go:22-30).
THEOREM Ordered == Spec => []InOrder
  BY Invariance, PTL DEF IInv

\* The consumers in the slice advance together, value by value.
THEOREM InLockstep == Spec => []Lockstep
  BY Invariance, PTL DEF IInv

\* A closed channel had everything sent on Source since its Fork.
LEMMA ClosedHasAll ==
    ASSUME IInv, NEW c \in Consumers, st[c] \in Attached, c \in closed
    PROVE  srcClosed /\ from[c] + Len(received[c]) = sent
<1>1. exited /\ pc \notin {"rlock", "send"} /\ taken = sent /\ srcClosed
  BY DEF IInv, FanControl, ClosePcs
<1>2. PICK i \in 1..len : array[i] = c
  BY DEF IInv, Membership
<1>3. QED
  BY <1>1, <1>2 DEF IInv, Lockstep, Begun

\* A consumer that finds its channel closed has missed nothing
\* (multiplex.go:32-36).
THEOREM Complete == Spec => []DrainedHasAll
<1>1. IInv => DrainedHasAll
  BY ClosedHasAll DEF IInv, FanControl, Attached, DrainedHasAll
<1>2. QED
  BY <1>1, Invariance, PTL

\* The unlocked closing loop panics only if a Fork or a remove writes the slice
\* while it runs (multiplex.go:34-36).
THEOREM PanicOnlyByOverlap == Spec => []PanicNeedsOverlap
<1>1. IInv => PanicNeedsOverlap
  BY DEF IInv, CloseLoop, PanicNeedsOverlap
<1>2. QED
  BY <1>1, Invariance, PTL

\* A fan-out that sends to a consumer that has stopped reading goes on doing so.
LEMMA WedgedStays == ASSUME IInv, [Next]_vars, Wedged PROVE Wedged'
<1> DEFINE c == array[k]
<1>1. c \in Consumers /\ st[c] = "leaving" /\ pc = "send" /\ k <= len
  BY DEF Wedged, IInv, Membership, TypeOK, CountersOK, SliceOK
<1> USE DEF srcVars, sliceVars, closeVars, loopVars, consVars
<1>2. CASE Producer \/ FanOut
  BY <1>1, <1>2 DEF Wedged, Producer, Send, SendUnbuffered,
        CloseSource, FanOut, Take, RLock, RUnlock, Exit, LoadLen, LoadArray,
        CloseNext, CloseDone, IInv, TypeOK, CountersOK, SliceOK
<1>3. CASE \E d \in Consumers : Consumer(d)
  <2>1. PICK d \in Consumers : Consumer(d)
    BY <1>3
  <2>2. CASE ForkCheck(d) \/ SeeClosed(d) \/ Leave(d)
    <3>1. d # c
      BY <1>1, <2>2 DEF ForkCheck, SeeClosed, Leave
    <3>2. /\ UNCHANGED <<array, len, pc, k>>
          /\ \E s : st' = [st EXCEPT ![d] = s]
      BY <2>2 DEF ForkCheck, SeeClosed, Leave
    <3>3. st'[array[k]] = "leaving" /\ array' = array /\ k' = k
      BY <1>1, <3>1, <3>2 DEF IInv, TypeOK, ConsumersOK
    <3>4. pc' = "send" /\ k' <= len'
      BY <1>1, <3>2
    <3>5. QED
      BY <3>3, <3>4 DEF Wedged
  <2>3. CASE Deliver(d)
    BY <1>1, <2>3 DEF Deliver
  <2>4. CASE ForkAppend(d) \/ Remove(d)
    BY <1>1, <2>4 DEF ForkAppend, Remove, LockFree
  <2>5. QED
    BY <2>1, <2>2, <2>3, <2>4 DEF Consumer
<1>4. CASE UNCHANGED vars
  BY <1>4 DEF Wedged, vars
<1>5. QED
  BY <1>2, <1>3, <1>4 DEF Next

\* Once the fan-out sends to a consumer that has stopped reading, with mu held,
\* no step of any goroutine frees it again (multiplex.go:26, 63).
THEOREM WedgePermanent == Spec => WedgeIsForever
<1>1. IInv /\ [Next]_vars => [Wedged => Wedged']_vars
  BY WedgedStays
<1>2. QED
  BY <1>1, Invariance, PTL DEF Spec, WedgeIsForever
=============================================================================
