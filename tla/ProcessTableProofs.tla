-------------------------- MODULE ProcessTableProofs --------------------------
(***************************************************************************)
(* Proofs about ProcessTable, for any handlers, pids, tags and requests.  *)
(***************************************************************************)
EXTENDS ProcessTable, TLAPS

Live(h) == proc[h] \in {"running", "zombie"}

\* How far a launch has got determines whether it has a process, and only a
\* served launch has a waiter, which has reaped the process once it has ended.
Progress ==
    \A h \in Handlers :
        /\ launch[h] \in {"started", "stored", "served"} <=> pid[h] \in Pids
        /\ launch[h] \in {"started", "stored", "served"} <=> proc[h] # "none"
        /\ waiter[h] # "none" => launch[h] = "served"
        /\ waiter[h] \in {"ended", "done"} <=> proc[h] = "reaped"

\* The kernel gives a pid to one unreaped process at a time.
OneOwner ==
    \A g, h \in Handlers : Live(g) /\ Live(h) /\ pid[g] = pid[h] => g = h

\* An entry leads to a handler with that pid that has been stored and whose
\* Delete is still to come.
EntryOwner ==
    \A p \in Pids : processes[p] \in Handlers =>
        /\ pid[processes[p]] = p
        /\ launch[processes[p]] \in {"stored", "served"}
        /\ waiter[processes[p]] # "done"

Resolved == \A r \in Requests : req[r].pc = "found" => req[r].h \in Handlers

IInv ==
    /\ TypeOK /\ Progress /\ OneOwner /\ EntryOwner
    /\ ListedUnlessReused /\ Resolved
-----------------------------------------------------------------------------
LEMMA InitIInv == ASSUME Init PROVE IInv
<1> USE HandlersAssumption, PidsAssumption DEF Init
<1>1. TypeOK
  BY DEF TypeOK, NoRequest
<1>2. Progress /\ OneOwner /\ EntryOwner
  BY DEF Progress, OneOwner, EntryOwner, Live
<1>3. ListedUnlessReused /\ Resolved
  BY DEF ListedUnlessReused, Resolved, NoRequest
<1>4. QED
  BY <1>1, <1>2, <1>3 DEF IInv

LEMMA EnvironmentIInv ==
    ASSUME IInv, NEW h \in Handlers, Environment(h) PROVE IInv'
<1> USE DEF IInv, launchVars
<1>1. ASSUME NEW t \in Tags \cup {NoTag}, NEW b \in BOOLEAN, New(h, t, b)
      PROVE  IInv'
  <2>1. TypeOK'
    BY <1>1 DEF New, TypeOK
  <2>2. Progress'
    BY <1>1, PidsAssumption DEF New, TypeOK, Progress
  <2>3. OneOwner' /\ EntryOwner'
    BY <1>1, HandlersAssumption DEF New, TypeOK, Progress, OneOwner, EntryOwner, Live
  <2>4. ListedUnlessReused'
    BY <1>1 DEF New, TypeOK, Progress, ListedUnlessReused
  <2>5. Resolved'
    BY <1>1 DEF New, Resolved
  <2>6. QED
    BY <2>1, <2>2, <2>3, <2>4, <2>5
<1>2. CASE ClientLeave(h)
  <2>1. TypeOK'
    BY <1>2 DEF ClientLeave, TypeOK
  <2>2. Progress'
    BY <1>2, PidsAssumption DEF ClientLeave, TypeOK, Progress
  <2>3. OneOwner' /\ EntryOwner'
    BY <1>2, HandlersAssumption DEF ClientLeave, TypeOK, Progress, OneOwner, EntryOwner, Live
  <2>4. ListedUnlessReused'
    BY <1>2 DEF ClientLeave, TypeOK, Progress, ListedUnlessReused
  <2>5. Resolved'
    BY <1>2 DEF ClientLeave, Resolved
  <2>6. QED
    BY <2>1, <2>2, <2>3, <2>4, <2>5
<1>3. CASE ProcExit(h)
  <2>1. TypeOK'
    BY <1>3 DEF ProcExit, TypeOK
  <2>2. Progress'
    BY <1>3, PidsAssumption DEF ProcExit, TypeOK, Progress
  <2>3. OneOwner' /\ EntryOwner'
    BY <1>3, HandlersAssumption DEF ProcExit, TypeOK, Progress, OneOwner, EntryOwner, Live
  <2>4. ListedUnlessReused'
    BY <1>3 DEF ProcExit, TypeOK, Progress, ListedUnlessReused
  <2>5. Resolved'
    BY <1>3 DEF ProcExit, Resolved
  <2>6. QED
    BY <2>1, <2>2, <2>3, <2>4, <2>5
<1>4. ASSUME Hold(h) \/ Release(h) PROVE IInv'
  <2>1. UNCHANGED <<launchVars, proc, outDone, waiter, processes, req>>
    BY <1>4 DEF Hold, Release
  <2>2. TypeOK'
    BY <1>4 DEF Hold, Release, TypeOK
  <2>3. Progress' /\ OneOwner' /\ EntryOwner'
    BY <2>1 DEF Progress, OneOwner, EntryOwner, Live
  <2>4. ListedUnlessReused' /\ Resolved'
    BY <2>1 DEF ListedUnlessReused, Resolved
  <2>5. QED
    BY <2>2, <2>3, <2>4
<1>5. QED
  BY <1>1, <1>2, <1>3, <1>4 DEF Environment

LEMMA ServiceIInv ==
    ASSUME IInv, NEW h \in Handlers, Service(h) PROVE IInv'
<1> USE DEF IInv, launchVars
<1>1. CASE Start(h)
  <2>1. PICK q \in FreePids : pid' = [pid EXCEPT ![h] = q]
    BY <1>1 DEF Start
  <2>2. q \in Pids /\ \A g \in Handlers : pid[g] = q => ~Live(g)
    BY <2>1 DEF FreePids, Live
  <2>3. TypeOK'
    BY <1>1, <2>1, <2>2 DEF Start, TypeOK
  <2>4. Progress'
    BY <1>1, <2>1, <2>2 DEF Start, TypeOK, Progress
  <2>5. OneOwner'
    BY <1>1, <2>1, <2>2 DEF Start, TypeOK, OneOwner, Live
  <2>6. EntryOwner'
    <3>1. \A p \in Pids : processes[p] # h
      BY <1>1 DEF Start, EntryOwner
    <3>2. QED
      BY <1>1, <2>1, <3>1 DEF Start, TypeOK, EntryOwner
  <2>7. ListedUnlessReused'
    <3>1. /\ UNCHANGED <<processes, waiter>>
          /\ launch' = [launch EXCEPT ![h] = "started"]
          /\ proc' = [proc EXCEPT ![h] = "running"]
          /\ waiter[h] # "done"
      BY <1>1 DEF Start, Progress
    <3>2. \A g \in Handlers \ {h} :
             pid'[g] = pid[g] /\ launch'[g] = launch[g] /\ proc'[g] = proc[g]
      BY <2>1, <3>1 DEF TypeOK
    <3>3. launch'[h] = "started"
      BY <3>1 DEF TypeOK
    <3>4. QED
      BY <3>1, <3>2, <3>3 DEF ListedUnlessReused
  <2>8. Resolved'
    BY <1>1 DEF Start, Resolved
  <2>9. QED
    BY <2>3, <2>4, <2>5, <2>6, <2>7, <2>8
<1>2. CASE StartFails(h)
  <2>1. TypeOK'
    BY <1>2 DEF StartFails, TypeOK
  <2>2. Progress'
    BY <1>2, PidsAssumption DEF StartFails, TypeOK, Progress
  <2>3. OneOwner' /\ EntryOwner'
    BY <1>2, HandlersAssumption DEF StartFails, TypeOK, Progress, OneOwner, EntryOwner, Live
  <2>4. ListedUnlessReused'
    BY <1>2 DEF StartFails, TypeOK, Progress, ListedUnlessReused
  <2>5. Resolved'
    BY <1>2 DEF StartFails, Resolved
  <2>6. QED
    BY <2>1, <2>2, <2>3, <2>4, <2>5
<1>3. CASE Store(h)
  <2>1. TypeOK'
    BY <1>3 DEF Store, TypeOK
  <2>2. Progress'
    BY <1>3, PidsAssumption DEF Store, TypeOK, Progress
  <2>3. OneOwner' /\ EntryOwner'
    BY <1>3, HandlersAssumption DEF Store, TypeOK, Progress, OneOwner, EntryOwner, Live
  <2>4. ListedUnlessReused'
    BY <1>3 DEF Store, TypeOK, Progress, OneOwner, Live, ListedUnlessReused
  <2>5. Resolved'
    BY <1>3 DEF Store, Resolved
  <2>6. QED
    BY <2>1, <2>2, <2>3, <2>4, <2>5
<1>4. CASE Serve(h)
  <2>1. TypeOK'
    BY <1>4 DEF Serve, TypeOK
  <2>2. Progress'
    BY <1>4, PidsAssumption DEF Serve, TypeOK, Progress
  <2>3. OneOwner' /\ EntryOwner'
    BY <1>4, HandlersAssumption DEF Serve, TypeOK, Progress, OneOwner, EntryOwner, Live
  <2>4. ListedUnlessReused'
    BY <1>4 DEF Serve, TypeOK, Progress, ListedUnlessReused
  <2>5. Resolved'
    BY <1>4 DEF Serve, Resolved
  <2>6. QED
    BY <2>1, <2>2, <2>3, <2>4, <2>5
<1>5. CASE OutputEnds(h)
  <2>1. TypeOK'
    BY <1>5 DEF OutputEnds, TypeOK
  <2>2. Progress'
    BY <1>5, PidsAssumption DEF OutputEnds, TypeOK, Progress
  <2>3. OneOwner' /\ EntryOwner'
    BY <1>5, HandlersAssumption DEF OutputEnds, TypeOK, Progress, OneOwner, EntryOwner, Live
  <2>4. ListedUnlessReused'
    BY <1>5 DEF OutputEnds, TypeOK, Progress, ListedUnlessReused
  <2>5. Resolved'
    BY <1>5 DEF OutputEnds, Resolved
  <2>6. QED
    BY <2>1, <2>2, <2>3, <2>4, <2>5
<1>6. CASE Wait(h)
  <2>1. TypeOK'
    BY <1>6 DEF Wait, TypeOK
  <2>2. Progress'
    BY <1>6, PidsAssumption DEF Wait, TypeOK, Progress
  <2>3. OneOwner' /\ EntryOwner'
    BY <1>6, HandlersAssumption DEF Wait, TypeOK, Progress, OneOwner, EntryOwner, Live
  <2>4. ListedUnlessReused'
    BY <1>6 DEF Wait, TypeOK, Progress, ListedUnlessReused
  <2>5. Resolved'
    BY <1>6 DEF Wait, Resolved
  <2>6. QED
    BY <2>1, <2>2, <2>3, <2>4, <2>5
<1>7. CASE Delete(h)
  <2>1. TypeOK'
    BY <1>7 DEF Delete, TypeOK
  <2>2. Progress'
    BY <1>7, PidsAssumption DEF Delete, TypeOK, Progress
  <2>3. OneOwner' /\ EntryOwner'
    BY <1>7, HandlersAssumption DEF Delete, TypeOK, Progress, OneOwner, EntryOwner, Live
  <2>4. ListedUnlessReused'
    BY <1>7 DEF Delete, TypeOK, Progress, ListedUnlessReused
  <2>5. Resolved'
    BY <1>7 DEF Delete, Resolved
  <2>6. QED
    BY <2>1, <2>2, <2>3, <2>4, <2>5
<1>8. QED
  BY <1>1, <1>2, <1>3, <1>4, <1>5, <1>6, <1>7 DEF Service

LEMMA RequestIInv ==
    ASSUME IInv, NEW r \in Requests, Request(r) PROVE IInv'
<1> USE DEF IInv, launchVars
<1>1. ASSUME NEW g \in Handlers \cup {None}, NEW t \in Tags \cup {NoTag},
             Answer(r, g, t),
             UNCHANGED <<launchVars, proc, outDone, waiter, processes, held>>
      PROVE  IInv'
  <2>1. TypeOK'
    BY <1>1 DEF Answer, TypeOK
  <2>2. Resolved'
    BY <1>1 DEF Answer, TypeOK, Resolved
  <2>3. Progress' /\ OneOwner' /\ EntryOwner'
    BY <1>1 DEF Progress, OneOwner, EntryOwner, Live
  <2>4. ListedUnlessReused'
    BY <1>1 DEF ListedUnlessReused
  <2>5. QED
    BY <2>1, <2>2, <2>3, <2>4
<1>2. ASSUME NEW p \in Pids, LookupPid(r, p) PROVE IInv'
  BY <1>1, <1>2 DEF LookupPid, TypeOK
<1>3. ASSUME NEW t \in Tags, LookupTag(r, t) PROVE IInv'
  <2>1. PICK g \in TagAnswers(t) : Answer(r, g, t)
    BY <1>3 DEF LookupTag
  <2>2. g \in Handlers \cup {None}
    BY <2>1 DEF TagAnswers, Tracked
  <2>3. QED
    BY <1>1, <1>3, <2>1, <2>2 DEF LookupTag
<1>4. CASE SendSignal(r)
  <2>1. req[r].h \in Handlers
    BY <1>4 DEF SendSignal, Resolved
  <2>2. TypeOK'
    <3>2. req' \in [Requests ->
                      [pc : {"idle", "found", "notFound", "done"},
                       h : Handlers \cup {None}, by : Tags \cup {NoTag}]]
      BY <1>4 DEF SendSignal, Finish, TypeOK
    <3>3. outDone' \in [Handlers -> BOOLEAN]
      BY <1>4 DEF SendSignal, TypeOK
    <3>5. \A q \in Requests : req'[q].pc = "found" => req'[q].h # None
      BY <1>4 DEF SendSignal, Finish, TypeOK
    <3>6. QED
      BY <1>4, <3>2, <3>3, <3>5 DEF SendSignal, TypeOK
  <2>3. Resolved'
    BY <1>4 DEF SendSignal, Finish, TypeOK, Resolved
  <2>5. Progress' /\ OneOwner' /\ EntryOwner' /\ ListedUnlessReused'
    BY <1>4 DEF SendSignal, Progress, OneOwner, EntryOwner, Live,
                ListedUnlessReused
  <2>6. QED
    BY <2>2, <2>3, <2>5
<1>5. QED
  BY <1>2, <1>3, <1>4 DEF Request

LEMMA NextIInv == ASSUME IInv, [Next]_vars PROVE IInv'
<1>1. CASE Next
  BY <1>1, EnvironmentIInv, ServiceIInv, RequestIInv DEF Next
<1>2. CASE UNCHANGED vars
  <2> USE <1>2 DEF vars, launchVars, IInv
  <2>1. TypeOK'
    BY DEF TypeOK
  <2>2. Progress' /\ OneOwner' /\ EntryOwner'
    BY DEF Progress, OneOwner, EntryOwner, Live
  <2>3. ListedUnlessReused' /\ Resolved'
    BY DEF ListedUnlessReused, Resolved
  <2>4. QED
    BY <2>1, <2>2, <2>3
<1>3. QED
  BY <1>1, <1>2

\* The inductive invariant holds of every behaviour.
THEOREM Invariance == Spec => []IInv
<1>1. Init => IInv
  BY InitIInv
<1>2. IInv /\ [Next]_vars => IInv'
  BY NextIInv
<1>3. QED
  BY <1>1, <1>2, PTL DEF Spec
-----------------------------------------------------------------------------
\* Every variable of the service keeps its type.
THEOREM TypeCorrect == Spec => []TypeOK
  BY Invariance, PTL DEF IInv

\* A stored, unreaped process is found under its pid unless an earlier owner of
\* the pid deleted the entry late (start.go:212-224).
THEOREM Listed == Spec => []ListedUnlessReused
  BY Invariance, PTL DEF IInv

\* A launch that is over has left no entry behind (start.go:44-50, 220-224).
THEOREM Ghostless == Spec => []NoGhost
<1>1. IInv => NoGhost
  BY DEF IInv, EntryOwner, NoGhost, Tracked
<1>2. QED
  BY <1>1, Invariance, PTL
=============================================================================
