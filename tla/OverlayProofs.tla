---------------------------- MODULE OverlayProofs ----------------------------
(***************************************************************************)
(* Proofs about Overlay, for any tree, manifests, walkers and pushes.     *)
(***************************************************************************)
EXTENDS Overlay, SequenceTheorems, WellFoundedInduction, TLAPS

AnyManifest == Manifests \cup {NoManifest}

\* A request under way has seen the manifest that is current.
SeesCurrent == \A w \in Walkers : req[w].pc # "idle" => current \in req[w].seen

IInv == TypeOK /\ SeesCurrent /\ PermitsAreTrue
-----------------------------------------------------------------------------
LEMMA InitIInv == ASSUME Init PROVE IInv
<1>1. TypeOK
  <2>1. RootNode \in [path : Dirs \cup {Root}, store : BOOLEAN]
    BY DEF RootNode
  <2>2. NoRequest \in Request /\ NoVerdict \in Decision
    BY DEF NoRequest, NoVerdict, Request, Decision
  <2>3. NoRequest.op = "none" /\ NoRequest.pc = "idle"
    BY DEF NoRequest
  <2>4. /\ attached \in BOOLEAN /\ current \in Manifests \cup {NoManifest}
        /\ updates \in 0..MaxUpdates /\ virtuals \subseteq Virtuals
        /\ crashed \in BOOLEAN
    <3>1. updates \in 0..MaxUpdates
      BY MaxUpdatesAssumption DEF Init
    <3>2. QED
      BY <3>1 DEF Init
  <2>5. /\ node \in [Walkers -> [path : Dirs \cup {Root}, store : BOOLEAN]]
        /\ req \in [Walkers -> Request] /\ verdict \in [Walkers -> Decision]
    BY <2>1, <2>2 DEF Init
  <2>6. \A w \in Walkers : req[w] = NoRequest
    BY DEF Init
  <2>7. QED
    BY <2>3, <2>4, <2>5, <2>6 DEF TypeOK
<1>2. SeesCurrent /\ PermitsAreTrue
  BY DEF Init, SeesCurrent, PermitsAreTrue, NoRequest, NoVerdict
<1>3. QED
  BY <1>1, <1>2 DEF IInv

\* A change, of whatever it is, is seen by every request under way.
LEMMA NoticeKeeps ==
    ASSUME IInv, NEW m \in AnyManifest, Notice(m), current' = m,
           UNCHANGED <<node, verdict, crashed>>,
           attached' \in BOOLEAN, updates' \in 0..MaxUpdates, virtuals' \subseteq Virtuals
    PROVE  IInv'
<1>1. \A w \in Walkers :
         /\ req'[w] \in Request
         /\ req'[w].op = req[w].op /\ req'[w].pc = req[w].pc /\ req'[w].name = req[w].name
         /\ req'[w].todo = req[w].todo /\ req'[w].kept = req[w].kept
         /\ req[w].pc # "idle" => m \in req'[w].seen
  <2>1. SUFFICES ASSUME NEW w \in Walkers
                 PROVE  /\ req'[w] \in Request
                        /\ req'[w].op = req[w].op /\ req'[w].pc = req[w].pc
                        /\ req'[w].name = req[w].name
                        /\ req'[w].todo = req[w].todo /\ req'[w].kept = req[w].kept
                        /\ req[w].pc # "idle" => m \in req'[w].seen
    OBVIOUS
  <2> DEFINE s == IF req[w].pc = "idle" THEN req[w].seen ELSE req[w].seen \cup {m}
  <2>2. req'[w] = [req[w] EXCEPT !.dirty = TRUE, !.seen = s]
    BY DEF Notice
  <2>3. req[w] \in Request
    BY DEF IInv, TypeOK
  <2>4. s \in SUBSET AnyManifest /\ (req[w].pc # "idle" => m \in s)
    BY <2>3 DEF Request, AnyManifest
  <2> HIDE DEF s
  <2>5. QED
    BY <2>2, <2>3, <2>4 DEF Request, AnyManifest
<1>2. req' \in [Walkers -> Request]
  BY <1>1 DEF Notice
<1>3. TypeOK'
  BY <1>1, <1>2 DEF IInv, TypeOK, AnyManifest
<1>4. SeesCurrent' /\ PermitsAreTrue'
  BY <1>1 DEF IInv, SeesCurrent, PermitsAreTrue
<1>5. QED
  BY <1>3, <1>4 DEF IInv

LEMMA AgentIInv == ASSUME IInv, Agent, UNCHANGED crashed PROVE IInv'
<1> current \in AnyManifest
  BY DEF IInv, TypeOK, AnyManifest
<1>1. CASE SetStore
  BY <1>1, NoticeKeeps DEF SetStore, IInv, TypeOK
<1>2. ASSUME NEW m \in Manifests, Update(m) PROVE IInv'
  <2>1. updates' \in 0..MaxUpdates /\ m \in AnyManifest
    BY <1>2, MaxUpdatesAssumption DEF Update, IInv, TypeOK, AnyManifest
  <2>2. QED
    BY <1>2, <2>1, NoticeKeeps DEF Update, IInv, TypeOK
<1>3. ASSUME NEW n \in Virtuals, Put(n) \/ RemoveVirtual(n) PROVE IInv'
  BY <1>3, NoticeKeeps DEF Put, RemoveVirtual, IInv, TypeOK
<1>4. QED
  BY <1>1, <1>2, <1>3 DEF Agent
-----------------------------------------------------------------------------
\* A step of one walker is judged by what it does to that walker's request and
\* verdict, and to the node it holds.
LEMMA WalkerKeeps ==
    ASSUME IInv, NEW w \in Walkers, UNCHANGED <<attached, current, updates, virtuals, crashed>>,
           NEW q \in Request, req' = [req EXCEPT ![w] = q],
           NEW v \in Decision, verdict' = [verdict EXCEPT ![w] = v],
           node' \in [Walkers -> [path : Dirs \cup {Root}, store : BOOLEAN]],
           q.op \in {"none", "listed"} <=> q.pc = "idle",
           q.pc = "prefix" => q.name \in q.todo,
           q.op = "lookup" => \E n \in Names : q.todo \cup q.kept \subseteq {n},
           q.pc # "idle" => current \in q.seen,
           v.store => \A path \in v.passed : \E m \in v.seen : Permits(m, path)
    PROVE  IInv'
<1>1. TypeOK'
  BY DEF IInv, TypeOK
<1>2. SeesCurrent'
  BY DEF IInv, TypeOK, SeesCurrent
<1>3. PermitsAreTrue'
  BY DEF IInv, TypeOK, PermitsAreTrue
<1>4. QED
  BY <1>1, <1>2, <1>3 DEF IInv

\* The same for steps that decide nothing.
LEMMA WalkerKeepsVerdict ==
    ASSUME IInv, NEW w \in Walkers,
           UNCHANGED <<attached, current, updates, virtuals, verdict, crashed>>,
           NEW q \in Request, req' = [req EXCEPT ![w] = q],
           node' \in [Walkers -> [path : Dirs \cup {Root}, store : BOOLEAN]],
           q.op \in {"none", "listed"} <=> q.pc = "idle",
           q.pc = "prefix" => q.name \in q.todo,
           q.op = "lookup" => \E n \in Names : q.todo \cup q.kept \subseteq {n},
           q.pc # "idle" => current \in q.seen
    PROVE  IInv'
<1>1. verdict' = [verdict EXCEPT ![w] = verdict[w]] /\ verdict[w] \in Decision
  BY DEF IInv, TypeOK
<1>2. verdict[w].store =>
         \A path \in verdict[w].passed : \E m \in verdict[w].seen : Permits(m, path)
  BY DEF IInv, PermitsAreTrue
<1>3. QED
  BY <1>1, <1>2, WalkerKeeps

LEMMA NoRequestType == NoRequest \in Request
BY DEF NoRequest, Request

\* A request that is given up or answered.
LEMMA EndKeeps ==
    ASSUME IInv, NEW w \in Walkers,
           UNCHANGED <<attached, current, updates, virtuals, verdict, crashed>>,
           req' = [req EXCEPT ![w] = NoRequest],
           node' \in [Walkers -> [path : Dirs \cup {Root}, store : BOOLEAN]]
    PROVE  IInv'
<1>1. /\ NoRequest.op = "none" /\ NoRequest.pc = "idle"
  BY DEF NoRequest
<1>2. QED
  BY <1>1, NoRequestType, WalkerKeepsVerdict

LEMMA BeginIInv ==
    ASSUME IInv, NEW w \in Walkers,
           UNCHANGED <<attached, current, updates, virtuals, node, verdict, crashed>>,
           NEW op \in {"lookup", "readdir"}, NEW names \in SUBSET Names, Begin(w, op, names),
           op = "lookup" => \E n \in Names : names \subseteq {n}
    PROVE  IInv'
<1> DEFINE q == [NoRequest EXCEPT !.op = op, !.pc = "policy", !.todo = names, !.seen = {current}]
<1>1. q \in Request
  BY DEF NoRequest, Request, IInv, TypeOK
<1>2. q.op = op /\ q.pc = "policy" /\ q.todo = names /\ q.kept = {} /\ q.seen = {current}
  BY DEF NoRequest
<1>3. req' = [req EXCEPT ![w] = q]
  BY DEF Begin
<1>4. node' \in [Walkers -> [path : Dirs \cup {Root}, store : BOOLEAN]]
  BY DEF IInv, TypeOK
<1> HIDE DEF q
<1>5. QED
  BY <1>1, <1>2, <1>3, <1>4, WalkerKeepsVerdict

LEMMA NodesKept == ASSUME IInv, UNCHANGED node
                   PROVE  node' \in [Walkers -> [path : Dirs \cup {Root}, store : BOOLEAN]]
BY DEF IInv, TypeOK

LEMMA RequestIInv ==
    ASSUME IInv, UNCHANGED crashed, NEW w \in Walkers,
           (\E n \in Names : Lookup(w, n)) \/ Readdir(w)
    PROVE  IInv'
<1>1. ASSUME NEW n \in Names, Lookup(w, n) PROVE IInv'
  <2>1. CASE AtRoot(w) /\ n \in virtuals
    BY <1>1, <2>1, EndKeeps, NodesKept DEF Lookup
  <2>2. CASE ~(AtRoot(w) /\ n \in virtuals)
    <3>1. Begin(w, "lookup", {n}) /\ {n} \in SUBSET Names
      BY <1>1, <2>2 DEF Lookup
    <3>2. UNCHANGED <<attached, current, updates, virtuals, node, verdict>>
      BY <1>1 DEF Lookup
    <3>3. QED
      BY <3>1, <3>2, BeginIInv
  <2>3. QED
    BY <2>1, <2>2
<1>2. CASE Readdir(w)
  <2>1. Children(node[w].path) \in SUBSET Names
    BY DEF Children
  <2>2. QED
    BY <1>2, <2>1, BeginIInv DEF Readdir
<1>3. QED
  BY <1>1, <1>2

\* The record of a decision by walker w.
LEMMA VerdictType ==
    ASSUME IInv, NEW w \in Walkers, NEW passed \in SUBSET Names, NEW refused \in SUBSET Names
    PROVE  Verdict(w, passed, refused) \in Decision
<1>1. node[w].path \in Seq(Names) /\ HasStore(w) \in BOOLEAN
  <2>1. /\ node \in [Walkers -> [path : Dirs \cup {Root}, store : BOOLEAN]]
        /\ attached \in BOOLEAN
    BY DEF IInv, TypeOK
  <2>2. node[w] \in [path : Dirs \cup {Root}, store : BOOLEAN]
    BY <2>1
  <2>3. Dirs \cup {Root} \subseteq Seq(Names)
    <3>1. Root \in Seq(Names)
      BY DEF Root
    <3>2. Dirs \subseteq Seq(Names)
      BY TreeAssumption
    <3>3. QED
      BY <3>1, <3>2
  <2>4. node[w].path \in Seq(Names)
    BY <2>2, <2>3
  <2>5. node[w].store \in BOOLEAN
    BY <2>2
  <2>6. HasStore(w) \in BOOLEAN
    BY <2>1, <2>5 DEF HasStore
  <2>7. QED
    BY <2>4, <2>6
<1>2. \A n \in Names : Child(w, n) \in Paths
  BY <1>1 DEF Child, Paths
<1>3. req[w].seen \in SUBSET (Manifests \cup {NoManifest})
  BY DEF IInv, TypeOK, Request
<1>4. QED
  BY <1>1, <1>2, <1>3 DEF Verdict, Decision

LEMMA CheckPolicyIInv ==
    ASSUME IInv, UNCHANGED crashed, NEW w \in Walkers, CheckPolicy(w) PROVE IInv'
<1> DEFINE q == [req[w] EXCEPT !.store = HasStore(w), !.pc = "match",
                               !.todo = IF Enforced(w) THEN req[w].todo ELSE {},
                               !.kept = IF Enforced(w) THEN {} ELSE req[w].todo]
           v == IF Enforced(w) THEN NoVerdict ELSE Verdict(w, req[w].todo, {})
<1>1. req[w] \in Request /\ HasStore(w) \in BOOLEAN
  BY DEF IInv, TypeOK, HasStore
<1>2. q \in Request
  BY <1>1 DEF Request
<1>3. /\ q.pc = "match" /\ q.op = req[w].op /\ q.seen = req[w].seen
      /\ q.todo \cup q.kept = req[w].todo
  BY <1>1 DEF Request
<1>4. v \in Decision
  <2>1. NoVerdict \in Decision
    BY DEF NoVerdict, Decision
  <2>2. Verdict(w, req[w].todo, {}) \in Decision
    BY <1>1, VerdictType DEF Request
  <2>3. QED
    BY <2>1, <2>2
<1>5. v.store => \A path \in v.passed : \E m \in v.seen : Permits(m, path)
  <2>1. CASE Enforced(w)
    BY <2>1 DEF NoVerdict
  <2>2. CASE ~Enforced(w) /\ HasStore(w)
    <3>1. current = NoManifest /\ current \in req[w].seen
      BY <2>2 DEF Enforced, IInv, SeesCurrent, CheckPolicy
    <3>2. v.seen = req[w].seen /\ \A path : Permits(NoManifest, path)
      BY <2>2 DEF Verdict, Permits, IsPathAllowed
    <3>3. QED
      BY <3>1, <3>2
  <2>3. CASE ~Enforced(w) /\ ~HasStore(w)
    BY <2>3 DEF Verdict
  <2>4. QED
    BY <2>1, <2>2, <2>3
<1>6. req' = [req EXCEPT ![w] = q] /\ verdict' = [verdict EXCEPT ![w] = v]
  BY DEF CheckPolicy
<1>7. /\ req[w].pc = "policy" /\ req[w].op \notin {"none", "listed"} /\ current \in req[w].seen
      /\ req[w].op = "lookup" => \E n \in Names : req[w].todo \subseteq {n}
  BY DEF CheckPolicy, IInv, TypeOK, SeesCurrent
<1>8. UNCHANGED <<attached, current, updates, virtuals, node>>
  BY DEF CheckPolicy
<1> HIDE DEF q, v
<1>9. QED
  BY <1>2, <1>3, <1>4, <1>5, <1>6, <1>7, <1>8, NodesKept, WalkerKeeps

\* A name passes only if some manifest the request has seen permits it.
LEMMA DecideIInv ==
    ASSUME IInv, NEW w \in Walkers, NEW n \in req[w].todo, NEW ok \in BOOLEAN,
           req[w].pc \in {"match", "prefix"}, Decide(w, n, ok),
           ok => Permits(current, Child(w, n)),
           UNCHANGED <<attached, current, updates, virtuals, node, crashed>>
    PROVE  IInv'
<1> DEFINE q == [req[w] EXCEPT !.pc = "match", !.todo = req[w].todo \ {n},
                               !.kept = IF ok THEN req[w].kept \cup {n} ELSE req[w].kept]
           v == IF ok THEN Verdict(w, {n}, {}) ELSE Verdict(w, {}, {n})
<1>1. req[w] \in Request /\ n \in Names /\ current \in req[w].seen
  BY DEF IInv, TypeOK, Request, SeesCurrent
<1>2. q \in Request
  BY <1>1 DEF Request
<1>3. /\ q.pc = "match" /\ q.op = req[w].op /\ q.seen = req[w].seen
      /\ q.todo \cup q.kept \subseteq req[w].todo \cup req[w].kept
  BY <1>1 DEF Request
<1>4. v \in Decision
  BY <1>1, VerdictType
<1>5. v.store => \A path \in v.passed : \E m \in v.seen : Permits(m, path)
  BY <1>1 DEF Verdict
<1>6. req' = [req EXCEPT ![w] = q] /\ verdict' = [verdict EXCEPT ![w] = v]
  BY DEF Decide
<1>7. /\ req[w].op \notin {"none", "listed"}
      /\ req[w].op = "lookup" => \E k \in Names : req[w].todo \cup req[w].kept \subseteq {k}
  BY DEF IInv, TypeOK
<1> HIDE DEF q, v
<1>8. q.op = "lookup" => \E k \in Names : q.todo \cup q.kept \subseteq {k}
  BY <1>3, <1>7
<1>9. QED
  BY <1>1, <1>2, <1>3, <1>4, <1>5, <1>6, <1>7, <1>8, NodesKept, WalkerKeeps

LEMMA MatchIInv ==
    ASSUME IInv, UNCHANGED crashed, NEW w \in Walkers,
           (\E n \in Names : MatchPath(w, n)) \/ MatchPrefix(w)
    PROVE  IInv'
<1>1. ASSUME NEW n \in Names, MatchPath(w, n) PROVE IInv'
  <2>1. CASE IsPathAllowed(current, Child(w, n))
    BY <1>1, <2>1, DecideIInv DEF MatchPath, Permits
  <2>2. CASE ~IsPathAllowed(current, Child(w, n))
    <3> DEFINE q == [req[w] EXCEPT !.pc = "prefix", !.name = n]
    <3>1. req[w] \in Request /\ current \in req[w].seen /\ n \in req[w].todo
      BY <1>1 DEF MatchPath, IInv, TypeOK, SeesCurrent
    <3>2. q \in Request
      BY <3>1 DEF Request
    <3>3. /\ q.pc = "prefix" /\ q.op = req[w].op /\ q.seen = req[w].seen /\ q.name = n
          /\ q.todo = req[w].todo /\ q.kept = req[w].kept
      BY <3>1 DEF Request
    <3>4. /\ req' = [req EXCEPT ![w] = q]
          /\ UNCHANGED <<attached, current, updates, virtuals, node, verdict>>
      BY <1>1, <2>2 DEF MatchPath
    <3>5. /\ req[w].op \notin {"none", "listed"}
          /\ req[w].op = "lookup" => \E k \in Names : req[w].todo \cup req[w].kept \subseteq {k}
      BY <1>1 DEF MatchPath, IInv, TypeOK
    <3> HIDE DEF q
    <3>6. QED
      BY <3>1, <3>2, <3>3, <3>4, <3>5, NodesKept, WalkerKeepsVerdict
  <2>3. QED
    BY <2>1, <2>2
<1>2. CASE MatchPrefix(w)
  <2>1. req[w].name \in req[w].todo /\ req[w].pc = "prefix"
    BY <1>2 DEF MatchPrefix, IInv, TypeOK
  <2>2. LeadsTo(current, Child(w, req[w].name)) \in BOOLEAN
    BY DEF LeadsTo
  <2>3. QED
    BY <1>2, <2>1, <2>2, DecideIInv DEF MatchPrefix, Permits
<1>3. QED
  BY <1>1, <1>2

LEMMA AnswerIInv ==
    ASSUME IInv, UNCHANGED crashed, NEW w \in Walkers,
           \/ \E n \in Names : Enter(w, n)
           \/ EndLookup(w) \/ EndReaddir(w) \/ Forget(w)
    PROVE  IInv'
<1>1. ASSUME NEW n \in Names, Enter(w, n) PROVE IInv'
  <2>1. node' \in [Walkers -> [path : Dirs \cup {Root}, store : BOOLEAN]]
    BY <1>1 DEF Enter, IInv, TypeOK, Request
  <2>2. QED
    BY <1>1, <2>1, EndKeeps DEF Enter
<1>2. CASE EndLookup(w)
  BY <1>2, EndKeeps, NodesKept DEF EndLookup
<1>3. CASE EndReaddir(w)
  <2> DEFINE q == [req[w] EXCEPT !.op = "listed", !.pc = "idle",
                                 !.kept = Merged(w)]
  <2>1. req[w] \in Request /\ virtuals \subseteq Names
    BY NamesAssumption DEF IInv, TypeOK
  <2>2. q \in Request
    BY <2>1 DEF Request, Merged
  <2>3. q.op = "listed" /\ q.pc = "idle"
    BY <2>1 DEF Request
  <2>4. /\ req' = [req EXCEPT ![w] = q]
        /\ UNCHANGED <<attached, current, updates, virtuals, node, verdict>>
    BY <1>3 DEF EndReaddir
  <2> HIDE DEF q
  <2>5. QED
    BY <2>2, <2>3, <2>4, NodesKept, WalkerKeepsVerdict
<1>4. CASE Forget(w)
  <2>1. RootNode \in [path : Dirs \cup {Root}, store : BOOLEAN]
    BY DEF RootNode
  <2>2. node' \in [Walkers -> [path : Dirs \cup {Root}, store : BOOLEAN]]
    BY <1>4, <2>1 DEF Forget, IInv, TypeOK
  <2>3. QED
    BY <1>4, <2>2, EndKeeps DEF Forget
<1>5. QED
  BY <1>1, <1>2, <1>3, <1>4
-----------------------------------------------------------------------------
LEMMA StepIInv == ASSUME IInv, [Next]_vars PROVE IInv'
<1>1. CASE UNCHANGED vars
  BY <1>1 DEF vars, IInv, TypeOK, SeesCurrent, PermitsAreTrue
<1>2. CASE Agent /\ UNCHANGED crashed
  BY <1>2, AgentIInv
<1>3. ASSUME NEW w \in Walkers, Walk(w), UNCHANGED crashed PROVE IInv'
  BY <1>3, RequestIInv, CheckPolicyIInv, MatchIInv, AnswerIInv DEF Walk
<1>4. ASSUME NEW w \in Walkers, NilPointer(w) PROVE IInv'
  BY <1>4 DEF NilPointer, IInv, TypeOK, SeesCurrent, PermitsAreTrue
<1>5. QED
  BY <1>1, <1>2, <1>3, <1>4 DEF Next, ReaddirBelow, LookupBelow

\* The inductive invariant holds throughout, whenever manifests are pushed.
THEOREM Inductive == Spec => []IInv
BY InitIInv, StepIInv, PTL DEF Spec

\* Nodes, requests and decisions keep their types; a held node is a directory, and a
\* lookup decides about one name (fuse.go:110-148, 216-239).
THEOREM TypeCorrect == Spec => []TypeOK
<1>1. IInv => TypeOK
  BY DEF IInv
<1>2. QED
  BY <1>1, Inductive, PTL

\* Whatever passes was permitted by a manifest current during the request, for any
\* tree, any manifests and however many pushes come between the reads of the store
\* (fuse.go:128-133, 278-299).
THEOREM OnlyPermitted == Spec => []PermitsAreTrue
<1>1. IInv => PermitsAreTrue
  BY DEF IInv
<1>2. QED
  BY <1>1, Inductive, PTL
-----------------------------------------------------------------------------
\* A real name passes the directory's policy.
Passes(w, n) == Child(w, n) \in Real /\ (HasStore(w) => Permits(current, Child(w, n)))

\* In the middle of a listing: the names already looked at are kept exactly if they
\* pass, and one waits for the second look only if the first did not let it through.
ListingSoFar(w) ==
    /\ \A n \in Names : n \in req[w].kept <=> n \notin req[w].todo /\ Passes(w, n)
    /\ \A n \in req[w].todo : Child(w, n) \in Real /\ HasStore(w)
    /\ req[w].pc = "prefix" => ~IsPathAllowed(current, Child(w, req[w].name))

\* What a request that saw no change knows of its listing at each of its steps.
Listing(w) ==
    ~req[w].dirty =>
        /\ (req[w].op = "readdir" /\ req[w].pc = "policy") => req[w].todo = Children(node[w].path)
        /\ (req[w].op = "readdir" /\ req[w].pc \in {"match", "prefix"}) => ListingSoFar(w)
        /\ req[w].op = "listed" =>
              \A n \in Names : n \in req[w].kept <=> n \in virtuals \/ Passes(w, n)

ListingInv == \A w \in Walkers : Listing(w)

\* There is no request to begin with.
LEMMA ListingInitial == Init => ListingInv
<1>1. NoRequest.op = "none"
  BY DEF NoRequest
<1>2. Init => \A w \in Walkers : req[w] = NoRequest
  BY DEF Init
<1>3. QED
  BY <1>1, <1>2 DEF ListingInv, Listing

\* A push, an attached store or a virtual file marks every request as changed under.
LEMMA AgentListing == ASSUME IInv, Agent PROVE ListingInv'
<1>1. PICK m : Notice(m)
  BY DEF Agent, SetStore, Update, Put, RemoveVirtual
<1>2. ASSUME NEW w \in Walkers PROVE req'[w].dirty = TRUE
  <2> DEFINE s == IF req[w].pc = "idle" THEN req[w].seen ELSE req[w].seen \cup {m}
  <2>1. req'[w] = [req[w] EXCEPT !.dirty = TRUE, !.seen = s]
    BY <1>1 DEF Notice
  <2>2. req[w] \in Request
    BY DEF IInv, TypeOK
  <2> HIDE DEF s
  <2>3. QED
    BY <2>1, <2>2 DEF Request
<1>3. QED
  BY <1>2 DEF ListingInv, Listing

\* A walker's step says nothing of the other walkers' listings.
LEMMA OwnListing ==
    ASSUME IInv, ListingInv, NEW w \in Walkers, NEW q, req' = [req EXCEPT ![w] = q],
           UNCHANGED <<attached, current, virtuals>>,
           \A x \in Walkers \ {w} : node'[x] = node[x],
           Listing(w)'
    PROVE  ListingInv'
<1>1. ASSUME NEW x \in Walkers, x # w PROVE Listing(x)'
  <2>1. req'[x] = req[x] /\ node'[x] = node[x]
    BY <1>1 DEF IInv, TypeOK
  <2>2. Listing(x)
    BY DEF ListingInv
  <2>3. QED
    BY <2>1, <2>2 DEF Listing, ListingSoFar, Passes, Child, HasStore, AtRoot
<1>2. QED
  BY <1>1 DEF ListingInv

\* A request that is given up or answered, and so has no listing.
LEMMA EndListing ==
    ASSUME IInv, ListingInv, NEW w \in Walkers, req' = [req EXCEPT ![w] = NoRequest],
           UNCHANGED <<attached, current, virtuals>>,
           \A x \in Walkers \ {w} : node'[x] = node[x]
    PROVE  ListingInv'
<1>1. req'[w] = NoRequest
  BY DEF IInv, TypeOK
<1>2. NoRequest.op = "none"
  BY DEF NoRequest
<1>3. Listing(w)'
  BY <1>1, <1>2 DEF Listing
<1>4. QED
  BY <1>3, OwnListing

\* One step per action of a walker; a name is decided in MatchPath or in MatchPrefix.
LEMMA WalkListing == ASSUME IInv, ListingInv, NEW w \in Walkers, Walk(w) PROVE ListingInv'
<1>0. /\ req[w] \in Request /\ req \in [Walkers -> Request] /\ Listing(w)
      /\ node \in [Walkers -> [path : Dirs \cup {Root}, store : BOOLEAN]]
  BY DEF IInv, TypeOK, ListingInv
<1>a. UNCHANGED <<attached, current, virtuals>>
  BY DEF Walk, Lookup, MatchPath, Enter, Readdir, CheckPolicy, MatchPrefix, EndLookup, EndReaddir,
     Forget
<1>b. ASSUME UNCHANGED node
      PROVE  /\ \A x \in Walkers \ {w} : node'[x] = node[x]
             /\ AtRoot(w)' = AtRoot(w) /\ HasStore(w)' = HasStore(w)
             /\ \A n : Child(w, n)' = Child(w, n)
             /\ \A n : Passes(w, n)' = Passes(w, n)
  BY <1>a, <1>b DEF AtRoot, HasStore, Child, Passes
<1>1. ASSUME NEW n \in Names, Lookup(w, n) PROVE ListingInv'
  <2>1. CASE AtRoot(w) /\ n \in virtuals
    BY <1>a, <1>1, <2>1, EndListing DEF Lookup
  <2>2. CASE ~(AtRoot(w) /\ n \in virtuals)
    <3> DEFINE q == [NoRequest EXCEPT !.op = "lookup", !.pc = "policy", !.todo = {n},
                                      !.seen = {current}]
    <3>1. req' = [req EXCEPT ![w] = q] /\ UNCHANGED node
      BY <1>1, <2>2 DEF Lookup, Begin
    <3>2. q.op = "lookup"
      BY DEF NoRequest
    <3> HIDE DEF q
    <3>3. Listing(w)'
      BY <1>0, <3>1, <3>2 DEF Listing
    <3>4. QED
      BY <1>a, <1>b, <3>1, <3>3, OwnListing
  <2>3. QED
    BY <2>1, <2>2
<1>2. CASE Readdir(w)
  <2> DEFINE q == [NoRequest EXCEPT !.op = "readdir", !.pc = "policy",
                                    !.todo = Children(node[w].path), !.seen = {current}]
  <2>1. req' = [req EXCEPT ![w] = q] /\ UNCHANGED node
    BY <1>2 DEF Readdir, Begin
  <2>2. q.op = "readdir" /\ q.pc = "policy" /\ q.todo = Children(node[w].path)
    BY DEF NoRequest
  <2> HIDE DEF q
  <2>3. Listing(w)'
    BY <1>0, <2>1, <2>2 DEF Listing, Children, Real
  <2>4. QED
    BY <1>a, <1>b, <2>1, <2>3, OwnListing
<1>3. CASE CheckPolicy(w)
  <2> DEFINE q == [req[w] EXCEPT !.store = HasStore(w), !.pc = "match",
                               !.todo = IF Enforced(w) THEN req[w].todo ELSE {},
                               !.kept = IF Enforced(w) THEN {} ELSE req[w].todo]
  <2>1. req' = [req EXCEPT ![w] = q] /\ UNCHANGED node /\ req[w].pc = "policy"
    BY <1>3 DEF CheckPolicy
  <2>2. /\ q.op = req[w].op /\ q.pc = "match" /\ q.dirty = req[w].dirty
        /\ q.todo = (IF Enforced(w) THEN req[w].todo ELSE {})
        /\ q.kept = (IF Enforced(w) THEN {} ELSE req[w].todo)
    BY <1>0 DEF Request
  <2> HIDE DEF q
  <2>3. ASSUME ~req[w].dirty, req[w].op = "readdir" PROVE ListingSoFar(w)'
    <3>1. \A n \in Names : n \in req[w].todo <=> Child(w, n) \in Real
      BY <1>0, <2>1, <2>3 DEF Listing, Children, Child
    <3>2. req'[w] = q /\ req[w].todo \subseteq Names
      BY <1>0, <2>1 DEF Request
    <3>3. CASE Enforced(w)
      BY <1>b, <2>1, <2>2, <3>1, <3>2, <3>3 DEF ListingSoFar, Enforced, Passes, Real
    <3>4. CASE ~Enforced(w)
      <4>1. HasStore(w) => \A path : Permits(current, path)
        BY <3>4 DEF Enforced, Permits, IsPathAllowed
      <4>2. \A n \in Names : Passes(w, n) <=> Child(w, n) \in Real
        BY <4>1 DEF Passes
      <4>3. QED
        BY <1>b, <2>1, <2>2, <3>1, <3>2, <3>4, <4>2 DEF ListingSoFar
    <3>5. QED
      BY <3>3, <3>4
  <2>4. Listing(w)'
    <3>1. req'[w] = q /\ req[w].op # "listed"
      BY <1>0, <2>1 DEF IInv, TypeOK
    <3>2. QED
      BY <2>2, <2>3, <3>1 DEF Listing
  <2>5. QED
    BY <1>a, <1>b, <2>1, <2>4, OwnListing
<1>4. ASSUME NEW n \in req[w].todo, NEW ok \in BOOLEAN, Decide(w, n, ok), UNCHANGED node,
             req[w].pc \in {"match", "prefix"},
             HasStore(w) => (ok <=> Permits(current, Child(w, n)))
      PROVE  ListingInv'
  <2> DEFINE q == [req[w] EXCEPT !.pc = "match", !.todo = req[w].todo \ {n},
                               !.kept = IF ok THEN req[w].kept \cup {n} ELSE req[w].kept]
  <2>1. req' = [req EXCEPT ![w] = q]
    BY <1>4 DEF Decide
  <2>2. /\ q.op = req[w].op /\ q.pc = "match" /\ q.dirty = req[w].dirty
        /\ q.todo = req[w].todo \ {n}
        /\ q.kept = (IF ok THEN req[w].kept \cup {n} ELSE req[w].kept)
    BY <1>0 DEF Request
  <2> HIDE DEF q
  <2>3. req'[w] = q /\ n \in Names /\ req[w].op # "listed"
    BY <1>0, <1>4, <2>1 DEF Request, IInv, TypeOK
  <2>4. ASSUME ~req[w].dirty, req[w].op = "readdir" PROVE ListingSoFar(w)'
    <3>1. ListingSoFar(w)
      BY <1>0, <1>4, <2>4 DEF Listing
    <3>2. ok <=> Passes(w, n)
      BY <1>4, <3>1 DEF ListingSoFar, Passes
    <3>3. QED
      BY <1>b, <1>4, <2>2, <2>3, <3>1, <3>2 DEF ListingSoFar
  <2>5. Listing(w)'
    BY <2>2, <2>3, <2>4 DEF Listing
  <2>6. QED
    BY <1>a, <1>b, <1>4, <2>1, <2>5, OwnListing
<1>5. ASSUME NEW n \in Names, MatchPath(w, n) PROVE ListingInv'
  <2>1. CASE IsPathAllowed(current, Child(w, n))
    <3>1. /\ Decide(w, n, TRUE) /\ UNCHANGED node /\ n \in req[w].todo /\ req[w].pc = "match"
          /\ Permits(current, Child(w, n))
      BY <1>5, <2>1 DEF MatchPath, Permits
    <3>2. QED
      BY <1>4, <3>1
  <2>2. CASE ~IsPathAllowed(current, Child(w, n))
    <3> DEFINE q == [req[w] EXCEPT !.pc = "prefix", !.name = n]
    <3>1. req' = [req EXCEPT ![w] = q] /\ UNCHANGED node /\ req[w].pc = "match"
      BY <1>5, <2>2 DEF MatchPath
    <3>2. /\ q.op = req[w].op /\ q.pc = "prefix" /\ q.dirty = req[w].dirty /\ q.name = n
          /\ q.todo = req[w].todo /\ q.kept = req[w].kept
      BY <1>0 DEF Request
    <3> HIDE DEF q
    <3>3. req'[w] = q /\ req[w].op # "listed"
      BY <1>0, <3>1 DEF IInv, TypeOK
    <3>4. ASSUME ~req[w].dirty, req[w].op = "readdir" PROVE ListingSoFar(w)'
      <4>1. ListingSoFar(w)
        BY <1>0, <3>1, <3>4 DEF Listing
      <4>2. QED
        BY <1>a, <1>b, <2>2, <3>1, <3>2, <3>3, <4>1 DEF ListingSoFar
    <3>5. Listing(w)'
      BY <3>2, <3>3, <3>4 DEF Listing
    <3>6. QED
      BY <1>a, <1>b, <3>1, <3>5, OwnListing
  <2>3. QED
    BY <2>1, <2>2
<1>6. CASE MatchPrefix(w)
  <2> DEFINE n == req[w].name
             ok == LeadsTo(current, Child(w, n))
  <2>1. /\ n \in req[w].todo /\ req[w].pc = "prefix" /\ UNCHANGED node
        /\ Decide(w, n, ok) /\ ok \in BOOLEAN
    BY <1>6 DEF MatchPrefix, IInv, TypeOK, LeadsTo
  <2>2. CASE ~req[w].dirty /\ req[w].op = "readdir"
    <3>1. ~IsPathAllowed(current, Child(w, n))
      BY <1>0, <2>1, <2>2 DEF Listing, ListingSoFar
    <3>2. ok <=> Permits(current, Child(w, n))
      BY <3>1 DEF Permits
    <3> HIDE DEF n, ok
    <3>3. QED
      BY <1>4, <2>1, <3>2
  <2>3. CASE req[w].dirty \/ req[w].op # "readdir"
    <3> DEFINE q == [req[w] EXCEPT !.pc = "match", !.todo = req[w].todo \ {n},
                                   !.kept = IF ok THEN req[w].kept \cup {n} ELSE req[w].kept]
    <3>1. req' = [req EXCEPT ![w] = q]
      BY <2>1 DEF Decide
    <3>2. q.op = req[w].op /\ q.dirty = req[w].dirty /\ req[w].op # "listed"
      BY <1>0, <2>1 DEF Request, IInv, TypeOK
    <3> HIDE DEF q
    <3>3. Listing(w)'
      BY <1>0, <2>3, <3>1, <3>2 DEF Listing
    <3>4. QED
      BY <1>a, <1>b, <2>1, <3>1, <3>3, OwnListing
  <2>4. QED
    BY <2>2, <2>3
<1>7. ASSUME NEW n \in Names, Enter(w, n) PROVE ListingInv'
  BY <1>0, <1>a, <1>7, EndListing DEF Enter
<1>8. CASE EndLookup(w)
  BY <1>a, <1>b, <1>8, EndListing DEF EndLookup
<1>9. CASE Forget(w)
  BY <1>0, <1>a, <1>9, EndListing DEF Forget
<1>10. CASE EndReaddir(w)
  <2> DEFINE q == [req[w] EXCEPT !.op = "listed", !.pc = "idle",
                                 !.kept = Merged(w)]
  <2>1. /\ req' = [req EXCEPT ![w] = q] /\ UNCHANGED node
        /\ req[w].pc = "match" /\ req[w].todo = {} /\ req[w].op = "readdir"
    BY <1>10 DEF EndReaddir, Decided
  <2>2. /\ q.op = "listed" /\ q.dirty = req[w].dirty
        /\ q.kept = req[w].kept \cup virtuals
    BY <1>0 DEF Request, Merged
  <2> HIDE DEF q
  <2>3. req'[w] = q
    BY <1>0, <2>1
  <2>4. ~req[w].dirty => \A n \in Names : n \in req[w].kept <=> Passes(w, n)
    BY <1>0, <2>1 DEF Listing, ListingSoFar
  <2>5. Listing(w)'
    BY <1>0, <1>a, <1>b, <2>1, <2>2, <2>3, <2>4 DEF Listing
  <2>6. QED
    BY <1>a, <1>b, <2>1, <2>5, OwnListing
<1>11. QED
  BY <1>1, <1>2, <1>3, <1>5, <1>6, <1>7, <1>8, <1>9, <1>10 DEF Walk

\* A listing of the root during which nothing changed has exactly the names that a
\* lookup there finds: the virtual files, and the real entries that the manifest
\* permits (fuse.go:110-201).
THEOREM ListingsAgree == Spec => []ListsWhatItFinds
<1>1. IInv /\ ListingInv /\ [Next]_vars => ListingInv'
  <2>1. UNCHANGED vars /\ ListingInv => ListingInv'
    BY DEF vars, ListingInv, Listing, ListingSoFar, Passes, Child, HasStore, AtRoot
  <2>2. ASSUME ListingInv, NEW w \in Walkers, NilPointer(w) PROVE ListingInv'
    BY <2>2 DEF NilPointer, ListingInv, Listing, ListingSoFar, Passes, Child, HasStore,
                AtRoot
  <2>3. QED
    BY <2>1, <2>2, AgentListing, WalkListing DEF Next, ReaddirBelow, LookupBelow
<1>2. Spec => []ListingInv
  BY <1>1, ListingInitial, Inductive, PTL DEF Spec
<1>3. IInv /\ ListingInv => ListsWhatItFinds
  <2> SUFFICES ASSUME IInv, ListingInv, NEW w \in Walkers, req[w].op = "listed", ~req[w].dirty
               PROVE  req[w].kept =
                        {n \in Names :
                           \/ n \in virtuals
                           \/ /\ Child(w, n) \in Real
                              /\ HasStore(w) => Permits(current, Child(w, n))}
    BY DEF ListsWhatItFinds
  <2>1. req[w].kept \subseteq Names
    BY DEF IInv, TypeOK, Request
  <2>2. \A n \in Names : n \in req[w].kept <=> n \in virtuals \/ Passes(w, n)
    BY DEF ListingInv, Listing
  <2>3. QED
    BY <2>1, <2>2 DEF Passes
<1>4. QED
  BY <1>2, <1>3, Inductive, PTL
-----------------------------------------------------------------------------
\* A set of numbers that is not empty has a least element: induction over lengths is
\* by the least counterexample.
LEMMA LeastNat ==
    ASSUME NEW T \in SUBSET Nat, T # {}
    PROVE  \E x \in T : \A y \in T : x <= y
<1> DEFINE R == OpToRel(<, Nat)
<1>1. IsWellFoundedOn(R, Nat)
  BY NatLessThanWellFounded
<1>2. \A x, y \in Nat : x < y => <<x, y>> \in R
  BY DEF OpToRel
<1> HIDE DEF R
<1>3. PICK x \in T : \A y \in T : ~ (<<y, x>> \in R)
  BY <1>1, WFMin
<1>4. ASSUME NEW y \in T PROVE x <= y
  <2>1. x \in Nat /\ y \in Nat
    OBVIOUS
  <2>2. ~(y < x)
    BY <1>2, <1>3, <2>1, Zenon
  <2>3. QED
    BY <2>1, <2>2
<1>5. QED
  BY <1>4

\* Without "**" the cuts of a pattern are one segment apart.
LEMMA CutIsIndex ==
    ASSUME NEW cut, NEW m \in Nat, cut[0] = 0,
           \A i \in 1..m : cut[i] = cut[i - 1] + 1
    PROVE  \A i \in 0..m : cut[i] = i
<1> DEFINE T == {i \in 0..m : cut[i] # i}
<1> SUFFICES ASSUME T # {} PROVE FALSE
  OBVIOUS
<1>1. T \in SUBSET Nat
  OBVIOUS
<1>2. PICK x \in T : \A y \in T : x <= y
  BY <1>1, LeastNat
<1>3. x \in 1..m /\ x - 1 \in 0..m /\ x - 1 \notin T
  BY <1>2
<1>4. cut[x - 1] = x - 1
  BY <1>3
<1>5. QED
  BY <1>2, <1>3, <1>4

\* A pattern without its last segment is a prefix of a path: what matchGlob tests
\* before a trailing wildcard.
LEMMA FrontIsPrefix ==
    ASSUME NEW pat \in Seq(Names \cup Wild) \ {<<>>}, NEW path \in Seq(Names)
    PROVE  IsPrefix(Front(pat), path) <=>
             /\ Len(pat) - 1 <= Len(path)
             /\ \A i \in 1..(Len(pat) - 1) : pat[i] = path[i]
<1> DEFINE n == Len(pat)
           l == Len(path)
           g == Front(pat)
<1>0. /\ n \in Nat \ {0} /\ l \in Nat /\ DOMAIN pat = 1..n
      /\ \A i \in 1..n : pat[i] \in Names \cup Wild
  OBVIOUS
<1>1. /\ g \in Seq(Names \cup Wild) /\ Len(g) = n - 1
      /\ \A i \in 1..(n - 1) : g[i] = pat[i]
  BY <1>0 DEF Front
<1> HIDE DEF g, n, l
<1>2. IsPrefix(g, path) <=> n - 1 <= l /\ SubSeq(g, 1, n - 1) = SubSeq(path, 1, n - 1)
  BY <1>0, <1>1 DEF IsPrefix, l
<1>3. ASSUME n - 1 <= l
      PROVE  SubSeq(g, 1, n - 1) = SubSeq(path, 1, n - 1) <=> \A i \in 1..(n - 1) : g[i] = path[i]
  BY <1>0, <1>1, <1>3 DEF l
<1>4. QED
  BY <1>1, <1>2, <1>3 DEF g, n, l

\* matchGlob against what a pattern denotes: case by its last segment.
LEMMA GlobDenotes ==
    ASSUME NEW pat \in Seq(Names \cup Wild) \ {<<>>}, NEW path \in Seq(Names) \ {Root},
           Supported(pat)
    PROVE  MatchGlob(pat, path) <=> Denotes(pat, path)
<1> DEFINE n == Len(pat)
           l == Len(path)
           Steps(cut, i) == IF pat[i] = "**" THEN cut[i] >= cut[i - 1]
                            ELSE cut[i] = cut[i - 1] + 1 /\ pat[i] \in {"*", path[cut[i]]}
<1>1. /\ n \in Nat \ {0} /\ l \in Nat \ {0} /\ DOMAIN pat = 1..n /\ DOMAIN path = 1..l
      /\ \A i \in 1..n : pat[i] \in Names \cup Wild
      /\ \A i \in 1..l : path[i] \in Names /\ path[i] \notin Wild
  BY NamesAssumption DEF Root
<1>2. pat = path <=> n = l /\ \A i \in 1..n : pat[i] = path[i]
  <2>1. path \in Seq(Names \cup Wild) /\ pat \in Seq(Names \cup Wild)
    OBVIOUS
  <2>2. QED
    BY <1>1, <2>1, SeqEqual
<1>3. IsPrefix(Front(pat), path) <=> n - 1 <= l /\ \A i \in 1..(n - 1) : pat[i] = path[i]
  BY FrontIsPrefix
<1>4. Denotes(pat, path) <=>
        \E cut \in [0..n -> 0..l] : cut[0] = 0 /\ cut[n] = l /\ \A i \in 1..n : Steps(cut, i)
  BY <1>1 DEF Denotes
<1>5. Last(pat) = pat[n]
  BY DEF Last
<1> HIDE DEF n, l
<1>6. CASE pat[n] = "**"
  <2>1. \A i \in 1..(n - 1) : pat[i] \notin Wild
    BY <1>5, <1>6 DEF Supported, Plain, Wild, n
  <2>2. MatchGlob(pat, path) <=> n - 1 <= l /\ \A i \in 1..(n - 1) : pat[i] = path[i]
    BY <1>1, <1>2, <1>3, <1>5, <1>6 DEF MatchGlob, Wild
  <2>3. ASSUME n - 1 <= l, \A i \in 1..(n - 1) : pat[i] = path[i] PROVE Denotes(pat, path)
    <3> DEFINE cut == [i \in 0..n |-> IF i < n THEN i ELSE l]
    <3>1. cut \in [0..n -> 0..l] /\ cut[0] = 0 /\ cut[n] = l
      BY <1>1, <2>3
    <3>2. \A i \in 1..n : Steps(cut, i)
      BY <1>1, <1>6, <2>1, <2>3 DEF Wild
    <3>3. QED
      BY <1>4, <3>1, <3>2
  <2>4. ASSUME Denotes(pat, path) PROVE n - 1 <= l /\ \A i \in 1..(n - 1) : pat[i] = path[i]
    <3>1. PICK cut \in [0..n -> 0..l] : cut[0] = 0 /\ cut[n] = l /\ \A i \in 1..n : Steps(cut, i)
      BY <1>4, <2>4
    <3>2. \A i \in 1..(n - 1) : cut[i] = cut[i - 1] + 1 /\ pat[i] = path[cut[i]]
      BY <1>1, <2>1, <3>1 DEF Wild
    <3>3. n - 1 \in Nat /\ cut[0] = 0 /\ \A i \in 1..(n - 1) : cut[i] = cut[i - 1] + 1
      BY <1>1, <3>1, <3>2
    <3>4. \A i \in 0..(n - 1) : cut[i] = i
      BY <3>3, CutIsIndex
    <3>5. n - 1 <= l
      <4>1. cut[n - 1] = n - 1 /\ cut[n - 1] \in 0..l
        BY <1>1, <3>1, <3>4
      <4>2. QED
        BY <1>1, <4>1
    <3>6. \A i \in 1..(n - 1) : pat[i] = path[i]
      <4>1. \A i \in 1..(n - 1) : cut[i] = i
        BY <1>1, <3>4
      <4>2. QED
        BY <3>2, <4>1
    <3>7. QED
      BY <3>5, <3>6
  <2>5. QED
    BY <2>2, <2>3, <2>4
<1>7. ASSUME \A i \in 1..n : pat[i] # "**"
      PROVE  Denotes(pat, path) <=> n = l /\ \A i \in 1..n : pat[i] \in {"*", path[i]}
  <2>1. ASSUME n = l, \A i \in 1..n : pat[i] \in {"*", path[i]} PROVE Denotes(pat, path)
    <3> DEFINE cut == [i \in 0..n |-> i]
    <3>1. cut \in [0..n -> 0..l] /\ cut[0] = 0 /\ cut[n] = l
      BY <1>1, <2>1
    <3>2. \A i \in 1..n : Steps(cut, i)
      BY <1>1, <1>7, <2>1
    <3>3. QED
      BY <1>4, <3>1, <3>2
  <2>2. ASSUME Denotes(pat, path) PROVE n = l /\ \A i \in 1..n : pat[i] \in {"*", path[i]}
    <3>1. PICK cut \in [0..n -> 0..l] : cut[0] = 0 /\ cut[n] = l /\ \A i \in 1..n : Steps(cut, i)
      BY <1>4, <2>2
    <3>2. \A i \in 1..n : cut[i] = cut[i - 1] + 1 /\ pat[i] \in {"*", path[cut[i]]}
      BY <1>7, <3>1
    <3>3. \A i \in 0..n : cut[i] = i
      BY <1>1, <3>1, <3>2, CutIsIndex
    <3>4. cut[n] = n /\ \A i \in 1..n : cut[i] = i
      BY <1>1, <3>3
    <3>5. QED
      BY <3>1, <3>2, <3>4
  <2>3. QED
    BY <2>1, <2>2
<1>8. CASE pat[n] = "*"
  <2>1. \A i \in 1..(n - 1) : pat[i] \notin Wild
    BY <1>5, <1>8 DEF Supported, Plain, Wild, n
  <2>2. \A i \in 1..n : pat[i] # "**"
    BY <1>1, <1>8, <2>1 DEF Wild
  <2>3. MatchGlob(pat, path) <=> n = l /\ \A i \in 1..(n - 1) : pat[i] = path[i]
    <3>1. MatchGlob(pat, path) <=> pat = path \/ (IsPrefix(Front(pat), path) /\ l = n)
      BY <1>5, <1>8 DEF MatchGlob, n, l
    <3>2. n - 1 <= n /\ \A i \in 1..(n - 1) : i \in 1..n
      BY <1>1
    <3>3. QED
      BY <1>2, <1>3, <3>1, <3>2
  <2>4. (\A i \in 1..(n - 1) : pat[i] = path[i]) <=> \A i \in 1..n : pat[i] \in {"*", path[i]}
    BY <1>1, <1>8, <2>1 DEF Wild
  <2>5. QED
    BY <1>7, <2>2, <2>3, <2>4
<1>9. CASE pat[n] \notin Wild
  <2>1. \A i \in 1..n : pat[i] # "**"
    BY <1>1, <1>5, <1>9 DEF Supported, Plain, Wild, n
  <2>2. MatchGlob(pat, path) <=> n = l /\ \A i \in 1..n : pat[i] \in {path[i]} \cup Wild
    BY <1>1, <1>2, <1>5, <1>9 DEF MatchGlob, Wild, n, l
  <2>3. QED
    BY <1>7, <2>1, <2>2 DEF Wild
<1>10. QED
  BY <1>6, <1>8, <1>9 DEF Wild

\* matchGlob computes what a supported pattern denotes, for patterns and paths of any
\* length, whatever manifest is pushed (manifest.go:160-193).
THEOREM GlobsComputed == Spec => []GlobsMatch
<1>1. TypeOK => GlobsMatch
  <2> SUFFICES ASSUME TypeOK, current # NoManifest, NEW pat \in current, NEW path \in Real,
                      Supported(pat)
               PROVE  MatchGlob(pat, path) <=> Denotes(pat, path)
    BY DEF GlobsMatch
  <2>1. current \in Manifests
    BY DEF TypeOK
  <2>2. pat \in Seq(Names \cup Wild) \ {<<>>}
    BY <2>1, PatternsAssumption
  <2>3. path \in Seq(Names) \ {Root}
    BY TreeAssumption DEF Real
  <2>4. QED
    BY <2>2, <2>3, GlobDenotes
<1>2. QED
  BY <1>1, TypeCorrect, PTL

\* A pattern that agrees with a path in its first k segments and goes on leads to them.
LEMMA AgreeLeads ==
    ASSUME NEW pat \in Seq(Names \cup Wild), NEW path \in Seq(Names),
           NEW k \in 1..Len(path), k < Len(pat), \A i \in 1..k : pat[i] = path[i]
    PROVE  IsStrictPrefix(SubSeq(path, 1, k), pat)
<1> DEFINE s == SubSeq(path, 1, k)
<1>1. s \in Seq(Names) /\ Len(s) = k /\ \A i \in 1..k : s[i] = path[i]
  OBVIOUS
<1> HIDE DEF s
<1>2. s # pat
  BY <1>1
<1>3. SubSeq(s, 1, k) = SubSeq(pat, 1, k)
  BY <1>1
<1>4. IsPrefix(s, pat)
  BY <1>1, <1>3 DEF IsPrefix
<1>5. QED
  BY <1>2, <1>4 DEF IsStrictPrefix, s

\* Whatever a plain pattern matches, every directory above it is matched too, or is
\* the beginning of the pattern: case by the pattern's last segment.
LEMMA WayIn ==
    ASSUME NEW pat \in Seq(Names \cup Wild) \ {<<>>}, NEW path \in Seq(Names) \ {Root},
           Plain(pat), MatchGlob(pat, path), NEW k \in 1..(Len(path) - 1)
    PROVE  MatchGlob(pat, SubSeq(path, 1, k)) \/ IsStrictPrefix(SubSeq(path, 1, k), pat)
<1> DEFINE n == Len(pat)
           l == Len(path)
           s == SubSeq(path, 1, k)
<1>1. n \in Nat \ {0} /\ l \in Nat \ {0} /\ k \in 1..l /\ k < l /\ DOMAIN pat = 1..n
  BY DEF Root
<1>2. s \in Seq(Names) /\ Len(s) = k /\ \A i \in 1..k : s[i] = path[i]
  OBVIOUS
<1>3. /\ \A i \in 1..(n - 1) : pat[i] \notin Wild
      /\ Last(pat) = pat[n]
  BY DEF Plain, Last
<1> HIDE DEF n, l, s
<1>4. ASSUME k < n, \A i \in 1..k : pat[i] = path[i] PROVE IsStrictPrefix(s, pat)
  BY <1>1, <1>4, AgreeLeads DEF n, l, s
<1>5. CASE pat = path
  BY <1>1, <1>4, <1>5 DEF n, l, s
<1>6. CASE pat # path /\ pat[n] = "**"
  <2>1. IsPrefix(Front(pat), path)
    BY <1>3, <1>6 DEF MatchGlob
  <2>2. \A i \in 1..(n - 1) : pat[i] = path[i]
    BY <2>1, FrontIsPrefix DEF n
  <2>3. CASE k < n - 1
    BY <1>1, <1>4, <2>2, <2>3 DEF s
  <2>4. CASE n - 1 <= k
    <3>1. \A i \in 1..(n - 1) : pat[i] = s[i]
      BY <1>1, <1>2, <2>2, <2>4
    <3>2. IsPrefix(Front(pat), s)
      BY <1>2, <2>4, <3>1, FrontIsPrefix DEF n
    <3>3. QED
      BY <1>3, <1>6, <3>2 DEF MatchGlob, s
  <2>5. QED
    BY <1>1, <2>3, <2>4
<1>7. CASE pat # path /\ pat[n] = "*"
  <2>1. IsPrefix(Front(pat), path) /\ l = n
    BY <1>3, <1>7 DEF MatchGlob, l, n
  <2>2. \A i \in 1..(n - 1) : pat[i] = path[i]
    BY <2>1, FrontIsPrefix DEF n
  <2>3. QED
    BY <1>1, <1>4, <2>1, <2>2 DEF s
<1>8. CASE pat # path /\ pat[n] \notin Wild
  <2>1. l = n /\ \A i \in 1..n : pat[i] \in {path[i]} \cup Wild
    BY <1>1, <1>3, <1>8 DEF MatchGlob, Wild, n, l
  <2>2. \A i \in 1..(n - 1) : pat[i] = path[i]
    BY <1>1, <1>3, <2>1
  <2>3. QED
    BY <1>1, <1>4, <2>1, <2>2 DEF s
<1>9. QED
  BY <1>5, <1>6, <1>7, <1>8 DEF Wild

\* The policy lets every directory on the way to a path that a plain pattern allows
\* pass, for patterns and paths of any length and whatever is pushed (fuse.go:275-299).
THEOREM WaysIn == Spec => []Traversable
<1>1. TypeOK => Traversable
  <2> SUFFICES ASSUME TypeOK, current # NoManifest, NEW path \in Real,
                      NEW pat \in current, Plain(pat), MatchGlob(pat, path),
                      NEW k \in 1..(Len(path) - 1)
               PROVE  Permits(current, SubSeq(path, 1, k))
    BY DEF Traversable
  <2>1. current \in Manifests
    BY DEF TypeOK
  <2>2. pat \in Seq(Names \cup Wild) \ {<<>>}
    BY <2>1, PatternsAssumption
  <2>3. path \in Seq(Names) \ {Root}
    BY TreeAssumption DEF Real
  <2>4. MatchGlob(pat, SubSeq(path, 1, k)) \/ IsStrictPrefix(SubSeq(path, 1, k), pat)
    BY <2>2, <2>3, WayIn
  <2>5. QED
    BY <2>4 DEF Permits, IsPathAllowed, LeadsTo
<1>2. QED
  BY <1>1, TypeCorrect, PTL
=============================================================================
