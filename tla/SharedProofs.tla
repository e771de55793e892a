----------------------------- MODULE SharedProofs ----------------------------
(***************************************************************************)
(* Proofs about what the services share: the cache in front of object     *)
(* storage, the header of a layered file, the multipart upload, the       *)
(* cache in redis, the sandbox catalog, the semaphore, the connection     *)
(* limiter and the proxy's pool.                                          *)
(*                                                                         *)
(* Every part is proved alone, from its own initial state and next-state  *)
(* relation; MCStorage and MCShared take their steps one part at a time.  *)
(* The types of the flags are left out of the inductive invariants where  *)
(* nothing depends on them.                                               *)
(***************************************************************************)
EXTENDS ChunkCache, Header, Multipart, RedisCache, Catalog, Semaphore, ConnLimiter, ProxyPool,
        FiniteSetTheorems, SequenceTheorems, WellFoundedInduction, TLAPS

-----------------------------------------------------------------------------
\* The cache of a chunk (ChunkCache).  ReadsAreWhole and CopyUnderName say where
\* the content of the cached file can come from; FileIsWhole is HitsAreRight without the
\* reader; OwnersHaveLock says that before any lock is old the lock file is its owner's.

Asking == {"fetch", "open"}
Ops == [pc : AtRest \cup Asking \cup {"stat", "remove", "create"} \cup Owning, data : Content]

\* TypeOK but for the flags.
CacheShape ==
    /\ length \in 1..ChunkSize /\ lockBy \in Nodes \cup {NoOne}
    /\ op \in [Nodes -> Ops]
    /\ builder \in [pc : {"idle", "copy", "done", "crashed"}, n : 0..ChunkSize, named : BOOLEAN]

\* Before any lock is old or deleted, nobody removes one, and an owner's is the one there.
OwnersHaveLock ==
    ~aged => /\ ~lockOld
             /\ \A w \in Nodes : /\ op[w].pc # "remove"
                                 /\ op[w].pc \in Owning => lockBy = w

\* The cached file that went last found the object deleted and nobody at work.
CleanMeansQuiet == clean => remote = "deleted" /\ \A w \in Nodes : op[w].pc \in AtRest

\* What an operation asks for is the whole chunk or more, as long as nobody asked for less;
\* what it writes back is the whole chunk, as long as no answer or temporary file was torn.
AsksForWhole(r) ==
    r.pc \in Asking => /\ r.data \in (0..ChunkSize) \X (0..ChunkSize)
                       /\ ~partial => r.data[1] = 0 /\ length <= r.data[2]
WritesWhole(r) == ~partial /\ ~torn /\ r.pc \notin AtRest \cup Asking => r.data = Whole
ReadsAreWhole == \A w \in Nodes : AsksForWhole(op[w]) /\ WritesWhole(op[w])

\* StoreFile has more to copy until it is done, and what it copied is under the name.
CopyUnderName ==
    builder.pc = "copy" => /\ builder.n < length
                           /\ builder.named => final = <<0, builder.n>>

FileIsWhole ==
    final # NoFile /\ ~partial /\ ~torn /\ builder.pc # "crashed"
        /\ ~(builder.pc = "copy" /\ builder.named)
        => final = Whole

CacheInv ==
    /\ CacheShape /\ OwnersHaveLock /\ LockLeftMeansCrash /\ CleanMeansQuiet /\ DeletedStaysGone
    /\ ReadsAreWhole /\ CopyUnderName /\ FileIsWhole

\* The invariant holds of an empty cache.
LEMMA CacheInitial == Init => CacheInv
<1> SUFFICES ASSUME Init PROVE CacheInv
  OBVIOUS
<1>1. CacheShape
  BY ChunkAssumption DEF Init, CacheShape, Ops, AtRest, Owning, Content
<1>2. OwnersHaveLock /\ LockLeftMeansCrash /\ CleanMeansQuiet /\ DeletedStaysGone
  BY DEF Init, OwnersHaveLock, LockLeftMeansCrash, CleanMeansQuiet, DeletedStaysGone, Owning, AtRest
<1>3. ReadsAreWhole /\ CopyUnderName /\ FileIsWhole
  BY DEF Init, ReadsAreWhole, AsksForWhole, WritesWhole, CopyUnderName, FileIsWhole, AtRest, Asking
<1>4. QED
  BY <1>1, <1>2, <1>3 DEF CacheInv

\* Nothing changes the object's length.
LEMMA WholeStays == ASSUME [Next]_vars PROVE length' = length /\ Whole' = Whole
<1>1. length' = length
  BY DEF Next, vars, Start, Return, Step, Builder, Delete, ReadAt, ReadAtReturns, OpenRangeReader,
     CloseReader, WriteTo, Size, Fetched, Put, StoreSize, Stat, RemoveStale, Create, WriteTemp,
     RenameOrDelete, ReleaseLock, Crash, LockAges, RemoteStores, BuilderOpens, BuilderCopies,
     BuilderFails, BuilderCrashes, DeleteObjects, DeleteRemote, DeleteFile, DeleteLock
<1>2. QED
  BY <1>1 DEF Whole

\* An operation that goes on to r, or another step, leaves ReadsAreWhole when r is right
\* and the flags only rise.
LEMMA ReadsStay ==
    ASSUME CacheInv, [Next]_vars, NEW w \in Nodes, NEW r,
           op' = [op EXCEPT ![w] = r], AsksForWhole(r)', WritesWhole(r)',
           partial => partial', torn => torn'
    PROVE  ReadsAreWhole'
<1>1. op'[w] = r /\ \A v \in Nodes \ {w} : op'[v] = op[v]
  BY DEF CacheInv, CacheShape
<1>2. ASSUME NEW v \in Nodes \ {w} PROVE AsksForWhole(op[v])' /\ WritesWhole(op[v])'
  BY <1>1, <1>2, WholeStays DEF CacheInv, ReadsAreWhole, AsksForWhole, WritesWhole
<1>3. AsksForWhole(op[w])' /\ WritesWhole(op[w])'
  BY <1>1 DEF AsksForWhole, WritesWhole
<1>4. QED
  BY <1>2, <1>3 DEF ReadsAreWhole

\* A step of one operation that touches neither the cached file nor the lock file preserves
\* the invariant, when it makes no owner, ends none but by a crash, and begins nothing once
\* the object is deleted.
LEMMA MoveKeeps ==
    ASSUME CacheInv, [Next]_vars, NEW w \in Nodes, NEW r \in Ops,
           op' = [op EXCEPT ![w] = r], AsksForWhole(r)', WritesWhole(r)',
           partial => partial', torn => torn',
           UNCHANGED <<remote, final, lockBy, lockOld, builder, clean, aged>>,
           r.pc \in Owning => op[w].pc \in Owning,
           r.pc = "remove" => lockOld \/ op[w].pc = "remove",
           op[w].pc \in Owning => r.pc \in Owning \cup {"crashed"},
           op[w].pc \in AtRest => op[w].pc = "idle" /\ remote # "deleted"
    PROVE  CacheInv'
<1>1. op'[w] = r /\ \A v \in Nodes \ {w} : op'[v] = op[v]
  BY DEF CacheInv, CacheShape
<1>2. CacheShape'
  BY WholeStays DEF CacheInv, CacheShape
<1>3. OwnersHaveLock'
  BY <1>1 DEF CacheInv, OwnersHaveLock
<1>4. LockLeftMeansCrash'
  BY <1>1, NodesAssumption DEF CacheInv, CacheShape, LockLeftMeansCrash, Owning, AtRest
<1>5. CleanMeansQuiet'
  BY <1>1 DEF CacheInv, CleanMeansQuiet
<1>6. ReadsAreWhole'
  BY ReadsStay
<1>7. DeletedStaysGone' /\ CopyUnderName' /\ FileIsWhole'
  BY WholeStays DEF CacheInv, DeletedStaysGone, CopyUnderName, FileIsWhole
<1>8. QED
  BY <1>2, <1>3, <1>4, <1>5, <1>6, <1>7 DEF CacheInv

\* Where an operation can be and what it carries.
LEMMA OpTyped == ASSUME CacheInv, NEW w \in Nodes PROVE op[w] \in Ops
BY DEF CacheInv, CacheShape

\* To changes the pc alone.
LEMMA ToMoves ==
    ASSUME CacheInv, NEW w \in Nodes, NEW pc, To(w, pc)
    PROVE  \E data \in Content : /\ data = op[w].data
                                 /\ op' = [op EXCEPT ![w] = [pc |-> pc, data |-> data]]
<1>1. op[w] = [pc |-> op[w].pc, data |-> op[w].data]
  BY OpTyped DEF Ops
<1>2. [op[w] EXCEPT !.pc = pc] = [pc |-> pc, data |-> op[w].data]
  BY <1>1
<1>3. op[w].data \in Content
  BY OpTyped DEF Ops
<1>4. QED
  BY <1>2, <1>3 DEF To

\* Going on without touching what was read keeps it right.
LEMMA GoesOn ==
    ASSUME CacheInv, [Next]_vars, NEW w \in Nodes,
           NEW pc \in {"stat", "remove", "create"} \cup Owning,
           NEW data \in Content, data = op[w].data,
           op[w].pc \in {"stat", "remove", "create"} \cup Owning, partial => partial', torn => torn'
    PROVE  /\ [pc |-> pc, data |-> data] \in Ops
           /\ AsksForWhole([pc |-> pc, data |-> data])' /\ WritesWhole([pc |-> pc, data |-> data])'
<1> DEFINE r == [pc |-> pc, data |-> data]
<1>1. r \in Ops
  BY DEF Ops
<1>2. AsksForWhole(r)'
  BY DEF AsksForWhole, Asking, Owning
<1>3. WritesWhole(r)'
  <2>1. op[w].pc \notin AtRest \cup Asking
    BY DEF AtRest, Asking, Owning
  <2>2. ~partial /\ ~torn => data = Whole
    BY <2>1 DEF CacheInv, ReadsAreWhole, WritesWhole
  <2>3. QED
    BY <2>2, WholeStays DEF WritesWhole
<1>4. QED
  BY <1>1, <1>2, <1>3

\* An operation at rest carries nothing that could be wrong.
LEMMA AtRestIsRight ==
    ASSUME CacheInv, NEW pc \in AtRest
    PROVE  LET r == [pc |-> pc, data |-> NoFile] IN
           r \in Ops /\ AsksForWhole(r)' /\ WritesWhole(r)'
BY DEF Ops, AsksForWhole, WritesWhole, AtRest, Asking, Content

\* An operation other than an owner ends, or an owner's machine dies.
LEMMA EndsKeeps ==
    ASSUME CacheInv, [Next]_vars, NEW w \in Nodes, NEW pc \in {"done", "crashed"},
           Ends(w, pc), op[w].pc \notin AtRest, op[w].pc \in Owning => pc = "crashed",
           partial => partial', torn => torn',
           UNCHANGED <<remote, final, lockBy, lockOld, builder, clean, aged>>
    PROVE  CacheInv'
<1> DEFINE r == [pc |-> pc, data |-> NoFile]
<1>1. r \in Ops /\ AsksForWhole(r)' /\ WritesWhole(r)'
  BY AtRestIsRight DEF AtRest
<1>2. op' = [op EXCEPT ![w] = r]
  BY DEF Ends
<1>3. r.pc \notin Owning /\ r.pc # "remove"
  BY DEF Owning
<1>4. op[w].pc \in Owning => r.pc \in Owning \cup {"crashed"}
  OBVIOUS
<1> HIDE DEF r
<1>5. QED
  BY <1>1, <1>2, <1>3, <1>4, MoveKeeps

\* What was read is written back: the whole chunk, unless a flag says otherwise.
LEMMA WriteBackKeeps ==
    ASSUME CacheInv, [Next]_vars, NEW w \in Nodes, NEW data \in Content, WriteBack(w, data),
           op[w].pc \in Asking \cup {"idle"}, op[w].pc = "idle" => remote # "deleted",
           ~partial' /\ ~torn' => data = Whole,
           partial => partial', torn => torn',
           UNCHANGED <<remote, final, lockBy, lockOld, builder, clean, aged>>
    PROVE  CacheInv'
<1> DEFINE r == [pc |-> "stat", data |-> data]
<1>1. r \in Ops /\ AsksForWhole(r)' /\ r.pc \notin Owning /\ r.pc # "remove"
  BY DEF Ops, AsksForWhole, Asking, Owning
<1>2. WritesWhole(r)'
  BY WholeStays DEF WritesWhole
<1>3. op' = [op EXCEPT ![w] = r]
  BY DEF WriteBack
<1>4. op[w].pc \notin Owning /\ (op[w].pc \in AtRest => op[w].pc = "idle" /\ remote # "deleted")
  BY DEF Owning, AtRest, Asking
<1> HIDE DEF r
<1>5. QED
  BY <1>1, <1>2, <1>3, <1>4, MoveKeeps

\* A miss asks the remote storage, for the whole chunk unless partial says otherwise.
LEMMA AsksKeeps ==
    ASSUME CacheInv, [Next]_vars, NEW w \in Nodes, NEW pc \in Asking,
           NEW from \in 0..ChunkSize, NEW len \in 0..ChunkSize,
           Misses(w), Asks(w, pc, from, len), ~partial' => from = 0 /\ length <= len,
           partial => partial', torn => torn',
           UNCHANGED <<remote, final, lockBy, lockOld, builder, clean, aged>>
    PROVE  CacheInv'
<1> DEFINE r == [pc |-> pc, data |-> <<from, len>>]
<1>1. r \in Ops /\ WritesWhole(r)' /\ r.pc \notin Owning /\ r.pc # "remove"
  BY DEF Ops, WritesWhole, Asking, Owning, Content
<1>2. AsksForWhole(r)'
  BY WholeStays DEF AsksForWhole
<1>3. op' = [op EXCEPT ![w] = r]
  BY DEF Asks
<1>4. op[w].pc \notin Owning /\ op[w].pc = "idle" /\ remote # "deleted"
  BY DEF Misses, Owning
<1> HIDE DEF r
<1>5. QED
  BY <1>1, <1>2, <1>3, <1>4, MoveKeeps

\* An answer of the remote storage.
LEMMA ReturnKeeps == ASSUME CacheInv, [Next]_vars, NEW w \in Nodes, Return(w) PROVE CacheInv'
<1>0. /\ length \in 1..ChunkSize /\ ChunkSize \in Nat /\ Whole \in Content
      /\ AsksForWhole(op[w])
  BY ChunkAssumption DEF CacheInv, CacheShape, Whole, Content, ReadsAreWhole
<1>1. ASSUME NEW n \in 0..ChunkSize, NEW eof \in BOOLEAN, ReadAtReturns(w, n, eof)
      PROVE  CacheInv'
  <2> DEFINE len == op[w].data[2]
             all == Smaller(len, length)
  <2>1. /\ op[w].pc = "fetch" /\ n <= all /\ partial' = partial
        /\ UNCHANGED <<remote, final, lockBy, lockOld, builder, clean, aged>>
        /\ torn' = (torn \/ (eof /\ 0 < n /\ n < all))
        /\ IF IsCompleteRead(n, len, eof) THEN WriteBack(w, <<0, n>>) ELSE Ends(w, "done")
    BY <1>1, Zenon DEF ReadAtReturns, cacheVars
  <2>2. len \in 0..ChunkSize /\ (~partial => length <= len)
    BY <1>0, <2>1 DEF AsksForWhole, Asking
  <2>3. op[w].pc \in Asking /\ op[w].pc \notin AtRest /\ op[w].pc \notin Owning
    BY <2>1 DEF Asking, AtRest, Owning
  <2>4. CASE IsCompleteRead(n, len, eof)
    <3>1. <<0, n>> \in Content
      BY <1>0 DEF Content
    <3>2. ASSUME ~partial', ~torn' PROVE <<0, n>> = Whole
      <4>1. ~(eof /\ 0 < n /\ n < all) /\ all = length
        BY <1>0, <2>1, <2>2, <3>2 DEF Smaller
      <4>2. n = length
        BY <1>0, <2>1, <2>2, <2>4, <3>2, <4>1 DEF IsCompleteRead
      <4>3. QED
        BY <4>2 DEF Whole
    <3>3. WriteBack(w, <<0, n>>)
      BY <2>1, <2>4
    <3>4. op[w].pc # "idle" /\ (torn => torn')
      BY <2>1
    <3> HIDE DEF len, all
    <3>5. QED
      BY <2>1, <2>3, <3>1, <3>2, <3>3, <3>4, WriteBackKeeps
  <2>5. CASE ~IsCompleteRead(n, len, eof)
    <3>1. Ends(w, "done") /\ (torn => torn')
      BY <2>1, <2>5
    <3> HIDE DEF len, all
    <3>2. QED
      BY <2>1, <2>3, <3>1, EndsKeeps
  <2>6. QED
    BY <2>4, <2>5
<1>2. ASSUME NEW n \in 0..ChunkSize, CloseReader(w, n) PROVE CacheInv'
  <2> DEFINE from == op[w].data[1]
             len == op[w].data[2]
  <2>1. /\ op[w].pc = "open" /\ n <= Smaller(len, length - from) /\ UNCHANGED <<partial, torn>>
        /\ UNCHANGED <<remote, final, lockBy, lockOld, builder, clean, aged>>
        /\ IF n > 0 /\ n = len THEN WriteBack(w, <<from, n>>) ELSE Ends(w, "done")
    BY <1>2, Zenon DEF CloseReader, cacheVars
  <2>2. from \in 0..ChunkSize /\ len \in 0..ChunkSize /\ (~partial => from = 0 /\ length <= len)
    BY <1>0, <2>1 DEF AsksForWhole, Asking
  <2>3. op[w].pc \in Asking /\ op[w].pc \notin AtRest /\ op[w].pc \notin Owning
    BY <2>1 DEF Asking, AtRest, Owning
  <2>4. CASE n > 0 /\ n = len
    <3>1. <<from, n>> \in Content
      BY <2>2 DEF Content
    <3>2. ASSUME ~partial' PROVE <<from, n>> = Whole
      <4>1. from = 0 /\ length <= len /\ Smaller(len, length - from) = length
        BY <1>0, <2>1, <2>2, <3>2 DEF Smaller
      <4>2. n = length
        BY <1>0, <2>1, <2>2, <2>4, <4>1
      <4>3. QED
        BY <4>1, <4>2 DEF Whole
    <3>3. WriteBack(w, <<from, n>>)
      BY <2>1, <2>4
    <3>4. op[w].pc # "idle"
      BY <2>1
    <3> HIDE DEF from, len
    <3>5. QED
      BY <2>1, <2>3, <3>1, <3>2, <3>3, <3>4, WriteBackKeeps
  <2>5. CASE ~(n > 0 /\ n = len)
    <3>1. Ends(w, "done")
      BY <2>1, <2>5
    <3> HIDE DEF from, len
    <3>2. QED
      BY <2>1, <2>3, <3>1, EndsKeeps
  <2>6. QED
    BY <2>4, <2>5
<1>3. CASE Fetched(w)
  <2>1. /\ op[w].pc \in Asking /\ op[w].pc \notin AtRest /\ op[w].pc \notin Owning
        /\ op[w].pc # "idle"
    BY <1>3 DEF Fetched, Asking, AtRest, Owning
  <2>2. UNCHANGED <<remote, final, lockBy, lockOld, builder, clean, aged, partial, torn>>
    BY <1>3 DEF Fetched, cacheVars
  <2>3. CASE WriteBack(w, Whole)
    BY <1>0, <2>1, <2>2, <2>3, WriteBackKeeps
  <2>4. CASE Ends(w, "done")
    BY <2>1, <2>2, <2>4, EndsKeeps
  <2>5. QED
    BY <1>3, <2>3, <2>4 DEF Fetched
<1>4. QED
  BY <1>1, <1>2, <1>3 DEF Return

\* The beginning of an operation.
LEMMA StartKeeps == ASSUME CacheInv, [Next]_vars, NEW w \in Nodes, Start(w) PROVE CacheInv'
<1>0. /\ length \in 1..ChunkSize /\ ChunkSize \in Nat /\ Whole \in Content
  BY ChunkAssumption DEF CacheInv, CacheShape, Whole, Content
<1>1. ASSUME NEW len \in 1..ChunkSize, ReadAt(w, len) PROVE CacheInv'
  <2>1. /\ Misses(w) /\ Asks(w, "fetch", 0, len) /\ partial' = (partial \/ len < length)
        /\ UNCHANGED <<remote, final, lockBy, lockOld, builder, clean, aged, torn>>
    BY <1>1, Zenon DEF ReadAt, cacheVars
  <2>2. (partial => partial') /\ (~partial' => length <= len)
    <3>1. (partial => partial') /\ (~partial' => ~(len < length))
      BY <2>1, Zenon
    <3>2. QED
      BY <1>0, <3>1
  <2>3. "fetch" \in Asking /\ 0 \in 0..ChunkSize /\ len \in 0..ChunkSize
    BY <1>0 DEF Asking
  <2>4. QED
    BY <2>1, <2>2, <2>3, AsksKeeps
<1>2. ASSUME NEW from \in 0..ChunkSize - 1, NEW len \in 1..ChunkSize, OpenRangeReader(w, from, len)
      PROVE  CacheInv'
  <2>1. /\ Misses(w) /\ Asks(w, "open", from, len)
        /\ partial' = (partial \/ from > 0 \/ len < length)
        /\ UNCHANGED <<remote, final, lockBy, lockOld, builder, clean, aged, torn>>
    BY <1>2, Zenon DEF OpenRangeReader, cacheVars
  <2>2. (partial => partial') /\ (~partial' => from = 0 /\ length <= len)
    <3>1. (partial => partial') /\ (~partial' => ~(from > 0) /\ ~(len < length))
      BY <2>1, Zenon
    <3>2. QED
      BY <1>0, <3>1
  <2>3. "open" \in Asking /\ from \in 0..ChunkSize /\ len \in 0..ChunkSize
    BY <1>0 DEF Asking
  <2>4. QED
    BY <2>1, <2>2, <2>3, AsksKeeps
<1>3. CASE WriteTo(w) \/ Size(w)
  <2>1. /\ Misses(w) /\ Asks(w, "fetch", 0, length)
        /\ UNCHANGED <<remote, final, lockBy, lockOld, builder, clean, aged, partial, torn>>
    BY <1>3 DEF WriteTo, Size, cacheVars
  <2>2. "fetch" \in Asking /\ 0 \in 0..ChunkSize /\ length \in 0..ChunkSize /\ length <= length
    BY <1>0 DEF Asking
  <2>3. QED
    BY <2>1, <2>2, AsksKeeps
<1>4. CASE Put(w) \/ StoreSize(w)
  <2>1. /\ op[w].pc = "idle" /\ remote # "deleted" /\ WriteBack(w, Whole)
        /\ UNCHANGED <<remote, final, lockBy, lockOld, builder, clean, aged, partial, torn>>
    BY <1>4 DEF Put, StoreSize, cacheVars
  <2>2. QED
    BY <1>0, <2>1, WriteBackKeeps
<1>5. QED
  BY <1>1, <1>2, <1>3, <1>4 DEF Start

\* The steps of an operation that touch neither the cached file nor the lock file.
LEMMA StepKeeps ==
    ASSUME CacheInv, [Next]_vars, NEW w \in Nodes, Stat(w) \/ WriteTemp(w) \/ Crash(w)
    PROVE  CacheInv'
<1>0. /\ UNCHANGED <<remote, final, lockBy, lockOld, builder, clean, aged, partial>>
      /\ torn => torn'
  BY DEF Stat, WriteTemp, Crash, cacheVars
<1>1. ASSUME NEW pc \in {"remove", "create", "link", "release"},
             NEW data \in Content, op' = [op EXCEPT ![w] = [pc |-> pc, data |-> data]],
             WritesWhole([pc |-> pc, data |-> data])',
             \/ op[w].pc = "stat" /\ pc \in {"remove", "create"} /\ (pc = "remove" => lockOld)
             \/ op[w].pc = "write" /\ pc \in {"link", "release"}
      PROVE  CacheInv'
  <2> DEFINE r == [pc |-> pc, data |-> data]
  <2>1. r \in Ops /\ AsksForWhole(r)'
    BY DEF Ops, AsksForWhole, Owning, Asking
  <2>2. /\ r.pc \in Owning => op[w].pc \in Owning
        /\ r.pc = "remove" => lockOld
        /\ op[w].pc \in Owning => r.pc \in Owning
        /\ op[w].pc \notin AtRest
    BY <1>1 DEF Owning, AtRest
  <2>3. op' = [op EXCEPT ![w] = r] /\ WritesWhole(r)'
    BY <1>1
  <2> HIDE DEF r
  <2>4. QED
    BY <1>0, <2>1, <2>2, <2>3, MoveKeeps
<1>2. ASSUME NEW pc, To(w, pc),
             \/ op[w].pc = "stat" /\ pc \in {"remove", "create"} /\ (pc = "remove" => lockOld)
             \/ op[w].pc = "write" /\ pc \in {"link", "release"}
      PROVE  CacheInv'
  <2>1. /\ pc \in {"stat", "remove", "create"} \cup Owning
        /\ op[w].pc \in {"stat", "remove", "create"} \cup Owning
        /\ pc \in {"remove", "create", "link", "release"}
    BY <1>2 DEF Owning
  <2>2. PICK data \in Content : /\ data = op[w].data
                                /\ op' = [op EXCEPT ![w] = [pc |-> pc, data |-> data]]
    BY <1>2, ToMoves
  <2>3. WritesWhole([pc |-> pc, data |-> data])'
    BY <1>0, <2>1, <2>2, GoesOn
  <2>4. QED
    BY <1>1, <1>2, <2>1, <2>2, <2>3
<1>3. CASE Stat(w)
  <2>1. op[w].pc = "stat" /\ op[w].pc \notin AtRest /\ op[w].pc \notin Owning
    BY <1>3 DEF Stat, AtRest, Owning
  <2>2. CASE To(w, "create")
    BY <1>2, <2>1, <2>2
  <2>3. CASE lockOld /\ To(w, "remove")
    BY <1>2, <2>1, <2>3
  <2>4. CASE Ends(w, "done")
    BY <1>0, <2>1, <2>4, EndsKeeps
  <2>5. QED
    BY <1>3, <2>2, <2>3, <2>4 DEF Stat
<1>4. CASE WriteTemp(w)
  <2>1. op[w].pc = "write"
    BY <1>4 DEF WriteTemp
  <2>2. CASE To(w, "link") \/ To(w, "release")
    BY <1>2, <2>1, <2>2
  <2>3. ASSUME torn', NEW n \in 0..length,
               op' = [op EXCEPT ![w] = [pc |-> "link", data |-> <<0, n>>]]
        PROVE  CacheInv'
    <3>1. <<0, n>> \in Content
      BY ChunkAssumption DEF CacheInv, CacheShape, Content
    <3>2. WritesWhole([pc |-> "link", data |-> <<0, n>>])'
      BY <2>3 DEF WritesWhole
    <3>3. QED
      BY <1>1, <2>1, <2>3, <3>1, <3>2
  <2>4. QED
    BY <1>4, <2>2, <2>3 DEF WriteTemp
<1>5. CASE Crash(w)
  <2>1. PICK pc \in {"done", "crashed"} : Ends(w, pc) /\ (op[w].pc \in Owning => pc = "crashed")
    BY <1>5 DEF Crash
  <2>2. op[w].pc \notin AtRest
    BY <1>5 DEF Crash
  <2>3. QED
    BY <1>0, <2>1, <2>2, EndsKeeps
<1>6. QED
  BY <1>3, <1>4, <1>5

\* Every step of the cache preserves the invariant.
LEMMA CacheStep == ASSUME CacheInv, [Next]_vars PROVE CacheInv'
<1> USE NodesAssumption, ChunkAssumption DEF CacheInv, CacheShape, Owning, AtRest, cacheVars
<1>1. ASSUME NEW w \in Nodes, Start(w) \/ Return(w) \/ Stat(w) \/ WriteTemp(w) \/ Crash(w)
      PROVE  CacheInv'
  BY <1>1, StartKeeps, ReturnKeeps, StepKeeps
<1>2. ASSUME UNCHANGED <<op, partial, torn>> PROVE ReadsAreWhole'
  BY <1>2, WholeStays DEF ReadsAreWhole, AsksForWhole, WritesWhole
<1>8. ASSUME NEW w \in Nodes, RemoveStale(w) PROVE CacheInv'
  <2>0. PICK data \in Content :
          /\ data = op[w].data /\ op[w].pc = "remove"
          /\ op' = [op EXCEPT ![w] = [pc |-> "create", data |-> data]]
    BY <1>8, ToMoves DEF RemoveStale
  <2>1. ReadsAreWhole' /\ [pc |-> "create", data |-> data] \in Ops
    BY <1>8, <2>0, GoesOn, ReadsStay DEF RemoveStale
  <2>2. CacheShape'
    BY <1>8, <2>0, <2>1 DEF RemoveStale
  <2>3. OwnersHaveLock'
    BY <1>8, <2>0 DEF RemoveStale, OwnersHaveLock
  <2>4. LockLeftMeansCrash'
    BY <1>8, <2>0 DEF RemoveStale, LockLeftMeansCrash
  <2>5. CleanMeansQuiet'
    BY <1>8, <2>0 DEF RemoveStale, CleanMeansQuiet
  <2>6. DeletedStaysGone' /\ CopyUnderName' /\ FileIsWhole'
    BY <1>8, WholeStays DEF RemoveStale, DeletedStaysGone, CopyUnderName, FileIsWhole
  <2>7. QED
    BY <2>1, <2>2, <2>3, <2>4, <2>5, <2>6 DEF CacheInv
<1>9. ASSUME NEW w \in Nodes, Create(w) PROVE CacheInv'
  <2>1. CASE Ends(w, "done") /\ UNCHANGED <<lockBy, lockOld>>
    <3>1. op[w].pc \notin AtRest /\ op[w].pc \notin Owning
      BY <1>9 DEF Create
    <3>2. UNCHANGED <<remote, final, lockBy, lockOld, builder, clean, aged, partial, torn>>
      BY <1>9, <2>1 DEF Create
    <3>3. QED
      BY <2>1, <3>1, <3>2, EndsKeeps
  <2>2. CASE lockBy = NoOne /\ To(w, "write") /\ lockBy' = w /\ lockOld' = FALSE
    <3>0. PICK data \in Content :
            /\ data = op[w].data /\ op[w].pc = "create"
            /\ op' = [op EXCEPT ![w] = [pc |-> "write", data |-> data]]
      BY <1>9, <2>2, ToMoves DEF Create
    <3>1. ReadsAreWhole' /\ [pc |-> "write", data |-> data] \in Ops
      BY <1>9, <3>0, GoesOn, ReadsStay DEF Create
    <3>2. CacheShape'
      BY <1>9, <2>2, <3>0, <3>1 DEF Create
    <3>3. OwnersHaveLock'
      BY <1>9, <2>2, <3>0 DEF Create, OwnersHaveLock
    <3>4. LockLeftMeansCrash'
      BY <1>9, <2>2, <3>0 DEF Create, LockLeftMeansCrash
    <3>5. CleanMeansQuiet'
      BY <1>9, <3>0 DEF Create, CleanMeansQuiet
    <3>6. DeletedStaysGone' /\ CopyUnderName' /\ FileIsWhole'
      BY <1>9, WholeStays DEF Create, DeletedStaysGone, CopyUnderName, FileIsWhole
    <3>7. QED
      BY <3>1, <3>2, <3>3, <3>4, <3>5, <3>6 DEF CacheInv
  <2>3. QED
    BY <1>9, <2>1, <2>2 DEF Create
<1>11. ASSUME NEW w \in Nodes, RenameOrDelete(w) PROVE CacheInv'
  <2>0. PICK data \in Content :
          /\ data = op[w].data /\ op[w].pc = "link"
          /\ op' = [op EXCEPT ![w] = [pc |-> "release", data |-> data]]
    BY <1>11, ToMoves DEF RenameOrDelete
  <2>1. ReadsAreWhole' /\ [pc |-> "release", data |-> data] \in Ops
    BY <1>11, <2>0, GoesOn, ReadsStay DEF RenameOrDelete
  <2>2. CacheShape'
    BY <1>11, <2>0, <2>1 DEF RenameOrDelete
  <2>3. OwnersHaveLock'
    BY <1>11, <2>0 DEF RenameOrDelete, OwnersHaveLock
  <2>4. LockLeftMeansCrash'
    BY <1>11, <2>0 DEF RenameOrDelete, LockLeftMeansCrash
  <2>5. CleanMeansQuiet'
    BY <1>11, <2>0 DEF RenameOrDelete, CleanMeansQuiet
  <2>6. DeletedStaysGone'
    BY <1>11, <2>0 DEF RenameOrDelete, DeletedStaysGone, CleanMeansQuiet
  <2>7. CopyUnderName'
    <3>1. <<0, builder.n>> # NoFile
      BY DEF NoFile
    <3>2. QED
      BY <1>11, <3>1 DEF RenameOrDelete, CopyUnderName
  <2>8. FileIsWhole'
    <3>1. ~partial /\ ~torn => op[w].data = Whole
      BY <2>0 DEF ReadsAreWhole, WritesWhole, Asking
    <3>2. QED
      BY WholeStays, <1>11, <3>1 DEF RenameOrDelete, FileIsWhole
  <2>9. QED
    BY <2>1, <2>2, <2>3, <2>4, <2>5, <2>6, <2>7, <2>8 DEF CacheInv
<1>12. ASSUME NEW w \in Nodes, ReleaseLock(w) PROVE CacheInv'
  <2>0. op' = [op EXCEPT ![w] = [pc |-> "done", data |-> NoFile]] /\ op[w].pc = "release"
    BY <1>12 DEF ReleaseLock, Ends
  <2>1. ReadsAreWhole' /\ [pc |-> "done", data |-> NoFile] \in Ops
    BY <1>12, <2>0, AtRestIsRight, ReadsStay DEF ReleaseLock
  <2>2. CacheShape'
    BY <1>12, <2>0, <2>1 DEF ReleaseLock
  <2>3. OwnersHaveLock'
    BY <1>12, <2>0 DEF ReleaseLock, OwnersHaveLock
  <2>4. LockLeftMeansCrash'
    BY <1>12, <2>0 DEF ReleaseLock, LockLeftMeansCrash
  <2>5. CleanMeansQuiet'
    BY <1>12, <2>0 DEF ReleaseLock, CleanMeansQuiet
  <2>6. DeletedStaysGone' /\ CopyUnderName' /\ FileIsWhole'
    BY <1>12, WholeStays DEF ReleaseLock, DeletedStaysGone, CopyUnderName, FileIsWhole
  <2>7. QED
    BY <2>1, <2>2, <2>3, <2>4, <2>5, <2>6 DEF CacheInv
<1>14. CASE LockAges
  <2>1. OwnersHaveLock'
    BY <1>14 DEF LockAges, OwnersHaveLock
  <2>2. /\ CacheShape' /\ LockLeftMeansCrash' /\ CleanMeansQuiet' /\ DeletedStaysGone'
        /\ ReadsAreWhole' /\ CopyUnderName' /\ FileIsWhole'
    BY <1>14, <1>2, WholeStays DEF LockAges, LockLeftMeansCrash, CleanMeansQuiet,
       DeletedStaysGone, CopyUnderName, FileIsWhole
  <2>3. QED
    BY <2>2, <2>1 DEF CacheInv
<1>15. CASE RemoteStores
  <2>1. CleanMeansQuiet'
    BY <1>15 DEF RemoteStores, CleanMeansQuiet
  <2>2. /\ CacheShape' /\ OwnersHaveLock' /\ LockLeftMeansCrash' /\ DeletedStaysGone'
        /\ ReadsAreWhole' /\ CopyUnderName' /\ FileIsWhole'
    BY <1>15, <1>2, WholeStays DEF RemoteStores, OwnersHaveLock, LockLeftMeansCrash,
       DeletedStaysGone, CopyUnderName, FileIsWhole
  <2>3. QED
    BY <2>2, <2>1 DEF CacheInv
<1>16. CASE BuilderOpens
  <2>1. CacheShape'
    BY <1>16 DEF BuilderOpens
  <2>2. DeletedStaysGone'
    BY <1>16 DEF BuilderOpens, DeletedStaysGone, CleanMeansQuiet
  <2>3. CopyUnderName'
    BY <1>16 DEF BuilderOpens, CopyUnderName
  <2>4. FileIsWhole'
    BY WholeStays, <1>16 DEF BuilderOpens, FileIsWhole, CopyUnderName
  <2>5. OwnersHaveLock' /\ LockLeftMeansCrash' /\ CleanMeansQuiet' /\ ReadsAreWhole'
    BY <1>16, <1>2, WholeStays DEF BuilderOpens, OwnersHaveLock, LockLeftMeansCrash, CleanMeansQuiet
  <2>6. QED
    BY <2>1, <2>5, <2>2, <2>3, <2>4 DEF CacheInv
<1>17. CASE BuilderCopies
  <2>1. CacheShape'
    BY <1>17 DEF BuilderCopies, CopyUnderName
  <2>2. DeletedStaysGone'
    BY <1>17 DEF BuilderCopies, DeletedStaysGone, CleanMeansQuiet
  <2>3. CopyUnderName'
    BY <1>17 DEF BuilderCopies, CopyUnderName
  <2>4. FileIsWhole'
    <3>1. CASE builder.named
      BY WholeStays, <1>17, <3>1 DEF BuilderCopies, FileIsWhole, CopyUnderName, Whole
    <3>2. CASE ~builder.named
      BY WholeStays, <1>17, <3>2 DEF BuilderCopies, FileIsWhole
    <3>3. QED
      BY <3>1, <3>2
  <2>5. OwnersHaveLock' /\ LockLeftMeansCrash' /\ CleanMeansQuiet' /\ ReadsAreWhole'
    BY <1>17, <1>2, WholeStays DEF BuilderCopies, OwnersHaveLock, LockLeftMeansCrash,
       CleanMeansQuiet
  <2>6. QED
    BY <2>1, <2>5, <2>2, <2>3, <2>4 DEF CacheInv
<1>18. CASE BuilderFails
  <2>1. CacheShape'
    BY <1>18 DEF BuilderFails
  <2>2. DeletedStaysGone'
    BY <1>18 DEF BuilderFails, DeletedStaysGone, CleanMeansQuiet
  <2>3. CopyUnderName'
    BY <1>18 DEF BuilderFails, CopyUnderName
  <2>4. FileIsWhole'
    BY WholeStays, <1>18 DEF BuilderFails, FileIsWhole, CopyUnderName
  <2>5. OwnersHaveLock' /\ LockLeftMeansCrash' /\ CleanMeansQuiet' /\ ReadsAreWhole'
    BY <1>18, <1>2, WholeStays DEF BuilderFails, OwnersHaveLock, LockLeftMeansCrash, CleanMeansQuiet
  <2>6. QED
    BY <2>1, <2>5, <2>2, <2>3, <2>4 DEF CacheInv
<1>19. CASE BuilderCrashes
  <2>1. CacheShape'
    BY <1>19 DEF BuilderCrashes
  <2>2. DeletedStaysGone'
    BY <1>19 DEF BuilderCrashes, DeletedStaysGone, CleanMeansQuiet
  <2>3. CopyUnderName'
    BY <1>19 DEF BuilderCrashes, CopyUnderName
  <2>4. FileIsWhole'
    BY WholeStays, <1>19 DEF BuilderCrashes, FileIsWhole, CopyUnderName
  <2>5. OwnersHaveLock' /\ LockLeftMeansCrash' /\ CleanMeansQuiet' /\ ReadsAreWhole'
    BY <1>19, <1>2, WholeStays DEF BuilderCrashes, OwnersHaveLock, LockLeftMeansCrash,
       CleanMeansQuiet
  <2>6. QED
    BY <2>1, <2>5, <2>2, <2>3, <2>4 DEF CacheInv
<1>20. CASE DeleteObjects
  <2>1. /\ CacheShape' /\ OwnersHaveLock' /\ LockLeftMeansCrash' /\ CleanMeansQuiet'
        /\ DeletedStaysGone' /\ ReadsAreWhole' /\ CopyUnderName' /\ FileIsWhole'
    BY <1>20, <1>2, WholeStays DEF DeleteObjects, OwnersHaveLock, LockLeftMeansCrash,
       CleanMeansQuiet,
       DeletedStaysGone, CopyUnderName, FileIsWhole
  <2>2. QED
    BY <2>1 DEF CacheInv
<1>21. CASE DeleteRemote
  <2>1. CleanMeansQuiet'
    BY <1>21 DEF DeleteRemote, CleanMeansQuiet
  <2>2. /\ CacheShape' /\ OwnersHaveLock' /\ LockLeftMeansCrash' /\ DeletedStaysGone'
        /\ ReadsAreWhole' /\ CopyUnderName' /\ FileIsWhole'
    BY <1>21, <1>2, WholeStays DEF DeleteRemote, OwnersHaveLock, LockLeftMeansCrash,
       DeletedStaysGone, CopyUnderName, FileIsWhole
  <2>3. QED
    BY <2>2, <2>1 DEF CacheInv
<1>22. CASE DeleteFile
  <2>1. CacheShape'
    BY <1>22 DEF DeleteFile
  <2>2. CleanMeansQuiet'
    BY <1>22 DEF DeleteFile, CleanMeansQuiet
  <2>3. DeletedStaysGone'
    BY <1>22 DEF DeleteFile, DeletedStaysGone, CleanMeansQuiet
  <2>4. CopyUnderName'
    BY <1>22 DEF DeleteFile, CopyUnderName
  <2>5. FileIsWhole'
    BY WholeStays, <1>22 DEF DeleteFile, FileIsWhole, CopyUnderName
  <2>6. OwnersHaveLock' /\ LockLeftMeansCrash' /\ ReadsAreWhole'
    BY <1>22, <1>2, WholeStays DEF DeleteFile, OwnersHaveLock, LockLeftMeansCrash
  <2>7. QED
    BY <2>1, <2>6, <2>2, <2>3, <2>4, <2>5 DEF CacheInv
<1>23. CASE DeleteLock
  <2>1. CacheShape'
    BY <1>23 DEF DeleteLock
  <2>2. OwnersHaveLock'
    BY <1>23 DEF DeleteLock, OwnersHaveLock
  <2>3. LockLeftMeansCrash'
    BY <1>23 DEF DeleteLock, LockLeftMeansCrash
  <2>4. CleanMeansQuiet' /\ DeletedStaysGone' /\ ReadsAreWhole' /\ CopyUnderName' /\ FileIsWhole'
    BY <1>23, <1>2, WholeStays DEF DeleteLock, CleanMeansQuiet, DeletedStaysGone,
       CopyUnderName, FileIsWhole
  <2>5. QED
    BY <2>1, <2>2, <2>3, <2>4 DEF CacheInv
<1>24. CASE UNCHANGED vars
  BY <1>2, <1>24, WholeStays DEF vars, CacheInv, OwnersHaveLock, LockLeftMeansCrash,
     CleanMeansQuiet,
     DeletedStaysGone, CopyUnderName, FileIsWhole
<1>25. QED
  BY <1>1, <1>8, <1>9, <1>11, <1>12, <1>14, <1>15, <1>16, <1>17, <1>18, <1>19, <1>20, <1>21, <1>22,
     <1>23, <1>24 DEF Next, Step, Builder, Delete

\* The lemma behind SoleOwner: a set of which all members are one has at most one.
LEMMA AtMostOne ==
    ASSUME NEW S, \A a \in S : \A b \in S : a = b
    PROVE  Cardinality(S) <= 1
<1>1. CASE S = {}
  BY <1>1, FS_EmptySet
<1>2. CASE S # {}
  <2>1. PICK a : a \in S
    BY <1>2
  <2>2. S = {a}
    BY <2>1
  <2>3. QED
    BY <2>2, FS_Singleton
<1>3. QED
  BY <1>1, <1>2

\* What the invariant says of two owners and of a hit.
LEMMA CacheImplies == ASSUME CacheInv PROVE SoleOwner /\ HitsAreRight
<1>1. SoleOwner
  <2>1. ASSUME ~aged PROVE Cardinality({w \in Nodes : op[w].pc \in Owning}) <= 1
    <3>1. \A a, b \in {w \in Nodes : op[w].pc \in Owning} : a = b
      BY <2>1 DEF CacheInv, OwnersHaveLock
    <3>2. QED
      BY <3>1, AtMostOne
  <2>2. QED
    BY <2>1 DEF SoleOwner
<1>2. HitsAreRight
  <2>1. ASSUME final # NoFile, ~partial, ~torn, builder.pc \notin {"copy", "crashed"},
               NEW len \in 1..ChunkSize
        PROVE  CacheAnswer(0, len) = RemoteAnswer(0, len)
    <3>1. final = <<0, length>> /\ length - 0 = length
      BY <2>1, ChunkAssumption DEF CacheInv, CacheShape, FileIsWhole, Whole
    <3>2. QED
      BY <3>1 DEF CacheAnswer, RemoteAnswer
  <2>2. QED
    BY <2>1 DEF HitsAreRight
<1>3. QED
  BY <1>1, <1>2

\* NeverReplaced, step by step.
LEMMA LinkStep ==
    ASSUME CacheInv, [Next]_vars
    PROVE  [UNCHANGED builder /\ final # NoFile => final' \in {final, NoFile}]_vars
<1> SUFFICES ASSUME UNCHANGED builder, final # NoFile, Next PROVE final' \in {final, NoFile}
  BY DEF vars
<1> USE ChunkAssumption DEF CacheInv, CacheShape
<1>1. ASSUME NEW w \in Nodes, Start(w) \/ Return(w) \/ Step(w) \/ Crash(w)
      PROVE  final' \in {final, NoFile}
  BY <1>1 DEF Start, Return, Step, ReadAt, ReadAtReturns, OpenRangeReader, CloseReader, WriteTo,
     Size, Fetched, Put, StoreSize, Stat, RemoveStale, Create, WriteTemp, RenameOrDelete,
     ReleaseLock, Crash, cacheVars
<1>2. CASE Builder
  BY <1>2 DEF Builder, BuilderOpens, BuilderCopies, BuilderFails, BuilderCrashes, cacheVars
<1>3. CASE LockAges \/ RemoteStores \/ Delete
  BY <1>3 DEF LockAges, RemoteStores, Delete, DeleteObjects, DeleteRemote, DeleteFile, DeleteLock,
     cacheVars
<1>4. QED
  BY <1>1, <1>2, <1>3 DEF Next

\* The invariant of the cache.
LEMMA CacheInvariant == Spec => []CacheInv
BY CacheInitial, CacheStep, PTL DEF Spec

\* A hit on a cached chunk is what the remote storage holds (storage_cache_seekable.go:75-225,
\* utils/move.go:29), for any number of operations and any chunk size, but for the four ways
\* HitsAreRight names: a request for less than the chunk, an answer cut off that passes for
\* the end of the object, a blob linked after its Close failed, StoreFile in place.
THEOREM Hits == Spec => []HitsAreRight
BY CacheInvariant, CacheImplies, PTL

\* O_EXCL gives the lock file to one operation until some lock gets old or is deleted
\* (lock/file_lock.go:32-67), for any number of operations.
THEOREM OneOwner == Spec => []SoleOwner
BY CacheInvariant, CacheImplies, PTL

\* No error return leaves the lock file behind (lock/atomic_file.go:67,
\* storage_cache_seekable.go:400): one that is there belongs to an operation at work or to a
\* machine that died.
THEOREM ErrorsUnlock == Spec => []LockLeftMeansCrash
<1>1. CacheInv => LockLeftMeansCrash
  BY DEF CacheInv
<1>2. QED
  BY <1>1, CacheInvariant, PTL

\* A file deleted from the cache last, with no read under way, no reader open and nothing
\* being written back, does not come back (storage_cache.go:77,
\* storage_cache_seekable.go:202).
THEOREM GoneStaysGone == Spec => []DeletedStaysGone
<1>1. CacheInv => DeletedStaysGone
  BY DEF CacheInv
<1>2. QED
  BY <1>1, CacheInvariant, PTL

\* os.Link never replaces a cached file (utils/move.go:29), whoever believes to have the lock.
THEOREM LinkReplacesNothing == Spec => NeverReplaced
BY CacheInvariant, LinkStep, PTL DEF Spec, NeverReplaced

-----------------------------------------------------------------------------
\* The multipart upload (Multipart).

\* MultipartTypeOK but for the flags.
MultipartShape ==
    /\ upload \in {"initiate", "spawn", "wait", "complete", "ok", "error"}
    /\ spawned \in 0..NumParts /\ worker \in [Parts -> Running \cup {"none", "done"}]
    /\ parts \in [Parts -> 0..NumParts] /\ onServer \subseteq Parts

\* The goroutines started are those of the first parts.
WorkersKnown == \A p \in Parts : p <= spawned <=> worker[p] # "none"

\* A goroutine that is to store its result, or has, and did not fail, has its part on the
\* server.
StoredIsThere ==
    \A p \in Parts :
        /\ worker[p] = "store" => p \in onServer
        /\ worker[p] = "done" /\ ~failed => p \in onServer /\ parts[p] = p

\* The completion is asked for after all goroutines returned, none with an error.
UploadPhases ==
    /\ upload \in {"wait", "complete", "ok"} => spawned = NumParts
    /\ upload \in {"complete", "ok"} => \A p \in Parts : worker[p] = "done"
    /\ upload \in {"complete", "ok"} => onServer = Parts /\ parts = WholeFile

MultipartInv == MultipartShape /\ WorkersKnown /\ StoredIsThere /\ UploadPhases /\ ObjectWhole

\* Parts are whole numbers.
LEMMA PartIs ==
    /\ Parts \subseteq Int
    /\ \A p \in Int : p \in Parts <=> 1 <= p /\ p <= NumParts
BY PartsAssumption DEF Parts

\* The invariant holds before the upload is initiated.
LEMMA MultipartInitial == MultipartInit => MultipartInv
<1> SUFFICES ASSUME MultipartInit PROVE MultipartInv
  OBVIOUS
<1>1. MultipartShape
  BY PartsAssumption DEF MultipartInit, MultipartShape
<1>2. WorkersKnown /\ StoredIsThere /\ UploadPhases /\ ObjectWhole
  BY PartIs DEF MultipartInit, WorkersKnown, StoredIsThere, UploadPhases, ObjectWhole
<1>3. QED
  BY <1>1, <1>2 DEF MultipartInv

\* Every step of the upload, its goroutines and the service preserves the invariant.
LEMMA MultipartStep == ASSUME MultipartInv, [MultipartNext]_uploadVars PROVE MultipartInv'
<1> USE PartsAssumption, PartIs DEF MultipartInv, MultipartShape, Running
<1>1. CASE InitiateUpload
  <2>1. MultipartShape'
    BY <1>1 DEF InitiateUpload
  <2>2. UploadPhases'
    BY <1>1 DEF InitiateUpload, UploadPhases, StoredIsThere, WorkersKnown
  <2>3. ObjectWhole'
    BY <1>1 DEF InitiateUpload, ObjectWhole, UploadPhases
  <2>4. WorkersKnown' /\ StoredIsThere'
    BY <1>1 DEF InitiateUpload, WorkersKnown, StoredIsThere
  <2>5. QED
    BY <2>1, <2>4, <2>2, <2>3 DEF MultipartInv
<1>2. CASE Spawn
  <2>1. MultipartShape'
    BY <1>2 DEF Spawn, AtWork
  <2>2. WorkersKnown'
    BY <1>2 DEF Spawn, AtWork, WorkersKnown
  <2>3. StoredIsThere'
    BY <1>2 DEF Spawn, AtWork, StoredIsThere
  <2>4. UploadPhases'
    BY <1>2 DEF Spawn, AtWork, UploadPhases, StoredIsThere, WorkersKnown
  <2>5. ObjectWhole'
    BY <1>2 DEF Spawn, AtWork, ObjectWhole, UploadPhases
  <2>6. QED
    BY <2>1, <2>2, <2>3, <2>4, <2>5 DEF MultipartInv
<1>3. CASE LoopDone
  <2>1. MultipartShape'
    BY <1>3 DEF LoopDone
  <2>2. UploadPhases'
    BY <1>3 DEF LoopDone, UploadPhases, StoredIsThere, WorkersKnown
  <2>3. ObjectWhole'
    BY <1>3 DEF LoopDone, ObjectWhole, UploadPhases
  <2>4. WorkersKnown' /\ StoredIsThere'
    BY <1>3 DEF LoopDone, WorkersKnown, StoredIsThere
  <2>5. QED
    BY <2>1, <2>4, <2>2, <2>3 DEF MultipartInv
<1>4. CASE GroupWait
  <2>1. MultipartShape'
    BY <1>4 DEF GroupWait, AtWork
  <2>2. UploadPhases'
    <3>1. \A p \in Parts : worker[p] = "done"
      BY <1>4 DEF GroupWait, AtWork, UploadPhases, WorkersKnown
    <3>2. CASE failed
      BY <1>4, <3>2 DEF GroupWait, UploadPhases
    <3>3. CASE ~failed
      <4>1. onServer = Parts /\ \A p \in Parts : parts[p] = p
        BY <3>1, <3>3 DEF StoredIsThere
      <4>2. parts = WholeFile
        BY <4>1 DEF WholeFile
      <4>3. QED
        BY <1>4, <3>1, <4>1, <4>2 DEF GroupWait, UploadPhases
    <3>4. QED
      BY <3>2, <3>3
  <2>3. ObjectWhole'
    BY <1>4, <2>2 DEF GroupWait, ObjectWhole, UploadPhases
  <2>4. WorkersKnown' /\ StoredIsThere'
    BY <1>4 DEF GroupWait, WorkersKnown, StoredIsThere
  <2>5. QED
    BY <2>1, <2>4, <2>2, <2>3 DEF MultipartInv
<1>5. CASE CallerCancels
  <2>1. MultipartShape' /\ WorkersKnown' /\ StoredIsThere' /\ UploadPhases' /\ ObjectWhole'
    BY <1>5 DEF CallerCancels, WorkersKnown, StoredIsThere, UploadPhases, ObjectWhole
  <2>2. QED
    BY <2>1 DEF MultipartInv
<1>6. CASE CompleteUpload
  <2>1. MultipartShape'
    BY <1>6 DEF CompleteUpload
  <2>2. UploadPhases'
    BY <1>6 DEF CompleteUpload, UploadPhases, StoredIsThere, WorkersKnown
  <2>3. ObjectWhole'
    BY <1>6 DEF CompleteUpload, ObjectWhole, UploadPhases
  <2>4. WorkersKnown' /\ StoredIsThere'
    BY <1>6 DEF CompleteUpload, WorkersKnown, StoredIsThere
  <2>5. QED
    BY <2>1, <2>4, <2>2, <2>3 DEF MultipartInv
<1>7. CASE CompleteFails
  <2>1. MultipartShape'
    BY <1>7 DEF CompleteFails
  <2>2. UploadPhases'
    BY <1>7 DEF CompleteFails, UploadPhases, StoredIsThere, WorkersKnown
  <2>3. ObjectWhole'
    BY <1>7 DEF CompleteFails, ObjectWhole, UploadPhases
  <2>4. WorkersKnown' /\ StoredIsThere'
    BY <1>7 DEF CompleteFails, WorkersKnown, StoredIsThere
  <2>5. QED
    BY <2>1, <2>4, <2>2, <2>3 DEF MultipartInv
<1>8. ASSUME NEW p \in Parts, WorkerFails(p) PROVE MultipartInv'
  <2>1. MultipartShape'
    BY <1>8 DEF WorkerFails
  <2>2. WorkersKnown'
    BY <1>8 DEF WorkerFails, WorkersKnown
  <2>3. StoredIsThere'
    BY <1>8 DEF WorkerFails, StoredIsThere
  <2>4. UploadPhases'
    BY <1>8 DEF WorkerFails, UploadPhases, StoredIsThere, WorkersKnown
  <2>5. ObjectWhole'
    BY <1>8 DEF WorkerFails, ObjectWhole, UploadPhases
  <2>6. QED
    BY <2>1, <2>2, <2>3, <2>4, <2>5 DEF MultipartInv
<1>9. ASSUME NEW p \in Parts, WorkerStarts(p) PROVE MultipartInv'
  <2>1. MultipartShape'
    BY <1>9 DEF WorkerStarts
  <2>2. WorkersKnown'
    BY <1>9 DEF WorkerStarts, WorkersKnown
  <2>3. StoredIsThere'
    BY <1>9 DEF WorkerStarts, StoredIsThere
  <2>4. UploadPhases'
    BY <1>9 DEF WorkerStarts, UploadPhases, StoredIsThere, WorkersKnown
  <2>5. ObjectWhole'
    BY <1>9 DEF WorkerStarts, ObjectWhole, UploadPhases
  <2>6. QED
    BY <2>1, <2>2, <2>3, <2>4, <2>5 DEF MultipartInv
<1>10. ASSUME NEW p \in Parts, UploadPart(p) PROVE MultipartInv'
  <2>1. MultipartShape'
    BY <1>10 DEF UploadPart
  <2>2. WorkersKnown'
    BY <1>10 DEF UploadPart, WorkersKnown
  <2>3. StoredIsThere'
    BY <1>10 DEF UploadPart, StoredIsThere
  <2>4. UploadPhases'
    BY <1>10 DEF UploadPart, UploadPhases, StoredIsThere, WorkersKnown
  <2>5. ObjectWhole'
    BY <1>10 DEF UploadPart, ObjectWhole, UploadPhases
  <2>6. QED
    BY <2>1, <2>2, <2>3, <2>4, <2>5 DEF MultipartInv
<1>11. ASSUME NEW p \in Parts, StorePart(p) PROVE MultipartInv'
  <2>1. MultipartShape'
    BY <1>11 DEF StorePart
  <2>2. WorkersKnown'
    BY <1>11 DEF StorePart, WorkersKnown
  <2>3. StoredIsThere'
    BY <1>11 DEF StorePart, StoredIsThere
  <2>4. UploadPhases'
    BY <1>11 DEF StorePart, UploadPhases, StoredIsThere, WorkersKnown
  <2>5. ObjectWhole'
    BY <1>11 DEF StorePart, ObjectWhole, UploadPhases
  <2>6. QED
    BY <2>1, <2>2, <2>3, <2>4, <2>5 DEF MultipartInv
<1>12. CASE UNCHANGED uploadVars
  BY <1>12 DEF uploadVars, MultipartInv, WorkersKnown, StoredIsThere, UploadPhases, ObjectWhole
<1>13. QED
  BY <1>1, <1>2, <1>3, <1>4, <1>5, <1>6, <1>7, <1>8, <1>9, <1>10, <1>11, <1>12 DEF MultipartNext

\* The object is the whole file in order or is not there, for any number of parts and any
\* limit on the goroutines (gcp_multipart.go:274-368).
THEOREM WholeOrNothing == MultipartInit /\ [][MultipartNext]_uploadVars => []ObjectWhole
<1>1. MultipartInv => ObjectWhole
  BY DEF MultipartInv
<1>2. QED
  BY <1>1, MultipartInitial, MultipartStep, PTL

-----------------------------------------------------------------------------
\* The cache in redis (RedisCache).  OwnerIsFresh is the argument: who still has
\* the lock read the data after the last Delete that had it.

\* RedisTypeOK but for the expiry time.
RedisShape ==
    /\ db \in 1..MaxVersion /\ entry \in Versions /\ floor \in Versions
    /\ lock \in [Asked -> Tasks \cup {NoTask, Left}]
    /\ task \in [Tasks -> [pc : {"idle", "lock", "check", "call", "store", "release"},
                           kind : Kinds, key : Asked, locked : BOOLEAN, val : Versions]]

\* Which calls come by which step; only a fetch is by another key; a refresh that goes on
\* has the lock.
TaskPhases ==
    \A t \in Tasks :
        /\ task[t].pc = "lock" => task[t].kind \in {"fetch", "refresh", "Delete"}
        /\ task[t].pc = "check" => task[t].kind = "fetch"
        /\ task[t].kind # "fetch" => task[t].key = "id"
        /\ task[t].kind = "refresh" /\ task[t].pc \notin {"idle", "lock"} => task[t].locked

\* What the calls carry, and what a Delete promised, is not newer than the data.
FromData == floor <= db /\ \A t \in Tasks : task[t].val <= db

\* A fetch or a refresh that still has the entry's lock when it is to store carries what is
\* at least as new as the last Delete that had it.
OwnerIsFresh ==
    \A t \in Tasks :
        /\ task[t].pc = "store" /\ task[t].kind \in {"fetch", "refresh"} /\ task[t].key = "id"
        /\ task[t].locked /\ lock["id"] = t
        => task[t].val >= floor

RedisInv == RedisShape /\ TaskPhases /\ FromData /\ OwnerIsFresh /\ LockedDeleteSticks

\* The invariant holds of an empty cache.
LEMMA RedisInitial == RedisInit => RedisInv
<1> SUFFICES ASSUME RedisInit PROVE RedisInv
  OBVIOUS
<1>1. RedisShape
  BY RedisAssumption DEF RedisInit, RedisShape, Idle, Versions, Kinds, Asked
<1>2. TaskPhases /\ FromData /\ OwnerIsFresh /\ LockedDeleteSticks
  BY DEF RedisInit, TaskPhases, FromData, OwnerIsFresh, LockedDeleteSticks, Idle
<1>3. QED
  BY <1>1, <1>2 DEF RedisInv

\* Every step of the calls, of redis and of time preserves the invariant.
LEMMA RedisStep == ASSUME RedisInv, [RedisNext]_redisVars PROVE RedisInv'
<1> USE RedisAssumption, TasksAssumption DEF RedisInv, RedisShape, Versions, Kinds, Asked
<1>1. CASE DbUpdate
  <2>1. RedisShape'
    BY <1>1 DEF DbUpdate, TaskPhases
  <2>2. FromData'
    BY <1>1 DEF DbUpdate, FromData
  <2>3. TaskPhases' /\ OwnerIsFresh' /\ LockedDeleteSticks'
    BY <1>1 DEF DbUpdate, TaskPhases, OwnerIsFresh, LockedDeleteSticks
  <2>4. QED
    BY <2>1, <2>3, <2>2 DEF RedisInv
<1>2. CASE Expire
  <2>1. RedisShape'
    BY <1>2 DEF Expire, TaskPhases
  <2>2. TaskPhases' /\ FromData' /\ OwnerIsFresh' /\ LockedDeleteSticks'
    BY <1>2 DEF Expire, TaskPhases, FromData, OwnerIsFresh, LockedDeleteSticks
  <2>3. QED
    BY <2>1, <2>2 DEF RedisInv
<1>3. ASSUME NEW k \in Asked, LockExpires(k) PROVE RedisInv'
  <2>1. RedisShape'
    BY <1>3 DEF LockExpires, TaskPhases
  <2>2. TaskPhases'
    BY <1>3 DEF LockExpires, TaskPhases
  <2>3. OwnerIsFresh'
    BY <1>3 DEF LockExpires, OwnerIsFresh, FromData, TaskPhases
  <2>4. FromData' /\ LockedDeleteSticks'
    BY <1>3 DEF LockExpires, FromData, LockedDeleteSticks
  <2>5. QED
    BY <2>1, <2>2, <2>4, <2>3 DEF RedisInv
<1>4. ASSUME NEW t \in Tasks, NEW kind \in Kinds, NEW k \in Asked,
             StartCall(t, kind, k)
      PROVE  RedisInv'
  <2>1. RedisShape'
    BY <1>4 DEF StartCall, TaskPhases
  <2>2. TaskPhases'
    BY <1>4 DEF StartCall, TaskPhases
  <2>3. FromData'
    BY <1>4 DEF StartCall, FromData
  <2>4. OwnerIsFresh'
    BY <1>4 DEF StartCall, OwnerIsFresh, FromData, TaskPhases
  <2>5. LockedDeleteSticks'
    BY <1>4 DEF StartCall, LockedDeleteSticks, OwnerIsFresh, TaskPhases
  <2>6. QED
    BY <2>1, <2>2, <2>3, <2>4, <2>5 DEF RedisInv
<1>5. ASSUME NEW t \in Tasks, AcquireLock(t) PROVE RedisInv'
  <2>1. RedisShape'
    <3>1. AfterLock[task[t].kind] \in {"check", "call", "store"} /\ task[t].key \in Asked
      BY <1>5 DEF AcquireLock, AfterLock, TaskPhases
    <3> HIDE DEF Versions, Kinds, Asked
    <3>2. lock' \in [Asked -> Tasks \cup {NoTask, Left}]
      BY <1>5, <3>1 DEF AcquireLock
    <3>3. task' \in [Tasks -> [pc : {"idle", "lock", "check", "call", "store", "release"},
                              kind : Kinds, key : Asked, locked : BOOLEAN, val : Versions]]
      <4> DEFINE R == [pc : {"idle", "lock", "check", "call", "store", "release"},
                       kind : Kinds, key : Asked, locked : BOOLEAN, val : Versions]
                 r == [task[t] EXCEPT !.pc = AfterLock[task[t].kind], !.locked = TRUE]
      <4>1. task \in [Tasks -> R] /\ task[t] \in R
        OBVIOUS
      <4>2. r \in R
        BY <3>1, <4>1
      <4>3. task' = [task EXCEPT ![t] = r]
        BY <1>5, <4>1 DEF AcquireLock
      <4> HIDE DEF R, r
      <4>4. task' \in [Tasks -> R]
        BY <4>1, <4>2, <4>3
      <4>5. QED
        BY <4>4 DEF R
    <3>4. QED
      BY <1>5, <3>2, <3>3 DEF AcquireLock
  <2>2. TaskPhases'
    BY <1>5 DEF AcquireLock, AfterLock, TaskPhases
  <2>3. FromData'
    BY <1>5 DEF AcquireLock, AfterLock, FromData
  <2>4. OwnerIsFresh'
    BY <1>5 DEF AcquireLock, AfterLock, OwnerIsFresh, FromData, TaskPhases
  <2>5. LockedDeleteSticks'
    BY <1>5 DEF AcquireLock, AfterLock, LockedDeleteSticks, OwnerIsFresh, TaskPhases
  <2>6. QED
    BY <2>1, <2>2, <2>3, <2>4, <2>5 DEF RedisInv
<1>6. ASSUME NEW t \in Tasks, LockFails(t) PROVE RedisInv'
  <2>1. RedisShape'
    BY <1>6 DEF LockFails, AfterLock, Idle, TaskPhases
  <2>2. TaskPhases'
    BY <1>6 DEF LockFails, AfterLock, Idle, TaskPhases
  <2>3. FromData'
    BY <1>6 DEF LockFails, AfterLock, Idle, FromData
  <2>4. OwnerIsFresh'
    BY <1>6 DEF LockFails, AfterLock, Idle, OwnerIsFresh, FromData, TaskPhases
  <2>5. LockedDeleteSticks'
    BY <1>6 DEF LockFails, AfterLock, Idle, LockedDeleteSticks, OwnerIsFresh, TaskPhases
  <2>6. QED
    BY <2>1, <2>2, <2>3, <2>4, <2>5 DEF RedisInv
<1>7. ASSUME NEW t \in Tasks, DoubleCheck(t) PROVE RedisInv'
  <2>1. RedisShape'
    BY <1>7 DEF DoubleCheck, TaskPhases
  <2>2. TaskPhases'
    BY <1>7 DEF DoubleCheck, TaskPhases
  <2>3. FromData'
    BY <1>7 DEF DoubleCheck, FromData
  <2>4. OwnerIsFresh'
    BY <1>7 DEF DoubleCheck, OwnerIsFresh, FromData, TaskPhases
  <2>5. LockedDeleteSticks'
    BY <1>7 DEF DoubleCheck, LockedDeleteSticks, OwnerIsFresh, TaskPhases
  <2>6. QED
    BY <2>1, <2>2, <2>3, <2>4, <2>5 DEF RedisInv
<1>8. ASSUME NEW t \in Tasks, Callback(t) PROVE RedisInv'
  <2>1. RedisShape'
    BY <1>8 DEF Callback, TaskPhases
  <2>2. TaskPhases'
    BY <1>8 DEF Callback, TaskPhases
  <2>3. FromData'
    BY <1>8 DEF Callback, FromData
  <2>4. OwnerIsFresh'
    BY <1>8 DEF Callback, OwnerIsFresh, FromData, TaskPhases
  <2>5. LockedDeleteSticks'
    BY <1>8 DEF Callback, LockedDeleteSticks, OwnerIsFresh, TaskPhases
  <2>6. QED
    BY <2>1, <2>2, <2>3, <2>4, <2>5 DEF RedisInv
<1>9. ASSUME NEW t \in Tasks, SetInRedis(t) PROVE RedisInv'
  <2>1. RedisShape'
    <3>1. 0 \in Versions
      OBVIOUS
    <3> HIDE DEF Versions, Kinds, Asked
    <3>2. QED
      BY <1>9, <3>1 DEF SetInRedis
  <2>2. TaskPhases'
    BY <1>9 DEF SetInRedis, MayStore, Way, Overdue, TaskPhases
  <2>3. FromData'
    BY <1>9 DEF SetInRedis, MayStore, Way, Overdue, FromData
  <2>4. OwnerIsFresh'
    BY <1>9 DEF SetInRedis, MayStore, Way, Overdue, OwnerIsFresh, FromData, TaskPhases
  <2>5. LockedDeleteSticks'
    BY <1>9 DEF SetInRedis, MayStore, Way, Overdue, LockedDeleteSticks, OwnerIsFresh, TaskPhases
  <2>6. QED
    BY <2>1, <2>2, <2>3, <2>4, <2>5 DEF RedisInv
<1>10. ASSUME NEW t \in Tasks, Del(t) PROVE RedisInv'
  <2>1. RedisShape'
    <3>1. 0 \in Versions
      OBVIOUS
    <3> HIDE DEF Versions, Kinds, Asked
    <3>2. QED
      BY <1>10, <3>1 DEF Del
  <2>2. TaskPhases'
    BY <1>10 DEF Del, Overdue, TaskPhases
  <2>3. FromData'
    BY <1>10 DEF Del, Overdue, FromData
  <2>4. OwnerIsFresh'
    BY <1>10 DEF Del, Overdue, OwnerIsFresh, FromData, TaskPhases
  <2>5. LockedDeleteSticks'
    BY <1>10 DEF Del, Overdue, LockedDeleteSticks, OwnerIsFresh, TaskPhases
  <2>6. QED
    BY <2>1, <2>2, <2>3, <2>4, <2>5 DEF RedisInv
<1>11. ASSUME NEW t \in Tasks, StoresNothing(t) PROVE RedisInv'
  <2>1. RedisShape'
    <3>1. 0 \in Versions
      OBVIOUS
    <3> HIDE DEF Versions, Kinds, Asked
    <3>2. QED
      BY <1>11, <3>1 DEF StoresNothing
  <2>2. TaskPhases'
    BY <1>11 DEF StoresNothing, TaskPhases
  <2>3. FromData'
    BY <1>11 DEF StoresNothing, FromData
  <2>4. OwnerIsFresh'
    BY <1>11 DEF StoresNothing, OwnerIsFresh, FromData, TaskPhases
  <2>5. LockedDeleteSticks'
    BY <1>11 DEF StoresNothing, LockedDeleteSticks, OwnerIsFresh, TaskPhases
  <2>6. QED
    BY <2>1, <2>2, <2>3, <2>4, <2>5 DEF RedisInv
<1>12. ASSUME NEW t \in Tasks, ReleaseOwnLock(t) PROVE RedisInv'
  <2>1. RedisShape'
    BY <1>12 DEF ReleaseOwnLock, End, Idle, TaskPhases
  <2>2. TaskPhases'
    BY <1>12 DEF ReleaseOwnLock, End, Idle, TaskPhases
  <2>3. FromData'
    BY <1>12 DEF ReleaseOwnLock, End, Idle, FromData
  <2>4. OwnerIsFresh'
    BY <1>12 DEF ReleaseOwnLock, End, Idle, OwnerIsFresh, FromData, TaskPhases
  <2>5. LockedDeleteSticks'
    BY <1>12 DEF ReleaseOwnLock, End, Idle, LockedDeleteSticks, OwnerIsFresh, TaskPhases
  <2>6. QED
    BY <2>1, <2>2, <2>3, <2>4, <2>5 DEF RedisInv
<1>13. ASSUME NEW t \in Tasks, InstanceDies(t) PROVE RedisInv'
  <2>1. RedisShape'
    BY <1>13 DEF InstanceDies, End, Idle, TaskPhases
  <2>2. TaskPhases'
    BY <1>13 DEF InstanceDies, End, Idle, TaskPhases
  <2>3. FromData'
    BY <1>13 DEF InstanceDies, End, Idle, FromData
  <2>4. OwnerIsFresh'
    BY <1>13 DEF InstanceDies, End, Idle, OwnerIsFresh, FromData, TaskPhases
  <2>5. LockedDeleteSticks'
    BY <1>13 DEF InstanceDies, End, Idle, LockedDeleteSticks, OwnerIsFresh, TaskPhases
  <2>6. QED
    BY <2>1, <2>2, <2>3, <2>4, <2>5 DEF RedisInv
<1>14. CASE UNCHANGED redisVars
  BY <1>14 DEF redisVars, RedisInv, TaskPhases, FromData, OwnerIsFresh, LockedDeleteSticks
<1>15. QED
  BY <1>1, <1>2, <1>3, <1>4, <1>5, <1>6, <1>7, <1>8, <1>9, <1>10, <1>11, <1>12, <1>13, <1>14 DEF
     RedisNext, TaskStep

\* A Delete under the lock is not undone by a fetch or a refresh (redis.go:99-189,
\* 299-340), for any number of calls at once and any number of versions.
THEOREM DeleteSticks == RedisInit /\ [][RedisNext]_redisVars => []LockedDeleteSticks
<1>1. RedisInv => LockedDeleteSticks
  BY DEF RedisInv
<1>2. QED
  BY <1>1, RedisInitial, RedisStep, PTL

-----------------------------------------------------------------------------
\* The sandbox catalog (Catalog).

\* Between its GET and its DEL a DeleteSandbox finds nothing new in redis but what
\* overtook it.
DelKnowsEntry ==
    \A r \in Requests : request[r].pc = "del" =>
        catalog \in {0, request[r].exec} \cup overtook

CatalogInv == CatalogTypeOK /\ DelKnowsEntry /\ DeleteSparesOthers

\* The invariant holds of an empty catalog.
LEMMA CatalogInitial == CatalogInit => CatalogInv
<1> SUFFICES ASSUME CatalogInit PROVE CatalogInv
  OBVIOUS
<1>1. NoRequest \in [pc : {"idle"}, host : Hosts, exec : {0}]
  BY HostsAssumption DEF NoRequest
<1>2. CatalogTypeOK
  BY <1>1, CatalogAssumption DEF CatalogInit, CatalogTypeOK, Executions
<1>3. DelKnowsEntry /\ DeleteSparesOthers
  BY <1>1 DEF CatalogInit, DelKnowsEntry, DeleteSparesOthers
<1>4. QED
  BY <1>2, <1>3 DEF CatalogInv

\* Every step of the calls, of redis and of the local caches preserves the invariant.
LEMMA CatalogStep == ASSUME CatalogInv, [CatalogNext]_catalogVars PROVE CatalogInv'
<1> USE CatalogAssumption DEF CatalogInv, CatalogTypeOK, DelKnowsEntry, DeleteSparesOthers, Executions
<1>0. NoRequest \in [pc : {"idle"}, host : Hosts, exec : {0}]
  BY HostsAssumption DEF NoRequest
<1>1. CASE CatalogExpires
  BY <1>1 DEF CatalogExpires
<1>2. ASSUME NEW h \in Hosts, LocalExpires(h) PROVE CatalogInv'
  BY <1>2 DEF LocalExpires
<1>3. ASSUME NEW r \in Requests, CacheSet(r) PROVE CatalogInv'
  BY <1>0, <1>3 DEF CacheSet, Goto
<1>4. ASSUME NEW r \in Requests, DeleteDel(r) PROVE CatalogInv'
  BY <1>4 DEF DeleteDel, Goto
<1>5. ASSUME NEW r \in Requests, CacheDelete(r) PROVE CatalogInv'
  BY <1>0, <1>5 DEF CacheDelete, Goto
<1>6. ASSUME NEW r \in Requests, NEW h \in Hosts, GetSandbox(r, h) PROVE CatalogInv'
  BY <1>6 DEF GetSandbox, Begin
<1>7. ASSUME NEW r \in Requests, NEW h \in Hosts, StoreSandbox(r, h) PROVE CatalogInv'
  <2>1. CASE UNCHANGED <<catalog, request, overtook>>
    BY <1>7, <2>1 DEF StoreSandbox
  <2>2. CASE /\ catalog' = started' /\ Begin(r, "cache", h, started')
             /\ overtook' = IF \E d \in Requests : request[d].pc = "del"
                            THEN overtook \cup {started'} ELSE overtook
    <3>1. started' \in Executions /\ overtook \subseteq overtook'
      BY <1>7, <2>2 DEF StoreSandbox
    <3>2. CatalogTypeOK'
      BY <1>7, <2>2, <3>1 DEF StoreSandbox, Begin
    <3>3. DelKnowsEntry'
      <4>1. ASSUME NEW d \in Requests, request'[d].pc = "del" PROVE catalog' \in overtook'
        <5>1. request[d].pc = "del"
          BY <2>2, <4>1 DEF Begin
        <5>2. QED
          BY <2>2, <5>1
      <4>2. QED
        BY <4>1
    <3>4. QED
      BY <1>7, <3>1, <3>2, <3>3 DEF StoreSandbox
  <2>3. QED
    BY <1>7, <2>1, <2>2 DEF StoreSandbox
<1>8. ASSUME NEW r \in Requests, NEW h \in Hosts, NEW e \in 1..started,
             DeleteSandbox(r, h, e)
      PROVE  CatalogInv'
  BY <1>8 DEF DeleteSandbox, Begin
<1>9. CASE UNCHANGED catalogVars
  BY <1>9 DEF catalogVars
<1>10. QED
  BY <1>1, <1>2, <1>3, <1>4, <1>5, <1>6, <1>7, <1>8, <1>9 DEF CatalogNext, RequestStep

\* The entry of another execution falls to a late DeleteSandbox only if it was stored between
\* that call's GET and its DEL (catalog_redis.go:118-136), for any number of hosts, calls and
\* executions.
THEOREM LateDeletes == CatalogInit /\ [][CatalogNext]_catalogVars => []DeleteSparesOthers
<1>1. CatalogInv => DeleteSparesOthers
  BY DEF CatalogInv
<1>2. QED
  BY <1>1, CatalogInitial, CatalogStep, PTL

-----------------------------------------------------------------------------
\* The semaphore (Semaphore).

\* used is not shown to be natural: that takes the sum over the holders.
SemShape ==
    /\ used \in Int /\ limit \in Limits
    /\ sem \in [Callers -> {"new", "entering", "asleep", "awake", "held", "failed", "over"}]

\* A caller that is about to sleep has no room either, and holds the mutex.
NoneEntersOnRoom == \A c \in Callers : sem[c] = "entering" => ~Fits(c)

SemInv == SemShape /\ NoneSleepsOnRoom /\ NoneEntersOnRoom

\* The invariant holds with nobody waiting.
LEMMA SemInitial == SemInit => SemInv
BY DEF SemInit, SemInv, SemShape, NoneSleepsOnRoom, NoneEntersOnRoom

\* Every call, wake-up and change of the limit preserves the invariant.
LEMMA SemStep == ASSUME SemInv, [SemNext]_semVars PROVE SemInv'
<1> USE SemaphoreAssumption DEF SemInv, SemShape, NoneSleepsOnRoom, NoneEntersOnRoom, Fits
<1>1. ASSUME NEW l \in Limits, SetLimit(l) PROVE SemInv'
  BY <1>1 DEF SetLimit, MutexFree, Awakened
<1>2. ASSUME NEW c \in Callers, Acquire(c) PROVE SemInv'
  BY <1>2 DEF Acquire, MutexFree
<1>3. ASSUME NEW c \in Callers, Wait(c) PROVE SemInv'
  BY <1>3 DEF Wait
<1>4. ASSUME NEW c \in Callers, TryAcquire(c) PROVE SemInv'
  BY <1>4 DEF TryAcquire, MutexFree
<1>5. ASSUME NEW c \in Callers, SemRelease(c) PROVE SemInv'
  BY <1>5 DEF SemRelease, MutexFree, Awakened
<1>6. ASSUME NEW c \in Callers, ContextEnds(c) PROVE SemInv'
  BY <1>6 DEF ContextEnds
<1>7. ASSUME NEW c \in Callers, AfterFunc(c) PROVE SemInv'
  BY <1>7 DEF AfterFunc, Awakened
<1>8. CASE UNCHANGED semVars
  BY <1>8 DEF semVars
<1>9. QED
  BY <1>1, <1>2, <1>3, <1>4, <1>5, <1>6, <1>7, <1>8 DEF SemNext

\* Nobody sleeps on room that is there (utils/resizable_semaphore.go:34-103), for any callers, needs
\* and limits.
THEOREM RoomWakes == SemInit /\ [][SemNext]_semVars => []NoneSleepsOnRoom
<1>1. SemInv => NoneSleepsOnRoom
  BY DEF SemInv
<1>2. QED
  BY <1>1, SemInitial, SemStep, PTL

-----------------------------------------------------------------------------
\* The connection limiter (ConnLimiter).

Counted == {c \in Conns : conn[c].pc \in {"open", "drop", "unswap"}}
Calling(c) == conn[c].pc \in {"try", "swap", "drop", "unswap"}

\* LimiterTypeOK but for the history.
LimiterShape ==
    /\ inMap \in 0..MaxCounters /\ made \in 0..MaxCounters
    /\ count \in [Counters -> Nat]
    /\ conn \in [Conns -> [pc : {"new", "try", "swap", "refused", "open", "drop", "unswap", "over"},
                           counter : 0..MaxCounters, seen : Nat]]
    /\ maxLimit \in [Conns -> Int]

\* A call has a counter that was made; a counter not made yet is 0; what a Release is to
\* put back is more than 0.
CountersMade ==
    /\ inMap <= made
    /\ \A i \in Counters : i > made => count[i] = 0
    /\ \A c \in Conns : Calling(c) => conn[c].counter \in 1..made
    /\ \A c \in Conns : conn[c].pc = "unswap" => conn[c].seen > 0

\* Unless Remove cut in, every call has the counter that is in the map, and a Load that
\* passed was below the call's limit.
OneCounter ==
    ~cut => \A c \in Conns : Calling(c) => conn[c].counter = inMap
SeenBelow ==
    \A c \in Conns : conn[c].pc = "swap" /\ maxLimit[c] >= 0 => conn[c].seen < maxLimit[c]

\* CountsOpen in two parts: the counter, and the limits.
InCounter == ~cut => Cardinality(Counted) = IF inMap = NoCounter THEN 0 ELSE count[inMap]
Limited(k) == {c \in Counted : maxLimit[c] \in 0..k}
LimitsKept == ~cut => \A k \in MaxLimits : k >= 0 => Cardinality(Limited(k)) <= k

LimiterInv ==
    /\ LimiterShape /\ CountersMade /\ OneCounter /\ SeenBelow
    /\ IsFiniteSet(Counted) /\ InCounter /\ LimitsKept

\* Counters are whole numbers.
LEMMA CounterIs ==
    /\ Counters \subseteq Int
    /\ \A i \in Int : i \in Counters <=> 1 <= i /\ i <= MaxCounters
BY LimiterAssumption DEF Counters

\* With no new connection open, the limits are kept.
LEMMA NoneNew ==
    ASSUME LimiterInv, Counted' \subseteq Counted, cut => cut',
           \A c \in Counted' : maxLimit'[c] = maxLimit[c]
    PROVE  LimitsKept'
<1>1. ASSUME NEW k \in MaxLimits, k >= 0, ~cut' PROVE Cardinality(Limited(k)') <= k
  <2>1. Limited(k)' \subseteq Limited(k) /\ Limited(k) \subseteq Counted
    BY DEF Limited
  <2>2. IsFiniteSet(Limited(k)) /\ Cardinality(Limited(k)) <= k
    BY <1>1, <2>1, FS_Subset DEF LimiterInv, LimitsKept
  <2>3. Cardinality(Limited(k)') <= Cardinality(Limited(k)) /\ IsFiniteSet(Limited(k)')
    BY <2>1, <2>2, FS_Subset
  <2>4. Cardinality(Limited(k)') \in Nat /\ Cardinality(Limited(k)) \in Nat /\ k \in Int
    BY <2>2, <2>3, FS_CardinalityType, LimiterAssumption
  <2> HIDE DEF Limited
  <2>5. QED
    BY <2>2, <2>3, <2>4
<1>2. QED
  BY <1>1 DEF LimitsKept

\* A connection that finds fewer than its limit keeps the limits.
LEMMA OneMore ==
    ASSUME LimiterInv, NEW c \in Conns, c \notin Counted, Counted' = Counted \cup {c},
           UNCHANGED <<maxLimit, cut>>,
           ~cut /\ maxLimit[c] >= 0 => Cardinality(Counted) < maxLimit[c]
    PROVE  LimitsKept'
<1>1. ASSUME NEW k \in MaxLimits, k >= 0, ~cut' PROVE Cardinality(Limited(k)') <= k
  <2>0. k \in Int /\ maxLimit[c] \in Int
    BY LimiterAssumption DEF LimiterInv, LimiterShape
  <2>1. CASE maxLimit[c] \in 0..k
    <3>1. IsFiniteSet(Counted') /\ Cardinality(Counted') = Cardinality(Counted) + 1
      BY FS_AddElement DEF LimiterInv
    <3>2. Limited(k)' \subseteq Counted'
      BY DEF Limited
    <3>3. IsFiniteSet(Limited(k)') /\ Cardinality(Limited(k)') <= Cardinality(Counted')
      BY <3>1, <3>2, FS_Subset
    <3>4. Cardinality(Limited(k)') \in Nat /\ Cardinality(Counted) \in Nat
      BY <3>3, FS_CardinalityType DEF LimiterInv
    <3>5. Cardinality(Counted) < maxLimit[c]
      BY <1>1, <2>1
    <3> HIDE DEF Limited, Counted
    <3>6. QED
      BY <2>0, <2>1, <3>1, <3>3, <3>4, <3>5
  <2>2. CASE maxLimit[c] \notin 0..k
    <3>1. Limited(k)' = Limited(k)
      BY <2>2 DEF Limited
    <3>2. QED
      BY <1>1, <3>1 DEF LimiterInv, LimitsKept
  <2>3. QED
    BY <2>1, <2>2
<1>2. QED
  BY <1>1 DEF LimitsKept

\* The two parts are CountsOpen.
LEMMA InParts == InCounter /\ LimitsKept => CountsOpen
BY DEF InCounter, LimitsKept, CountsOpen, Limited, Counted

\* The invariant holds of an empty map.
LEMMA LimiterInitial == LimiterInit => LimiterInv
<1> SUFFICES ASSUME LimiterInit PROVE LimiterInv
  OBVIOUS
<1>1. Counted = {}
  BY DEF LimiterInit, Counted, NoCall
<1>2. IsFiniteSet(Counted) /\ Cardinality(Counted) = 0
  BY <1>1, FS_EmptySet
<1>3. LimiterShape
  BY LimiterAssumption DEF LimiterInit, LimiterShape, NoCounter, NoCall
<1>4. CountersMade /\ OneCounter /\ SeenBelow
  BY DEF LimiterInit, CountersMade, OneCounter, SeenBelow, Calling, NoCall, NoCounter, Counters
<1>5. InCounter
  BY <1>2, LimiterAssumption DEF LimiterInit, InCounter
<1>6. LimitsKept
  <2>1. \A k \in MaxLimits : Limited(k) = {} /\ Cardinality(Limited(k)) = 0
    BY <1>1, FS_EmptySet DEF Limited
  <2>2. QED
    BY <2>1, LimiterAssumption DEF LimitsKept
<1>7. QED
  BY <1>2, <1>3, <1>4, <1>5, <1>6 DEF LimiterInv

\* The steps that change the number of open connections change the counter with it.
LEMMA LimiterStep == ASSUME LimiterInv, [LimiterNext]_limiterVars PROVE LimiterInv'
<1> USE LimiterAssumption, CounterIs DEF LimiterInv, LimiterShape, Calling, NoCounter, NoCall
<1>0. /\ Cardinality(Counted) \in Nat
      /\ ~cut => Cardinality(Counted) = IF inMap = NoCounter THEN 0 ELSE count[inMap]
  BY FS_CardinalityType DEF InCounter
<1>1. CASE Remove
  <2>1. Counted' = Counted
    BY <1>1 DEF Remove, Counted
  <2>2. ~cut' => Counted = {}
    BY <1>1 DEF Remove, Counted
  <2>3. ~cut' => Cardinality(Counted) = 0
    BY <2>2, FS_EmptySet
  <2>4. InCounter' /\ IsFiniteSet(Counted') /\ LimitsKept'
    BY <1>0, <1>1, <2>1, <2>3, NoneNew DEF Remove, InCounter
  <2>5. LimiterShape'
    BY <1>1, <2>4 DEF Remove
  <2>6. CountersMade'
    BY <1>1, <2>4 DEF Remove, CountersMade
  <2>7. OneCounter'
    BY <1>1, <2>4 DEF Remove, OneCounter, CountersMade
  <2>8. SeenBelow'
    BY <1>1, <2>4 DEF Remove, SeenBelow, CountersMade
  <2>9. QED
    BY <2>4, <2>5, <2>6, <2>7, <2>8
<1>2. ASSUME NEW c \in Conns, GetCounter(c) PROVE LimiterInv'
  <2>1. Counted' = Counted
    BY <1>2 DEF GetCounter, Counted
  <2>0. /\ \A d \in Counted : maxLimit'[d] = maxLimit[d]
        /\ maxLimit' \in [Conns -> Int] /\ cut' = cut
    BY <1>2 DEF GetCounter, Counted
  <2>2. InCounter' /\ IsFiniteSet(Counted') /\ LimitsKept'
    <3>0. LimitsKept'
      BY <2>0, <2>1, NoneNew
    <3>1. CASE UNCHANGED <<inMap, made>>
      BY <1>0, <1>2, <2>1, <3>0, <3>1 DEF GetCounter, InCounter
    <3>2. CASE inMap = NoCounter /\ made < MaxCounters /\ made' = made + 1 /\ inMap' = made'
      <4>1. count'[inMap'] = 0 /\ inMap' # NoCounter
        BY <1>2, <3>2 DEF GetCounter, CountersMade
      <4>2. QED
        BY <1>0, <1>2, <2>1, <3>0, <3>2, <4>1 DEF GetCounter, InCounter
    <3>3. QED
      BY <1>2, <3>1, <3>2 DEF GetCounter
  <2>3. LimiterShape'
    BY <1>2, <2>0, <2>2 DEF GetCounter
  <2>4. CountersMade'
    <3>1. /\ inMap' <= made' /\ made <= made' /\ inMap' \in 1..made'
          /\ made' \in 0..MaxCounters /\ UNCHANGED count
      <4>1. CASE inMap # NoCounter /\ UNCHANGED <<inMap, made>>
        BY <1>2, <4>1 DEF GetCounter, CountersMade
      <4>2. CASE inMap = NoCounter /\ made < MaxCounters /\ made' = made + 1 /\ inMap' = made'
        BY <1>2, <4>2 DEF GetCounter
      <4>3. QED
        BY <1>2, <4>1, <4>2 DEF GetCounter
    <3>2. \A i \in Counters : i > made' => count'[i] = 0
      BY <3>1 DEF CountersMade
    <3>3. conn' = [conn EXCEPT ![c] = [pc |-> "try", counter |-> inMap', seen |-> 0]]
      BY <1>2 DEF GetCounter
    <3>4. QED
      BY <3>1, <3>2, <3>3 DEF CountersMade
  <2>5. OneCounter'
    BY <1>2, <2>2 DEF GetCounter, OneCounter, CountersMade
  <2>6. SeenBelow'
    BY <1>2, <2>2 DEF GetCounter, SeenBelow, CountersMade
  <2>7. QED
    BY <2>2, <2>3, <2>4, <2>5, <2>6
<1>3. ASSUME NEW c \in Conns, TryLoad(c) PROVE LimiterInv'
  <2>shape. /\ conn' = [conn EXCEPT ![c] = conn'[c]]
            /\ \/ conn'[c] = [pc |-> "refused", counter |-> 0, seen |-> 0]
               \/ /\ conn'[c] = [pc |-> "swap", counter |-> conn[c].counter,
                                 seen |-> count[conn[c].counter]]
                  /\ maxLimit[c] >= 0 => count[conn[c].counter] < maxLimit[c]
                  /\ count[conn[c].counter] \in Nat
            /\ conn[c].pc = "try" /\ UNCHANGED <<inMap, made, count, cut, maxLimit>>
    BY <1>3 DEF TryLoad, CountersMade
  <2>1. Counted' = Counted
    BY <2>shape DEF Counted
  <2>2. InCounter' /\ IsFiniteSet(Counted') /\ LimitsKept'
    BY <1>0, <2>shape, <2>1, NoneNew DEF InCounter
  <2>3. LimiterShape'
    BY <2>shape, <2>2
  <2>4. CountersMade'
    BY <2>shape, <2>2 DEF CountersMade
  <2>5. OneCounter'
    BY <2>shape, <2>2 DEF OneCounter, CountersMade
  <2>6. SeenBelow'
    BY <2>shape, <2>2 DEF SeenBelow, CountersMade
  <2>7. QED
    BY <2>2, <2>3, <2>4, <2>5, <2>6
<1>4. ASSUME NEW c \in Conns, TrySwap(c) PROVE LimiterInv'
  <2>shape. /\ \/ /\ count[conn[c].counter] = conn[c].seen
                  /\ conn' = [conn EXCEPT ![c] = [pc |-> "open", counter |-> 0, seen |-> 0]]
                  /\ count' = [count EXCEPT ![conn[c].counter] = conn[c].seen + 1]
               \/ /\ count[conn[c].counter] # conn[c].seen /\ UNCHANGED count
                  /\ conn' = [conn EXCEPT ![c].pc = "try"]
            /\ conn[c].pc = "swap" /\ UNCHANGED <<inMap, made, cut, maxLimit>>
    BY <1>4 DEF TrySwap
  <2>0. conn[c].counter \in 1..made /\ c \notin Counted
    BY <2>shape DEF CountersMade, Counted
  <2>1. CASE count[conn[c].counter] # conn[c].seen
    <3>1. Counted' = Counted
      BY <2>shape, <2>1 DEF Counted
    <3>2. InCounter' /\ IsFiniteSet(Counted') /\ LimitsKept'
      BY <1>0, <2>shape, <2>1, <3>1, NoneNew DEF InCounter
    <3>3. LimiterShape'
      BY <2>shape, <2>1, <3>2
    <3>4. CountersMade'
      BY <2>shape, <2>1, <3>2 DEF CountersMade
    <3>5. OneCounter'
      BY <2>shape, <2>1, <3>2 DEF OneCounter, CountersMade
    <3>6. SeenBelow'
      BY <2>shape, <2>1, <3>2 DEF SeenBelow, CountersMade
    <3>7. QED
      BY <3>2, <3>3, <3>4, <3>5, <3>6
  <2>2. CASE count[conn[c].counter] = conn[c].seen
    <3>1. Counted' = Counted \cup {c}
      BY <2>shape, <2>2 DEF Counted
    <3>2. IsFiniteSet(Counted') /\ Cardinality(Counted') = Cardinality(Counted) + 1
      BY <2>0, <3>1, FS_AddElement
    <3>3. InCounter' /\ LimitsKept'
      <4>1. ~cut => conn[c].counter = inMap /\ inMap # NoCounter
        BY <2>shape, <2>0 DEF OneCounter
      <4>2. ~cut => Cardinality(Counted) = conn[c].seen
        BY <1>0, <2>2, <4>1
      <4>3. LimitsKept'
        BY <2>shape, <2>0, <3>1, <4>2, OneMore DEF SeenBelow
      <4>4. InCounter'
        BY <1>0, <2>shape, <2>0, <2>2, <3>2, <4>1, <4>2 DEF InCounter
      <4>5. QED
        BY <4>3, <4>4
    <3>4. LimiterShape'
      BY <2>shape, <2>0, <2>2, <3>2, <3>3
    <3>5. CountersMade'
      BY <2>shape, <2>0, <2>2, <3>2, <3>3 DEF CountersMade
    <3>6. OneCounter'
      BY <2>shape, <2>0, <2>2, <3>2, <3>3 DEF OneCounter, CountersMade
    <3>7. SeenBelow'
      BY <2>shape, <2>0, <2>2, <3>2, <3>3 DEF SeenBelow, CountersMade
    <3>8. QED
      BY <3>2, <3>3, <3>4, <3>5, <3>6, <3>7
  <2>3. QED
    BY <2>1, <2>2
<1>5. ASSUME NEW c \in Conns, ReleaseGet(c) PROVE LimiterInv'
  <2>shape. /\ \/ /\ inMap = NoCounter
                  /\ conn' = [conn EXCEPT ![c] = [pc |-> "over", counter |-> 0, seen |-> 0]]
               \/ /\ inMap # NoCounter
                  /\ conn' = [conn EXCEPT ![c] = [pc |-> "drop", counter |-> inMap, seen |-> 0]]
            /\ conn[c].pc = "open" /\ UNCHANGED <<inMap, made, count, cut, maxLimit>>
    <3>1. CASE inMap = NoCounter
      BY <1>5, <3>1 DEF ReleaseGet
    <3>2. CASE inMap # NoCounter
      BY <1>5, <3>2 DEF ReleaseGet
    <3>3. QED
      BY <3>1, <3>2
  <2>1. ~cut => inMap # NoCounter
    <3>1. c \in Counted
      BY <2>shape DEF Counted
    <3>2. Cardinality(Counted) # 0
      BY <3>1, FS_EmptySet
    <3>3. QED
      BY <1>0, <3>2
  <2>2. ~cut => Counted' = Counted
    BY <2>shape, <2>1 DEF Counted
  <2>3. Counted' = Counted \/ Counted' = Counted \ {c}
    BY <2>shape DEF Counted
  <2>4. IsFiniteSet(Counted')
    BY <2>3, FS_Subset
  <2>5. InCounter' /\ LimitsKept'
    BY <1>0, <2>shape, <2>2, <2>3, NoneNew DEF InCounter
  <2>6. LimiterShape'
    BY <2>shape, <2>1, <2>4, <2>5
  <2>7. CountersMade'
    BY <2>shape, <2>1, <2>4, <2>5 DEF CountersMade
  <2>8. OneCounter'
    BY <2>shape, <2>1, <2>4, <2>5 DEF OneCounter, CountersMade
  <2>9. SeenBelow'
    BY <2>shape, <2>1, <2>4, <2>5 DEF SeenBelow, CountersMade
  <2>10. QED
    BY <2>1, <2>4, <2>5, <2>6, <2>7, <2>8, <2>9
<1>6. ASSUME NEW c \in Conns, ReleaseLoad(c) PROVE LimiterInv'
  <2>shape. /\ \/ /\ count[conn[c].counter] <= 0
                  /\ conn' = [conn EXCEPT ![c] = [pc |-> "over", counter |-> 0, seen |-> 0]]
               \/ /\ count[conn[c].counter] \in Nat \ {0}
                  /\ conn' = [conn EXCEPT ![c] = [pc |-> "unswap", counter |-> conn[c].counter,
                                                  seen |-> count[conn[c].counter]]]
            /\ conn[c].pc = "drop" /\ UNCHANGED <<inMap, made, count, cut, maxLimit>>
    <3>0. count[conn[c].counter] \in Nat
      BY <1>6 DEF ReleaseLoad, CountersMade
    <3>1. CASE count[conn[c].counter] <= 0
      BY <1>6, <3>1 DEF ReleaseLoad
    <3>2. CASE ~(count[conn[c].counter] <= 0)
      BY <1>6, <3>0, <3>2 DEF ReleaseLoad
    <3>3. QED
      BY <3>1, <3>2
  <2>0. conn[c].counter \in 1..made
    BY <2>shape DEF CountersMade
  <2>1. ~cut => count[conn[c].counter] > 0
    <3>1. c \in Counted
      BY <2>shape DEF Counted
    <3>2. Cardinality(Counted) # 0
      BY <3>1, FS_EmptySet
    <3>3. QED
      BY <1>0, <2>shape, <2>0, <3>2 DEF OneCounter
  <2>2. ~cut => Counted' = Counted
    BY <2>shape, <2>0, <2>1 DEF Counted
  <2>3. Counted' = Counted \/ Counted' = Counted \ {c}
    BY <2>shape DEF Counted
  <2>4. IsFiniteSet(Counted')
    BY <2>3, FS_Subset
  <2>5. InCounter' /\ LimitsKept'
    BY <1>0, <2>shape, <2>2, <2>3, NoneNew DEF InCounter
  <2>6. LimiterShape'
    BY <2>shape, <2>0, <2>1, <2>4, <2>5
  <2>7. CountersMade'
    BY <2>shape, <2>0, <2>1, <2>4, <2>5 DEF CountersMade
  <2>8. OneCounter'
    BY <2>shape, <2>0, <2>1, <2>4, <2>5 DEF OneCounter, CountersMade
  <2>9. SeenBelow'
    BY <2>shape, <2>0, <2>1, <2>4, <2>5 DEF SeenBelow, CountersMade
  <2>10. QED
    BY <2>0, <2>1, <2>4, <2>5, <2>6, <2>7, <2>8, <2>9
<1>7. ASSUME NEW c \in Conns, ReleaseSwap(c) PROVE LimiterInv'
  <2>shape. /\ \/ /\ count[conn[c].counter] = conn[c].seen
                  /\ conn' = [conn EXCEPT ![c] = [pc |-> "over", counter |-> 0, seen |-> 0]]
                  /\ count' = [count EXCEPT ![conn[c].counter] = conn[c].seen - 1]
               \/ /\ count[conn[c].counter] # conn[c].seen /\ UNCHANGED count
                  /\ conn' = [conn EXCEPT ![c].pc = "drop"]
            /\ conn[c].pc = "unswap" /\ UNCHANGED <<inMap, made, cut, maxLimit>>
    BY <1>7 DEF ReleaseSwap
  <2>0. conn[c].counter \in 1..made /\ c \in Counted
    BY <2>shape DEF CountersMade, Counted
  <2>1. CASE count[conn[c].counter] # conn[c].seen
    <3>1. Counted' = Counted
      BY <2>shape, <2>1 DEF Counted
    <3>2. InCounter' /\ IsFiniteSet(Counted') /\ LimitsKept'
      BY <1>0, <2>shape, <2>1, <3>1, NoneNew DEF InCounter
    <3>3. LimiterShape'
      BY <2>shape, <2>1, <3>2
    <3>4. CountersMade'
      BY <2>shape, <2>1, <3>2 DEF CountersMade
    <3>5. OneCounter'
      BY <2>shape, <2>1, <3>2 DEF OneCounter, CountersMade
    <3>6. SeenBelow'
      BY <2>shape, <2>1, <3>2 DEF SeenBelow, CountersMade
    <3>7. QED
      BY <3>2, <3>3, <3>4, <3>5, <3>6
  <2>2. CASE count[conn[c].counter] = conn[c].seen
    <3>1. Counted' = Counted \ {c}
      BY <2>shape, <2>2 DEF Counted
    <3>2. IsFiniteSet(Counted') /\ Cardinality(Counted') = Cardinality(Counted) - 1
      BY <2>0, <3>1, FS_RemoveElement
    <3>3. InCounter' /\ LimitsKept'
      <4>1. LimitsKept'
        BY <2>shape, <3>1, NoneNew
      <4>2. QED
        BY <1>0, <2>shape, <2>0, <2>2, <3>2, <4>1 DEF InCounter, OneCounter
    <3>4. LimiterShape'
      <4>1. conn[c].seen - 1 \in Nat
        BY <2>shape DEF CountersMade
      <4>2. QED
        BY <2>shape, <2>2, <4>1
    <3>5. CountersMade'
      BY <2>shape, <2>0, <2>2, <3>2, <3>3 DEF CountersMade
    <3>6. OneCounter'
      BY <2>shape, <2>0, <2>2, <3>2, <3>3 DEF OneCounter, CountersMade
    <3>7. SeenBelow'
      BY <2>shape, <2>0, <2>2, <3>2, <3>3 DEF SeenBelow, CountersMade
    <3>8. QED
      BY <3>2, <3>3, <3>4, <3>5, <3>6, <3>7
  <2>3. QED
    BY <2>1, <2>2
<1>8. CASE UNCHANGED limiterVars
  BY <1>8 DEF limiterVars, CountersMade, OneCounter, SeenBelow, InCounter, LimitsKept, Limited,
     Counted
<1>9. QED
  BY <1>1, <1>2, <1>3, <1>4, <1>5, <1>6, <1>7, <1>8 DEF LimiterNext

\* The counter is the number of open connections, and so they keep to the limits they came
\* with (limiter.go:34-63), for any number of connections and any limits, unless Remove cut
\* in.
THEOREM Counts == LimiterInit /\ [][LimiterNext]_limiterVars => []CountsOpen
<1>1. LimiterInv => CountsOpen
  BY InParts DEF LimiterInv
<1>2. QED
  BY <1>1, LimiterInitial, LimiterStep, PTL

-----------------------------------------------------------------------------
\* The proxy's pool (ProxyPool).

\* A request that has begun has a client that was made.
EachHasClient == \A l \in Links : link[l].pc # "none" => link[l].client \in 1..clients

\* A connection is in its client's activeConnections until Close takes it out.
TrackedIsActive ==
    \A l \in Links : link[l].pc \in {"open", "uncount", "untrack"} => l \in active[link[l].client]

\* Close works on the client that is in the map, and keeps it there.
CloserHasKey == closer.pc # "idle" => closer.client = inPool /\ inPool # NoClient

\* The client in the map has not been closed.
KeyIsNew == inPool <= clients /\ inPool \notin closedClients /\ closedClients \subseteq 1..clients

\* Once Close has looked, an open connection of its client is on its list, or late.
ResetKnows ==
    closer.pc = "reset" =>
        \A l \in Links : link[l].pc = "open" /\ link[l].client = closer.client
            => l \in closer.items \cup late

PoolInv ==
    /\ PoolTypeOK /\ EachHasClient /\ TrackedIsActive /\ CloserHasKey /\ KeyIsNew
    /\ ResetKnows /\ ClosedKeyIsClosed

\* Clients are whole numbers.
LEMMA ClientIs ==
    /\ Clients \subseteq Int
    /\ \A k \in Int : k \in Clients <=> 1 <= k /\ k <= MaxClients
BY PoolAssumption DEF Clients

\* The invariant holds of an empty pool.
LEMMA PoolInitial == PoolInit => PoolInv
<1> SUFFICES ASSUME PoolInit PROVE PoolInv
  OBVIOUS
<1>1. PoolTypeOK
  BY PoolAssumption DEF PoolInit, PoolTypeOK, NoClient, NoLink, NotClosing
<1>2. EachHasClient /\ TrackedIsActive /\ CloserHasKey /\ KeyIsNew /\ ResetKnows /\ ClosedKeyIsClosed
  BY PoolAssumption DEF PoolInit, NoClient, NoLink, NotClosing, EachHasClient, TrackedIsActive,
     CloserHasKey, KeyIsNew, ResetKnows, ClosedKeyIsClosed
<1>3. QED
  BY <1>1, <1>2 DEF PoolInv

\* Every step of the requests, the transport and Close preserves the invariant.
LEMMA PoolStep == ASSUME PoolInv, [PoolNext]_poolVars PROVE PoolInv'
<1> USE PoolAssumption, ClientIs DEF PoolInv, PoolTypeOK, NoClient
<1>1. CASE PoolClose
  <2>1. PoolTypeOK'
    BY <1>1 DEF PoolClose, EachHasClient
  <2>2. CloserHasKey'
    BY <1>1 DEF PoolClose, CloserHasKey
  <2>3. ResetKnows'
    BY <1>1 DEF PoolClose, ResetKnows, EachHasClient, TrackedIsActive, CloserHasKey
  <2>4. EachHasClient' /\ TrackedIsActive' /\ KeyIsNew' /\ ClosedKeyIsClosed'
    BY <1>1 DEF PoolClose, EachHasClient, TrackedIsActive, KeyIsNew, ClosedKeyIsClosed
  <2>5. QED
    BY <2>1, <2>4, <2>2, <2>3 DEF PoolInv
<1>2. CASE Look
  <2>1. PoolTypeOK'
    <3>1. closer.client \in Clients
      BY <1>2 DEF Look, CloserHasKey
    <3>2. closer' \in [pc : {"idle", "look", "reset"}, client : 0..MaxClients, items : SUBSET Links]
      BY <1>2, <3>1 DEF Look
    <3>3. QED
      BY <1>2, <3>2 DEF Look
  <2>2. CloserHasKey'
    BY <1>2 DEF Look, CloserHasKey
  <2>3. ResetKnows'
    BY <1>2 DEF Look, ResetKnows, EachHasClient, TrackedIsActive, CloserHasKey
  <2>4. EachHasClient' /\ TrackedIsActive' /\ KeyIsNew' /\ ClosedKeyIsClosed'
    BY <1>2 DEF Look, EachHasClient, TrackedIsActive, KeyIsNew, ClosedKeyIsClosed
  <2>5. QED
    BY <2>1, <2>4, <2>2, <2>3 DEF PoolInv
<1>3. CASE PoolCloseReturns
  <2>1. PoolTypeOK'
    <3>1. closer.client \in Clients
      BY <1>3 DEF PoolCloseReturns, CloserHasKey
    <3>2. closer' \in [pc : {"idle", "look", "reset"}, client : 0..MaxClients, items : SUBSET Links]
      BY <1>3 DEF PoolCloseReturns, NotClosing
    <3>3. closedClients' \subseteq Clients
      BY <1>3, <3>1 DEF PoolCloseReturns
    <3>4. QED
      BY <1>3, <3>2, <3>3 DEF PoolCloseReturns
  <2>2. CloserHasKey'
    BY <1>3 DEF PoolCloseReturns, NotClosing, CloserHasKey
  <2>3. KeyIsNew'
    <3>1. closer.client \in 1..clients
      BY <1>3 DEF PoolCloseReturns, CloserHasKey, KeyIsNew
    <3>2. 0 \notin closedClients'
      BY <1>3, <3>1 DEF PoolCloseReturns, KeyIsNew
    <3>3. QED
      <4>1. closedClients' \subseteq 1..clients
        BY <1>3, <3>1 DEF PoolCloseReturns, KeyIsNew
      <4>2. QED
        BY <1>3, <3>2, <4>1 DEF PoolCloseReturns, KeyIsNew
  <2>4. ResetKnows'
    BY <1>3 DEF PoolCloseReturns, NotClosing, ResetKnows, EachHasClient, TrackedIsActive,
       CloserHasKey
  <2>5. ClosedKeyIsClosed'
    BY <1>3 DEF PoolCloseReturns, NotClosing, ClosedKeyIsClosed, ResetKnows, CloserHasKey, KeyIsNew
  <2>6. EachHasClient' /\ TrackedIsActive'
    BY <1>3 DEF PoolCloseReturns, EachHasClient, TrackedIsActive
  <2>7. QED
    BY <2>1, <2>6, <2>2, <2>3, <2>4, <2>5 DEF PoolInv
<1>4. ASSUME NEW l \in Links, GetClient(l) PROVE PoolInv'
  <2>1. PoolTypeOK'
    BY <1>4 DEF GetClient, EachHasClient
  <2>2. EachHasClient'
    BY <1>4 DEF GetClient, EachHasClient, KeyIsNew
  <2>3. TrackedIsActive'
    BY <1>4 DEF GetClient, TrackedIsActive, EachHasClient
  <2>4. CloserHasKey'
    BY <1>4 DEF GetClient, CloserHasKey
  <2>5. KeyIsNew'
    BY <1>4 DEF GetClient, KeyIsNew, CloserHasKey
  <2>6. ResetKnows'
    BY <1>4 DEF GetClient, ResetKnows, EachHasClient, TrackedIsActive, CloserHasKey
  <2>7. ClosedKeyIsClosed'
    BY <1>4 DEF GetClient, ClosedKeyIsClosed, ResetKnows, CloserHasKey, KeyIsNew
  <2>8. QED
    BY <2>1, <2>2, <2>3, <2>4, <2>5, <2>6, <2>7 DEF PoolInv
<1>5. ASSUME NEW l \in Links, Dial(l) PROVE PoolInv'
  <2>1. PoolTypeOK'
    BY <1>5 DEF Dial, EachHasClient
  <2>2. EachHasClient'
    BY <1>5 DEF Dial, EachHasClient, KeyIsNew
  <2>3. TrackedIsActive'
    BY <1>5 DEF Dial, TrackedIsActive, EachHasClient
  <2>4. ResetKnows'
    BY <1>5 DEF Dial, ResetKnows, EachHasClient, TrackedIsActive, CloserHasKey
  <2>5. ClosedKeyIsClosed'
    BY <1>5 DEF Dial, ClosedKeyIsClosed, ResetKnows, CloserHasKey, KeyIsNew
  <2>6. CloserHasKey' /\ KeyIsNew'
    BY <1>5 DEF Dial, CloserHasKey, KeyIsNew
  <2>7. QED
    BY <2>1, <2>2, <2>3, <2>6, <2>4, <2>5 DEF PoolInv
<1>6. ASSUME NEW l \in Links, Track(l) PROVE PoolInv'
  <2>1. PoolTypeOK'
    BY <1>6 DEF Track, EachHasClient
  <2>2. EachHasClient'
    BY <1>6 DEF Track, EachHasClient, KeyIsNew
  <2>3. TrackedIsActive'
    BY <1>6 DEF Track, TrackedIsActive, EachHasClient
  <2>4. ResetKnows'
    BY <1>6 DEF Track, ResetKnows, EachHasClient, TrackedIsActive, CloserHasKey
  <2>5. ClosedKeyIsClosed'
    BY <1>6 DEF Track, ClosedKeyIsClosed, ResetKnows, CloserHasKey, KeyIsNew
  <2>6. CloserHasKey' /\ KeyIsNew'
    BY <1>6 DEF Track, CloserHasKey, KeyIsNew
  <2>7. QED
    BY <2>1, <2>2, <2>3, <2>6, <2>4, <2>5 DEF PoolInv
<1>7. ASSUME NEW l \in Links, TransportClose(l) PROVE PoolInv'
  <2>1. PoolTypeOK'
    BY <1>7 DEF TransportClose, EachHasClient
  <2>2. EachHasClient'
    BY <1>7 DEF TransportClose, EachHasClient, KeyIsNew
  <2>3. TrackedIsActive'
    BY <1>7 DEF TransportClose, TrackedIsActive, EachHasClient
  <2>4. ResetKnows'
    BY <1>7 DEF TransportClose, ResetKnows, EachHasClient, TrackedIsActive, CloserHasKey
  <2>5. ClosedKeyIsClosed'
    BY <1>7 DEF TransportClose, ClosedKeyIsClosed, ResetKnows, CloserHasKey, KeyIsNew
  <2>6. CloserHasKey' /\ KeyIsNew'
    BY <1>7 DEF TransportClose, CloserHasKey, KeyIsNew
  <2>7. QED
    BY <2>1, <2>2, <2>3, <2>6, <2>4, <2>5 DEF PoolInv
<1>8. ASSUME NEW l \in Links, Uncount(l) PROVE PoolInv'
  <2>1. PoolTypeOK'
    BY <1>8 DEF Uncount, EachHasClient
  <2>2. EachHasClient'
    BY <1>8 DEF Uncount, EachHasClient, KeyIsNew
  <2>3. TrackedIsActive'
    BY <1>8 DEF Uncount, TrackedIsActive, EachHasClient
  <2>4. ResetKnows'
    BY <1>8 DEF Uncount, ResetKnows, EachHasClient, TrackedIsActive, CloserHasKey
  <2>5. ClosedKeyIsClosed'
    BY <1>8 DEF Uncount, ClosedKeyIsClosed, ResetKnows, CloserHasKey, KeyIsNew
  <2>6. CloserHasKey' /\ KeyIsNew'
    BY <1>8 DEF Uncount, CloserHasKey, KeyIsNew
  <2>7. QED
    BY <2>1, <2>2, <2>3, <2>6, <2>4, <2>5 DEF PoolInv
<1>9. ASSUME NEW l \in Links, Untrack(l) PROVE PoolInv'
  <2>1. PoolTypeOK'
    BY <1>9 DEF Untrack, EachHasClient
  <2>2. EachHasClient'
    BY <1>9 DEF Untrack, EachHasClient, KeyIsNew
  <2>3. TrackedIsActive'
    BY <1>9 DEF Untrack, TrackedIsActive, EachHasClient
  <2>4. ResetKnows'
    BY <1>9 DEF Untrack, ResetKnows, EachHasClient, TrackedIsActive, CloserHasKey
  <2>5. ClosedKeyIsClosed'
    BY <1>9 DEF Untrack, ClosedKeyIsClosed, ResetKnows, CloserHasKey, KeyIsNew
  <2>6. CloserHasKey' /\ KeyIsNew'
    BY <1>9 DEF Untrack, CloserHasKey, KeyIsNew
  <2>7. QED
    BY <2>1, <2>2, <2>3, <2>6, <2>4, <2>5 DEF PoolInv
<1>10. ASSUME NEW l \in Links, Reset(l) PROVE PoolInv'
  <2>1. PoolTypeOK'
    BY <1>10 DEF Reset, EachHasClient
  <2>2. EachHasClient'
    BY <1>10 DEF Reset, EachHasClient, KeyIsNew
  <2>3. TrackedIsActive'
    BY <1>10 DEF Reset, TrackedIsActive, EachHasClient
  <2>4. CloserHasKey'
    BY <1>10 DEF Reset, CloserHasKey
  <2>5. KeyIsNew'
    BY <1>10 DEF Reset, KeyIsNew, CloserHasKey
  <2>6. ResetKnows'
    BY <1>10 DEF Reset, ResetKnows, EachHasClient, TrackedIsActive, CloserHasKey
  <2>7. ClosedKeyIsClosed'
    BY <1>10 DEF Reset, ClosedKeyIsClosed, ResetKnows, CloserHasKey, KeyIsNew
  <2>8. QED
    BY <2>1, <2>2, <2>3, <2>4, <2>5, <2>6, <2>7 DEF PoolInv
<1>11. CASE UNCHANGED poolVars
  BY <1>11 DEF poolVars, PoolInv, EachHasClient, KeyIsNew, TrackedIsActive, CloserHasKey,
     ResetKnows, ClosedKeyIsClosed
<1>12. QED
  BY <1>1, <1>2, <1>3, <1>4, <1>5, <1>6, <1>7, <1>8, <1>9, <1>10, <1>11 DEF PoolNext

\* After ProxyPool.Close no connection of the key is open but those whose dial ended after
\* Close looked (pool.go:91-102, client.go:209-220), for any number of requests and clients.
THEOREM ClosedStaysClosed == PoolInit /\ [][PoolNext]_poolVars => []ClosedKeyIsClosed
<1>1. PoolInv => ClosedKeyIsClosed
  BY DEF PoolInv
<1>2. QED
  BY <1>1, PoolInitial, PoolStep, PTL
-----------------------------------------------------------------------------
\* The header of a layered file (Header).  Lists of maps are compared by the blocks they
\* cover and by what they say of each; the merge is proved over any two lists, then the two
\* loops that are recursive functions, then the steps of the specification.

\* The maps: a length is never 0, and a block's place in an object is never past its place in
\* the file, since an object holds its blocks in ascending order.
MapRecord == [offset : Nat, length : Nat \ {0}, build : Nil..MaxLayers, storage : Nat]
Map == {m \in MapRecord : m.storage <= m.offset}
Maps == Seq(Map)

\* A map has a block, a list covers it; a list ascends without overlaps; it lies from an offset
\* on, or up to one.
Has(m, x) == m.offset <= x /\ x < EndOf(m)
Covers(L, x) == \E i \in DOMAIN L : Has(L[i], x)
Ascending(L) == \A i, j \in DOMAIN L : i < j => EndOf(L[i]) <= L[j].offset
AllFrom(L, n) == \A i \in DOMAIN L : n <= L[i].offset
AllTo(L, n) == \A i \in DOMAIN L : EndOf(L[i]) <= n

\* What a map says of a block: the build that last wrote it (lt), and its place in that build's
\* object (ob).
Right(m, x, lt, ob) ==
    /\ m.build = lt[x]
    /\ m.build # Nil => /\ m.storage + x - m.offset + 1 \in DOMAIN ob[m.build]
                        /\ ob[m.build][m.storage + x - m.offset + 1] = x

\* A map, and a list, is right on a set of blocks.
RightMap(m, S, lt, ob) == \A x \in S : Has(m, x) => Right(m, x, lt, ob)
RightOn(L, S, lt, ob) == \A i \in DOMAIN L : RightMap(L[i], S, lt, ob)

\* The fields of a map.
LEMMA MapFields ==
    ASSUME NEW m \in Map
    PROVE  /\ m.offset \in Nat /\ m.length \in Nat /\ m.length > 0 /\ m.build \in Int
           /\ m.storage \in Nat /\ EndOf(m) \in Nat /\ m.offset < EndOf(m)
           /\ m.build \in Nil..MaxLayers /\ m.storage <= m.offset
           /\ EndOf(m) = m.offset + m.length
<1>1. m \in MapRecord /\ m.storage <= m.offset
  BY DEF Map
<1>2. /\ m.offset \in Nat /\ m.length \in Nat /\ m.length > 0 /\ m.build \in Nil..MaxLayers
      /\ m.storage \in Nat
  BY <1>1 DEF MapRecord
<1>3. m.build \in Int
  BY <1>2, LayersAssumption DEF Nil
<1>4. QED
  BY <1>1, <1>2, <1>3 DEF EndOf

\* A map that is made of its fields.
LEMMA MapMade ==
    ASSUME NEW o \in Nat, NEW l \in Nat, l > 0, NEW g \in Nil..MaxLayers, NEW t \in Nat, t <= o,
           NEW m, m = [offset |-> o, length |-> l, build |-> g, storage |-> t]
    PROVE  /\ m \in Map /\ m.offset = o /\ m.length = l /\ m.build = g /\ m.storage = t
           /\ EndOf(m) = o + l
<1>1. m.offset = o /\ m.length = l /\ m.build = g /\ m.storage = t
  OBVIOUS
<1>2. m \in MapRecord
  BY DEF MapRecord
<1>3. QED
  BY <1>1, <1>2 DEF Map, EndOf

\* A list of maps by its indices.
LEMMA MapsView ==
    ASSUME NEW L \in Maps
    PROVE  /\ Len(L) \in Nat /\ DOMAIN L = 1..Len(L)
           /\ \A i \in 1..Len(L) : L[i] \in Map
           /\ L # <<>> => Len(L) > 0
BY LenProperties, ElementOfSeq, EmptySeq DEF Maps

\* The empty list has every property.
LEMMA EmptyFacts ==
    ASSUME NEW n, NEW S, NEW lt, NEW ob
    PROVE  /\ <<>> \in Maps /\ Ascending(<<>>) /\ AllFrom(<<>>, n) /\ AllTo(<<>>, n)
           /\ RightOn(<<>>, S, lt, ob)
           /\ \A x : ~Covers(<<>>, x)
<1>1. <<>> \in Maps /\ DOMAIN <<>> = {}
  BY EmptySeq DEF Maps
<1>2. QED
  BY <1>1 DEF Ascending, AllFrom, AllTo, RightOn, Covers

\* A map appended after all the others.
LEMMA AppendFacts ==
    ASSUME NEW L \in Maps, NEW m \in Map, NEW S, NEW lt, NEW ob
    PROVE  /\ Append(L, m) \in Maps
           /\ Append(L, m) # <<>>
           /\ \A x : Covers(Append(L, m), x) <=> Covers(L, x) \/ Has(m, x)
           /\ Ascending(L) /\ AllTo(L, m.offset) => Ascending(Append(L, m))
           /\ \A n \in Nat : AllTo(L, n) /\ EndOf(m) <= n => AllTo(Append(L, m), n)
           /\ RightOn(L, S, lt, ob) /\ RightMap(m, S, lt, ob) => RightOn(Append(L, m), S, lt, ob)
<1> DEFINE A == Append(L, m)
<1>1. /\ A \in Maps /\ A # <<>> /\ Len(A) = Len(L) + 1 /\ A[Len(A)] = m
      /\ \A i \in 1..Len(L) : A[i] = L[i]
  BY AppendProperties DEF Maps
<1>2. Len(L) \in Nat /\ DOMAIN L = 1..Len(L) /\ DOMAIN A = 1..(Len(L) + 1)
  BY <1>1, MapsView
<1>3. \A i \in DOMAIN A : i = Len(A) \/ (i \in DOMAIN L /\ A[i] = L[i])
  BY <1>1, <1>2
<1>4. Len(A) \in DOMAIN A /\ \A i \in DOMAIN L : i \in DOMAIN A /\ A[i] = L[i] /\ i < Len(A)
  BY <1>1, <1>2
<1>m. A[Len(A)] = m
  BY <1>1
<1> HIDE DEF A
<1>5. ASSUME NEW x PROVE Covers(A, x) <=> Covers(L, x) \/ Has(m, x)
  BY <1>3, <1>4, <1>m, Zenon DEF Covers
<1>6. ASSUME Ascending(L), AllTo(L, m.offset) PROVE Ascending(A)
  <2>1. ASSUME NEW i \in DOMAIN A, NEW j \in DOMAIN A, i < j PROVE EndOf(A[i]) <= A[j].offset
    <3>1. i \in DOMAIN L /\ A[i] = L[i]
      BY <1>1, <1>2, <1>3, <2>1
    <3>2. CASE j = Len(A)
      BY <1>m, <1>6, <3>1, <3>2 DEF AllTo
    <3>3. CASE j # Len(A)
      BY <1>3, <1>6, <2>1, <3>1, <3>3 DEF Ascending
    <3>4. QED
      BY <3>2, <3>3
  <2>2. QED
    BY <2>1 DEF Ascending
<1>7. ASSUME NEW n \in Nat, AllTo(L, n), EndOf(m) <= n PROVE AllTo(A, n)
  BY <1>3, <1>m, <1>7 DEF AllTo
<1>8. ASSUME RightOn(L, S, lt, ob), RightMap(m, S, lt, ob) PROVE RightOn(A, S, lt, ob)
  BY <1>3, <1>m, <1>8 DEF RightOn
<1>9. QED
  BY <1>1, <1>5, <1>6, <1>7, <1>8 DEF A

\* The head of a list and the rest.
LEMMA TailFacts ==
    ASSUME NEW L \in Maps, L # <<>>, NEW S, NEW lt, NEW ob
    PROVE  /\ Head(L) \in Map /\ Tail(L) \in Maps
           /\ \A x : Covers(L, x) <=> Has(Head(L), x) \/ Covers(Tail(L), x)
           /\ Ascending(L) => Ascending(Tail(L)) /\ AllFrom(Tail(L), EndOf(Head(L)))
           /\ \A n \in Nat : AllFrom(L, n) => n <= Head(L).offset /\ AllFrom(Tail(L), n)
           /\ \A n \in Nat : Ascending(L) /\ n <= Head(L).offset => AllFrom(L, n)
           /\ RightOn(L, S, lt, ob) => RightMap(Head(L), S, lt, ob) /\ RightOn(Tail(L), S, lt, ob)
<1> DEFINE T == Tail(L)
           h == Head(L)
<1>1. /\ h \in Map /\ T \in Maps /\ Len(T) = Len(L) - 1
      /\ \A i \in 1..Len(T) : T[i] = L[i + 1]
  BY HeadTailProperties DEF Maps
<1>h. h = L[1]
  BY DEF Maps
<1>2. Len(L) \in Nat /\ Len(L) > 0 /\ DOMAIN L = 1..Len(L) /\ DOMAIN T = 1..(Len(L) - 1)
  BY <1>1, MapsView
<1>3. 1 \in DOMAIN L /\ \A i \in DOMAIN L : i = 1 \/ (i - 1 \in DOMAIN T /\ L[i] = T[i - 1] /\ i > 1)
  <2>1. 1 \in DOMAIN L
    BY <1>2
  <2>2. ASSUME NEW i \in DOMAIN L, i # 1 PROVE i - 1 \in DOMAIN T /\ L[i] = T[i - 1] /\ i > 1
    <3>1. i - 1 \in 1..Len(T) /\ (i - 1) + 1 = i /\ i > 1
      BY <1>1, <1>2, <2>2
    <3>2. T[i - 1] = L[(i - 1) + 1]
      BY <1>1, <3>1
    <3>3. i - 1 \in DOMAIN T
      BY <1>1, <1>2, <3>1
    <3> HIDE DEF T
    <3>4. QED
      BY <3>1, <3>2, <3>3
  <2>3. QED
    BY <2>1, <2>2
<1>4. \A i \in DOMAIN T : i + 1 \in DOMAIN L /\ T[i] = L[i + 1] /\ i + 1 > 1 /\ i \in Nat
  BY <1>1, <1>2
<1> HIDE DEF T, h
<1>5. ASSUME NEW x PROVE Covers(L, x) <=> Has(h, x) \/ Covers(T, x)
  <2>1. ASSUME Covers(L, x) PROVE Has(h, x) \/ Covers(T, x)
    BY <1>3, <1>h, <2>1 DEF Covers
  <2>2. ASSUME Has(h, x) PROVE Covers(L, x)
    BY <1>3, <1>h, <2>2 DEF Covers
  <2>3. ASSUME Covers(T, x) PROVE Covers(L, x)
    BY <1>4, <2>3 DEF Covers
  <2>4. QED
    BY <2>1, <2>2, <2>3
<1>6. ASSUME Ascending(L) PROVE Ascending(T) /\ AllFrom(T, EndOf(h))
  <2>1. ASSUME NEW i \in DOMAIN T, NEW j \in DOMAIN T, i < j PROVE EndOf(T[i]) <= T[j].offset
    <3>1. i + 1 < j + 1
      BY <1>4, <2>1
    <3>2. QED
      BY <1>4, <1>6, <3>1 DEF Ascending
  <2>2. ASSUME NEW j \in DOMAIN T PROVE EndOf(h) <= T[j].offset
    BY <1>3, <1>4, <1>6, <1>h DEF Ascending
  <2>3. QED
    BY <2>1, <2>2 DEF Ascending, AllFrom
<1>7. ASSUME NEW n \in Nat, AllFrom(L, n) PROVE n <= h.offset /\ AllFrom(T, n)
  BY <1>3, <1>4, <1>7, <1>h DEF AllFrom
<1>8. ASSUME NEW n \in Nat, Ascending(L), n <= h.offset PROVE AllFrom(L, n)
  <2>1. ASSUME NEW j \in DOMAIN L, j # 1 PROVE n <= L[j].offset
    <3>1. EndOf(h) <= L[j].offset
      BY <1>3, <1>8, <1>h, <2>1 DEF Ascending
    <3>2. L[j] \in Map
      BY <1>2, MapsView
    <3>3. QED
      BY <1>1, <1>8, <3>1, <3>2, MapFields
  <2>2. QED
    BY <1>8, <1>h, <2>1 DEF AllFrom
<1>9. ASSUME RightOn(L, S, lt, ob) PROVE RightMap(h, S, lt, ob) /\ RightOn(T, S, lt, ob)
  BY <1>3, <1>4, <1>9, <1>h DEF RightOn
<1>10. QED
  BY <1>1, <1>5, <1>6, <1>7, <1>8, <1>9 DEF T, h

\* One list after another.
LEMMA CatFacts ==
    ASSUME NEW L \in Maps, NEW M \in Maps, NEW S, NEW lt, NEW ob
    PROVE  /\ L \o M \in Maps
           /\ \A x : Covers(L \o M, x) <=> Covers(L, x) \/ Covers(M, x)
           /\ \A n \in Nat : Ascending(L) /\ Ascending(M) /\ AllTo(L, n) /\ AllFrom(M, n)
                                 => Ascending(L \o M)
           /\ \A n \in Nat : AllFrom(L, n) /\ AllFrom(M, n) => AllFrom(L \o M, n)
           /\ RightOn(L, S, lt, ob) /\ RightOn(M, S, lt, ob) => RightOn(L \o M, S, lt, ob)
<1> DEFINE A == L \o M
<1>1. /\ A \in Maps /\ Len(A) = Len(L) + Len(M)
      /\ \A i \in 1..(Len(L) + Len(M)) : A[i] = IF i <= Len(L) THEN L[i] ELSE M[i - Len(L)]
  BY ConcatProperties DEF Maps
<1>2. /\ Len(L) \in Nat /\ DOMAIN L = 1..Len(L) /\ Len(M) \in Nat /\ DOMAIN M = 1..Len(M)
      /\ DOMAIN A = 1..(Len(L) + Len(M))
  BY <1>1, MapsView
<1> HIDE DEF A
<1>3. \A i \in DOMAIN A : \/ i \in DOMAIN L /\ A[i] = L[i]
                          \/ i > Len(L) /\ i - Len(L) \in DOMAIN M /\ A[i] = M[i - Len(L)]
  BY <1>1, <1>2
<1>4. \A i \in DOMAIN L : i \in DOMAIN A /\ A[i] = L[i]
  BY <1>1, <1>2
<1>5. \A i \in DOMAIN M : i + Len(L) \in DOMAIN A /\ A[i + Len(L)] = M[i]
  <2>1. ASSUME NEW i \in DOMAIN M PROVE i + Len(L) \in DOMAIN A /\ A[i + Len(L)] = M[i]
    <3>1. i + Len(L) \in 1..(Len(L) + Len(M)) /\ ~(i + Len(L) <= Len(L)) /\ (i + Len(L)) - Len(L) = i
      BY <1>2
    <3>2. QED
      BY <1>1, <1>2, <3>1
  <2>2. QED
    BY <2>1
<1>6. ASSUME NEW x PROVE Covers(A, x) <=> Covers(L, x) \/ Covers(M, x)
  <2>1. ASSUME Covers(A, x) PROVE Covers(L, x) \/ Covers(M, x)
    BY <1>3, <2>1 DEF Covers
  <2>2. ASSUME Covers(L, x) PROVE Covers(A, x)
    BY <1>4, <2>2 DEF Covers
  <2>3. ASSUME Covers(M, x) PROVE Covers(A, x)
    BY <1>5, <2>3 DEF Covers
  <2>4. QED
    BY <2>1, <2>2, <2>3
<1>7. ASSUME NEW n \in Nat, Ascending(L), Ascending(M), AllTo(L, n), AllFrom(M, n)
      PROVE  Ascending(A)
  <2>1. ASSUME NEW i \in DOMAIN A, NEW j \in DOMAIN A, i < j PROVE EndOf(A[i]) <= A[j].offset
    <3>1. CASE j \in DOMAIN L
      <4>1. i \in DOMAIN L
        BY <1>2, <2>1, <3>1
      <4>2. QED
        BY <1>4, <1>7, <2>1, <3>1, <4>1 DEF Ascending
    <3>2. CASE j \notin DOMAIN L /\ i \in DOMAIN L
      <4>1. j - Len(L) \in DOMAIN M /\ A[j] = M[j - Len(L)]
        BY <1>3, <3>2
      <4>2. EndOf(A[i]) <= n /\ n <= A[j].offset
        BY <1>4, <1>7, <3>2, <4>1 DEF AllTo, AllFrom
      <4>3. L[i] \in Map /\ M[j - Len(L)] \in Map /\ A[i] = L[i]
        BY <1>2, <1>4, <3>2, <4>1, MapsView
      <4>4. QED
        BY <4>1, <4>2, <4>3, MapFields
    <3>3. CASE j \notin DOMAIN L /\ i \notin DOMAIN L
      <4>1. /\ j - Len(L) \in DOMAIN M /\ A[j] = M[j - Len(L)]
            /\ i - Len(L) \in DOMAIN M /\ A[i] = M[i - Len(L)]
        BY <1>3, <3>3
      <4>2. i - Len(L) < j - Len(L)
        BY <1>2, <2>1
      <4>3. QED
        BY <1>7, <4>1, <4>2 DEF Ascending
    <3>4. QED
      BY <3>1, <3>2, <3>3
  <2>2. QED
    BY <2>1 DEF Ascending
<1>8. ASSUME NEW n \in Nat, AllFrom(L, n), AllFrom(M, n) PROVE AllFrom(A, n)
  BY <1>3, <1>8 DEF AllFrom
<1>9. ASSUME RightOn(L, S, lt, ob), RightOn(M, S, lt, ob) PROVE RightOn(A, S, lt, ob)
  BY <1>3, <1>9 DEF RightOn
<1>10. QED
  BY <1>1, <1>6, <1>7, <1>8, <1>9 DEF A

\* A list of one map.
LEMMA OneFacts ==
    ASSUME NEW m \in Map, NEW S, NEW lt, NEW ob
    PROVE  /\ <<m>> \in Maps /\ Ascending(<<m>>) /\ AllTo(<<m>>, EndOf(m)) /\ AllFrom(<<m>>, m.offset)
           /\ \A x : Covers(<<m>>, x) <=> Has(m, x)
           /\ RightMap(m, S, lt, ob) <=> RightOn(<<m>>, S, lt, ob)
           /\ \A n \in Nat : n <= m.offset => AllFrom(<<m>>, n)
<1> DEFINE A == <<m>>
<1>1. A \in Maps /\ DOMAIN A = {1} /\ A[1] = m
  BY DEF Maps
<1> HIDE DEF A
<1>2. QED
  <2>1. Ascending(A)
    BY <1>1 DEF Ascending
  <2>2. AllTo(A, EndOf(m)) /\ AllFrom(A, m.offset)
    BY <1>1, MapFields DEF AllTo, AllFrom
  <2>3. \A n \in Nat : n <= m.offset => AllFrom(A, n)
    BY <1>1 DEF AllFrom
  <2>4. \A x : Covers(A, x) <=> Has(m, x)
    BY <1>1 DEF Covers
  <2>5. RightMap(m, S, lt, ob) <=> RightOn(A, S, lt, ob)
    BY <1>1 DEF RightOn
  <2>6. QED
    BY <1>1, <2>1, <2>2, <2>3, <2>4, <2>5 DEF A

\* The loop of MergeMappings.  Up to n the result is final; from n on are what is left of base
\* (bs) and of diff (ds), the blocks of over are the ones diff has, and base is right on the
\* others.  The three lists together cover cov throughout.
MergingAt(n, ms, bs, ds, cov, over, lt, ob) ==
    /\ n \in Nat /\ ms \in Maps /\ bs \in Maps /\ ds \in Maps
    /\ Ascending(ms) /\ Ascending(bs) /\ Ascending(ds)
    /\ AllTo(ms, n) /\ AllFrom(bs, n) /\ AllFrom(ds, n)
    /\ \A x \in Nat : n <= x => (x \in over <=> Covers(ds, x))
    /\ \A x \in Nat : x \in cov <=> Covers(ms, x) \/ Covers(bs, x) \/ Covers(ds, x)
    /\ RightOn(ms, Nat, lt, ob) /\ RightOn(ds, Nat, lt, ob) /\ RightOn(bs, Nat \ over, lt, ob)

\* A list from n on covers no block before n.
LEMMA NotBefore ==
    ASSUME NEW L \in Maps, NEW n \in Nat, AllFrom(L, n), NEW x \in Nat, x < n
    PROVE  ~Covers(L, x)
<1>1. ASSUME NEW i \in DOMAIN L PROVE ~Has(L[i], x)
  <2>1. L[i] \in Map
    BY MapsView
  <2>2. n <= L[i].offset
    BY DEF AllFrom
  <2>3. QED
    BY <2>1, <2>2, MapFields DEF Has
<1>2. QED
  BY <1>1 DEF Covers

\* A list up to n covers no block from n on.
LEMMA NotAfter ==
    ASSUME NEW L \in Maps, NEW n \in Nat, AllTo(L, n), NEW x \in Nat, n <= x
    PROVE  ~Covers(L, x)
<1>1. ASSUME NEW i \in DOMAIN L PROVE ~Has(L[i], x)
  <2>1. L[i] \in Map
    BY MapsView
  <2>2. EndOf(L[i]) <= n
    BY DEF AllTo
  <2>3. QED
    BY <2>1, <2>2, MapFields DEF Has
<1>2. QED
  BY <1>1 DEF Covers

\* The bounds of a list may be loosened.
LEMMA Widen ==
    ASSUME NEW L \in Maps, NEW n \in Nat, NEW k \in Nat, n <= k
    PROVE  (AllTo(L, n) => AllTo(L, k)) /\ (AllFrom(L, k) => AllFrom(L, n))
<1>1. \A i \in DOMAIN L : EndOf(L[i]) \in Nat /\ L[i].offset \in Nat
  BY MapsView, MapFields
<1>2. QED
  BY <1>1 DEF AllTo, AllFrom

\* The first moves of the loop: the head of base is before all of diff and is kept.
LEMMA KeepBase ==
    ASSUME NEW n, NEW ms, NEW bs, NEW ds, NEW cov, NEW over, NEW lt, NEW ob,
           MergingAt(n, ms, bs, ds, cov, over, lt, ob),
           bs # <<>>, AllFrom(ds, EndOf(Head(bs)))
    PROVE  MergingAt(EndOf(Head(bs)), Append(ms, Head(bs)), Tail(bs), ds, cov, over, lt, ob)
<1> DEFINE b == Head(bs)
           e == EndOf(b)
           tl == Tail(bs)
           A == Append(ms, b)
<1>1. /\ n \in Nat /\ ms \in Maps /\ bs \in Maps /\ ds \in Maps
      /\ Ascending(ms) /\ Ascending(bs) /\ Ascending(ds)
      /\ AllTo(ms, n) /\ AllFrom(bs, n) /\ AllFrom(ds, n)
      /\ RightOn(ms, Nat, lt, ob) /\ RightOn(ds, Nat, lt, ob) /\ RightOn(bs, Nat \ over, lt, ob)
  BY DEF MergingAt
<1>2. /\ b \in Map /\ tl \in Maps
      /\ \A x : Covers(bs, x) <=> Has(b, x) \/ Covers(tl, x)
      /\ Ascending(tl) /\ AllFrom(tl, e) /\ n <= b.offset
      /\ RightMap(b, Nat \ over, lt, ob) /\ RightOn(tl, Nat \ over, lt, ob)
  BY <1>1, TailFacts
<1> HIDE DEF b, tl
<1>3. e \in Nat /\ b.offset \in Nat /\ b.offset < e /\ n <= e
  BY <1>1, <1>2, MapFields
<1>4. RightMap(b, Nat, lt, ob)
  <2>1. ASSUME NEW x \in Nat, Has(b, x) PROVE x \notin over
    <3>1. n <= x /\ x < e
      BY <1>1, <1>2, <1>3, <2>1 DEF Has
    <3>2. ~Covers(ds, x)
      BY <1>1, <1>3, <3>1, NotBefore DEF b
    <3>3. QED
      BY <3>1, <3>2 DEF MergingAt
  <2>2. QED
    BY <1>2, <2>1 DEF RightMap
<1>5. AllTo(ms, b.offset) /\ AllTo(ms, e)
  BY <1>1, <1>2, <1>3, Widen
<1>6. /\ A \in Maps
      /\ \A x : Covers(A, x) <=> Covers(ms, x) \/ Has(b, x)
      /\ Ascending(A) /\ RightOn(A, Nat, lt, ob)
  BY <1>1, <1>2, <1>4, <1>5, AppendFacts
<1>7. AllTo(A, e)
  BY <1>1, <1>2, <1>3, <1>5, AppendFacts
<1> HIDE DEF A
<1>8. \A x \in Nat : x \in cov <=> Covers(A, x) \/ Covers(tl, x) \/ Covers(ds, x)
  BY <1>2, <1>6 DEF MergingAt
<1>9. \A x \in Nat : e <= x => (x \in over <=> Covers(ds, x))
  BY <1>1, <1>3 DEF MergingAt
<1>10. AllFrom(ds, e)
  BY DEF b
<1> HIDE DEF e
<1>11. MergingAt(e, A, tl, ds, cov, over, lt, ob)
  BY <1>1, <1>2, <1>3, <1>6, <1>7, <1>8, <1>9, <1>10 DEF MergingAt
<1>12. QED
  BY <1>11 DEF A, tl, e, b

\* The head of diff is before all of base and is kept.
LEMMA KeepDiff ==
    ASSUME NEW n, NEW ms, NEW bs, NEW ds, NEW cov, NEW over, NEW lt, NEW ob,
           MergingAt(n, ms, bs, ds, cov, over, lt, ob),
           ds # <<>>, AllFrom(bs, EndOf(Head(ds)))
    PROVE  MergingAt(EndOf(Head(ds)), Append(ms, Head(ds)), bs, Tail(ds), cov, over, lt, ob)
<1> DEFINE d == Head(ds)
           e == EndOf(d)
           tl == Tail(ds)
           A == Append(ms, d)
<1>1. /\ n \in Nat /\ ms \in Maps /\ bs \in Maps /\ ds \in Maps
      /\ Ascending(ms) /\ Ascending(bs) /\ Ascending(ds)
      /\ AllTo(ms, n) /\ AllFrom(bs, n) /\ AllFrom(ds, n)
      /\ RightOn(ms, Nat, lt, ob) /\ RightOn(ds, Nat, lt, ob) /\ RightOn(bs, Nat \ over, lt, ob)
  BY DEF MergingAt
<1>2. /\ d \in Map /\ tl \in Maps
      /\ \A x : Covers(ds, x) <=> Has(d, x) \/ Covers(tl, x)
      /\ Ascending(tl) /\ AllFrom(tl, e) /\ n <= d.offset
      /\ RightMap(d, Nat, lt, ob) /\ RightOn(tl, Nat, lt, ob)
  BY <1>1, TailFacts
<1> HIDE DEF d, tl
<1>3. e \in Nat /\ d.offset \in Nat /\ d.offset < e /\ n <= e
  BY <1>1, <1>2, MapFields
<1>5. AllTo(ms, d.offset) /\ AllTo(ms, e)
  BY <1>1, <1>2, <1>3, Widen
<1>6. /\ A \in Maps
      /\ \A x : Covers(A, x) <=> Covers(ms, x) \/ Has(d, x)
      /\ Ascending(A) /\ RightOn(A, Nat, lt, ob)
  BY <1>1, <1>2, <1>5, AppendFacts
<1>7. AllTo(A, e)
  BY <1>1, <1>2, <1>3, <1>5, AppendFacts
<1> HIDE DEF A
<1>8. \A x \in Nat : x \in cov <=> Covers(A, x) \/ Covers(bs, x) \/ Covers(tl, x)
  BY <1>2, <1>6 DEF MergingAt
<1>9. \A x \in Nat : e <= x => (x \in over <=> Covers(tl, x))
  <2>1. ASSUME NEW x \in Nat, e <= x PROVE x \in over <=> Covers(tl, x)
    <3>1. n <= x /\ ~Has(d, x)
      BY <1>1, <1>3, <2>1 DEF Has
    <3>2. QED
      BY <1>2, <3>1 DEF MergingAt
  <2>2. QED
    BY <2>1
<1>10. AllFrom(bs, e)
  BY DEF d
<1> HIDE DEF e
<1>11. MergingAt(e, A, bs, tl, cov, over, lt, ob)
  BY <1>1, <1>2, <1>3, <1>6, <1>7, <1>8, <1>9, <1>10 DEF MergingAt
<1>12. QED
  BY <1>11 DEF A, tl, e, d

\* The head of base is inside the head of diff and is dropped.
LEMMA DropBase ==
    ASSUME NEW n, NEW ms, NEW bs, NEW ds, NEW cov, NEW over, NEW lt, NEW ob,
           MergingAt(n, ms, bs, ds, cov, over, lt, ob),
           bs # <<>>, ds # <<>>, Inside(Head(bs), Head(ds))
    PROVE  MergingAt(n, ms, Tail(bs), ds, cov, over, lt, ob)
<1> DEFINE b == Head(bs)
           d == Head(ds)
           tl == Tail(bs)
<1>1. /\ n \in Nat /\ ms \in Maps /\ bs \in Maps /\ ds \in Maps
      /\ Ascending(ms) /\ Ascending(bs) /\ Ascending(ds)
      /\ AllTo(ms, n) /\ AllFrom(bs, n) /\ AllFrom(ds, n)
      /\ RightOn(ms, Nat, lt, ob) /\ RightOn(ds, Nat, lt, ob) /\ RightOn(bs, Nat \ over, lt, ob)
  BY DEF MergingAt
<1>2. /\ b \in Map /\ tl \in Maps
      /\ \A x : Covers(bs, x) <=> Has(b, x) \/ Covers(tl, x)
      /\ Ascending(tl) /\ AllFrom(tl, n)
      /\ RightOn(tl, Nat \ over, lt, ob)
  BY <1>1, TailFacts
<1>3. d \in Map /\ \A x : Has(d, x) => Covers(ds, x)
  BY <1>1, TailFacts
<1>4. Inside(b, d)
  OBVIOUS
<1> HIDE DEF b, d, tl
<1>5. ASSUME NEW x \in Nat, Has(b, x) PROVE Covers(ds, x)
  <2>1. Has(d, x)
    BY <1>2, <1>3, <1>4, <1>5, MapFields DEF Has, Inside
  <2>2. QED
    BY <1>3, <2>1
<1>6. \A x \in Nat : x \in cov <=> Covers(ms, x) \/ Covers(tl, x) \/ Covers(ds, x)
  BY <1>2, <1>5 DEF MergingAt
<1>7. \A x \in Nat : n <= x => (x \in over <=> Covers(ds, x))
  BY DEF MergingAt
<1>8. MergingAt(n, ms, tl, ds, cov, over, lt, ob)
  BY <1>1, <1>2, <1>6, <1>7 DEF MergingAt
<1>9. QED
  BY <1>8 DEF tl

\* The right part of a map is right where the map is: its storage offset is shifted as its
\* offset is.
LEMMA RightPartFacts ==
    ASSUME NEW m \in Map, NEW k \in Nat, m.offset <= k, k < EndOf(m), NEW S, NEW lt, NEW ob,
           S \subseteq Nat
    PROVE  /\ RightPart(m, k) \in Map
           /\ RightPart(m, k).offset = k /\ EndOf(RightPart(m, k)) = EndOf(m)
           /\ \A x \in Nat : Has(RightPart(m, k), x) <=> k <= x /\ Has(m, x)
           /\ RightMap(m, S, lt, ob) => RightMap(RightPart(m, k), S, lt, ob)
<1> DEFINE r == RightPart(m, k)
<1>1. /\ r.offset = k /\ r.length = EndOf(m) - k /\ r.build = m.build
      /\ r.storage = m.storage + k - m.offset
  BY DEF RightPart, BuildMap
<1>2. r = [offset |-> r.offset, length |-> r.length, build |-> r.build, storage |-> r.storage]
  BY DEF RightPart, BuildMap
<1>3. /\ m.offset \in Nat /\ m.length \in Nat /\ m.length > 0 /\ m.build \in Int
      /\ m.storage \in Nat /\ EndOf(m) \in Nat /\ m.offset < EndOf(m)
  BY MapFields
<1> HIDE DEF r
<1>4. /\ r.offset \in Nat /\ r.length \in Nat \ {0} /\ r.build \in Int /\ r.storage \in Nat
      /\ EndOf(r) = EndOf(m)
  <2>1. r.length \in Nat \ {0} /\ r.storage \in Nat
    BY <1>1, <1>3
  <2>2. EndOf(r) = EndOf(m)
    <3>1. EndOf(r) = k + (EndOf(m) - k)
      BY <1>1 DEF EndOf
    <3>2. QED
      BY <1>3, <3>1
  <2>3. QED
    BY <1>1, <1>3, <2>1, <2>2
<1>5. r \in Map
  <2>1. r.storage <= r.offset /\ r.length > 0 /\ r.build \in Nil..MaxLayers
    BY <1>1, <1>3, <1>4, MapFields
  <2>2. QED
    BY <1>2, <1>4, <2>1, MapMade
<1>6. \A x \in Nat : Has(r, x) <=> k <= x /\ Has(m, x)
  BY <1>1, <1>3, <1>4 DEF Has
<1>7. ASSUME RightMap(m, S, lt, ob) PROVE RightMap(r, S, lt, ob)
  <2>1. ASSUME NEW x \in S, Has(r, x) PROVE Right(r, x, lt, ob)
    <3>1. x \in Nat
      OBVIOUS
    <3>2. Right(m, x, lt, ob)
      BY <1>6, <1>7, <2>1, <3>1 DEF RightMap
    <3>3. r.storage + x - r.offset + 1 = m.storage + x - m.offset + 1
      BY <1>1, <1>3, <3>1
    <3>4. QED
      BY <1>1, <3>2, <3>3 DEF Right
  <2>2. QED
    BY <2>1 DEF RightMap
<1>8. QED
  BY <1>1, <1>4, <1>5, <1>6, <1>7 DEF r

\* The left part of a map is right where the map is.
LEMMA LeftPartFacts ==
    ASSUME NEW m \in Map, NEW k \in Nat, m.offset < k, k <= EndOf(m), NEW S, NEW lt, NEW ob,
           S \subseteq Nat
    PROVE  /\ LeftPart(m, k) \in Map
           /\ LeftPart(m, k).offset = m.offset /\ EndOf(LeftPart(m, k)) = k
           /\ \A x \in Nat : Has(LeftPart(m, k), x) <=> x < k /\ Has(m, x)
           /\ RightMap(m, S, lt, ob) => RightMap(LeftPart(m, k), S, lt, ob)
<1> DEFINE r == LeftPart(m, k)
<1>0. m = [offset |-> m.offset, length |-> m.length, build |-> m.build, storage |-> m.storage]
  BY DEF Map, MapRecord
<1>1. r = [offset |-> m.offset, length |-> k - m.offset, build |-> m.build, storage |-> m.storage]
  BY <1>0 DEF LeftPart
<1>2. /\ r.offset = m.offset /\ r.length = k - m.offset /\ r.build = m.build
      /\ r.storage = m.storage
  BY <1>1
<1>3. /\ m.offset \in Nat /\ m.length \in Nat /\ m.length > 0 /\ m.build \in Int
      /\ m.storage \in Nat /\ EndOf(m) \in Nat /\ m.offset < EndOf(m)
  BY MapFields
<1>5. r \in Map
  <2>1. k - m.offset \in Nat /\ k - m.offset > 0
    BY <1>3
  <2>2. m.build \in Nil..MaxLayers /\ m.storage <= m.offset
    BY MapFields
  <2>3. QED
    BY <1>1, <1>3, <2>1, <2>2, MapMade
<1> HIDE DEF r
<1>4. EndOf(r) = k
  BY <1>2, <1>3 DEF EndOf
<1>6. \A x \in Nat : Has(r, x) <=> x < k /\ Has(m, x)
  BY <1>2, <1>3, <1>4 DEF Has
<1>7. ASSUME RightMap(m, S, lt, ob) PROVE RightMap(r, S, lt, ob)
  <2>1. ASSUME NEW x \in S, Has(r, x) PROVE Right(r, x, lt, ob)
    <3>1. x \in Nat
      OBVIOUS
    <3>2. Right(m, x, lt, ob)
      BY <1>6, <1>7, <2>1, <3>1 DEF RightMap
    <3>4. QED
      BY <1>2, <3>2 DEF Right
  <2>2. QED
    BY <2>1 DEF RightMap
<1>8. QED
  BY <1>2, <1>4, <1>5, <1>6, <1>7 DEF r

\* Base with its head cut on the left.
LEMMA NewHead ==
    ASSUME NEW L \in Maps, L # <<>>, Ascending(L), NEW k \in Nat, Head(L).offset <= k,
           k < EndOf(Head(L)), NEW S, NEW lt, NEW ob, S \subseteq Nat
    PROVE  LET A == <<RightPart(Head(L), k)>> \o Tail(L) IN
           /\ A \in Maps /\ A # <<>> /\ Head(A) = RightPart(Head(L), k) /\ Tail(A) = Tail(L)
           /\ Ascending(A) /\ AllFrom(A, k)
           /\ \A x \in Nat : Covers(A, x) <=> (k <= x /\ Has(Head(L), x)) \/ Covers(Tail(L), x)
           /\ RightOn(L, S, lt, ob) => RightOn(A, S, lt, ob)
<1> DEFINE h == Head(L)
           r == RightPart(h, k)
           tl == Tail(L)
           A == <<r>> \o tl
<1>1. /\ h \in Map /\ tl \in Maps /\ Ascending(tl) /\ AllFrom(tl, EndOf(h))
      /\ RightOn(L, S, lt, ob) => RightMap(h, S, lt, ob) /\ RightOn(tl, S, lt, ob)
  BY TailFacts
<1> HIDE DEF h, tl
<1>2. /\ r \in Map /\ r.offset = k /\ EndOf(r) = EndOf(h)
      /\ \A x \in Nat : Has(r, x) <=> k <= x /\ Has(h, x)
      /\ RightMap(h, S, lt, ob) => RightMap(r, S, lt, ob)
  BY <1>1, RightPartFacts DEF h
<1> HIDE DEF r
<1>3. /\ <<r>> \in Maps /\ Ascending(<<r>>) /\ AllTo(<<r>>, EndOf(h)) /\ AllFrom(<<r>>, k)
      /\ \A x : Covers(<<r>>, x) <=> Has(r, x)
      /\ RightMap(r, S, lt, ob) <=> RightOn(<<r>>, S, lt, ob)
  BY <1>2, OneFacts
<1>4. EndOf(h) \in Nat /\ k <= EndOf(h)
  BY <1>1, MapFields DEF h
<1>5. AllFrom(tl, k)
  BY <1>1, <1>4, Widen
<1>6. /\ A \in Maps
      /\ \A x : Covers(A, x) <=> Covers(<<r>>, x) \/ Covers(tl, x)
      /\ RightOn(<<r>>, S, lt, ob) /\ RightOn(tl, S, lt, ob) => RightOn(A, S, lt, ob)
  BY <1>1, <1>3, CatFacts
<1>7. Ascending(A)
  BY <1>1, <1>3, <1>4, CatFacts
<1>8. AllFrom(A, k)
  BY <1>1, <1>3, <1>5, CatFacts
<1>9. A # <<>> /\ Head(A) = r /\ Tail(A) = tl
  BY <1>1, <1>2 DEF Maps
<1> HIDE DEF A
<1>10. /\ \A x \in Nat : Covers(A, x) <=> (k <= x /\ Has(h, x)) \/ Covers(tl, x)
       /\ RightOn(L, S, lt, ob) => RightOn(A, S, lt, ob)
  BY <1>1, <1>2, <1>3, <1>6
<1>11. QED
  BY <1>6, <1>7, <1>8, <1>9, <1>10 DEF A, r, h, tl

\* The left part of base's head is inside the head of diff: it is cut off.
LEMMA TrimBase ==
    ASSUME NEW n, NEW ms, NEW bs, NEW ds, NEW cov, NEW over, NEW lt, NEW ob, NEW k \in Nat,
           MergingAt(n, ms, bs, ds, cov, over, lt, ob),
           bs # <<>>, ds # <<>>, Head(bs).offset <= k, k < EndOf(Head(bs)),
           Head(ds).offset <= Head(bs).offset, k <= EndOf(Head(ds))
    PROVE  MergingAt(n, ms, <<RightPart(Head(bs), k)>> \o Tail(bs), ds, cov, over, lt, ob)
<1> DEFINE b == Head(bs)
           d == Head(ds)
           A == <<RightPart(b, k)>> \o Tail(bs)
<1>1. /\ n \in Nat /\ ms \in Maps /\ bs \in Maps /\ ds \in Maps
      /\ Ascending(ms) /\ Ascending(bs) /\ Ascending(ds)
      /\ AllTo(ms, n) /\ AllFrom(bs, n) /\ AllFrom(ds, n)
      /\ RightOn(ms, Nat, lt, ob) /\ RightOn(ds, Nat, lt, ob) /\ RightOn(bs, Nat \ over, lt, ob)
  BY DEF MergingAt
<1>2. /\ b \in Map
      /\ \A x : Covers(bs, x) <=> Has(b, x) \/ Covers(Tail(bs), x)
      /\ n <= b.offset
  BY <1>1, TailFacts
<1>3. d \in Map /\ \A x : Has(d, x) => Covers(ds, x)
  BY <1>1, TailFacts
<1>4. Nat \ over \subseteq Nat
  OBVIOUS
<1>5. /\ A \in Maps /\ Ascending(A) /\ AllFrom(A, k)
      /\ \A x \in Nat : Covers(A, x) <=> (k <= x /\ Has(b, x)) \/ Covers(Tail(bs), x)
      /\ RightOn(A, Nat \ over, lt, ob)
  BY <1>1, <1>4, NewHead
<1>6. b.offset <= k /\ d.offset <= b.offset /\ k <= EndOf(d)
  OBVIOUS
<1> HIDE DEF A, b, d
<1>7. AllFrom(A, n)
  BY <1>1, <1>2, <1>5, <1>6, Widen, MapFields
<1>8. ASSUME NEW x \in Nat, Has(b, x), ~(k <= x) PROVE Covers(ds, x)
  <2>1. Has(d, x)
    BY <1>2, <1>3, <1>6, <1>8, MapFields DEF Has
  <2>2. QED
    BY <1>3, <2>1
<1>9. \A x \in Nat : x \in cov <=> Covers(ms, x) \/ Covers(A, x) \/ Covers(ds, x)
  BY <1>2, <1>5, <1>8 DEF MergingAt
<1>10. \A x \in Nat : n <= x => (x \in over <=> Covers(ds, x))
  BY DEF MergingAt
<1>11. MergingAt(n, ms, A, ds, cov, over, lt, ob)
  BY <1>1, <1>5, <1>7, <1>9, <1>10 DEF MergingAt
<1>12. QED
  BY <1>11 DEF A, b

\* The left part of base's head is before all of diff: it is kept, and the right part is left.
LEMMA KeepLeft ==
    ASSUME NEW n, NEW ms, NEW bs, NEW ds, NEW cov, NEW over, NEW lt, NEW ob, NEW k \in Nat,
           MergingAt(n, ms, bs, ds, cov, over, lt, ob),
           bs # <<>>, Head(bs).offset < k, k < EndOf(Head(bs)), AllFrom(ds, k)
    PROVE  MergingAt(k, Append(ms, LeftPart(Head(bs), k)), <<RightPart(Head(bs), k)>> \o Tail(bs),
                     ds, cov, over, lt, ob)
<1> DEFINE b == Head(bs)
           l == LeftPart(b, k)
           M == Append(ms, l)
           A == <<RightPart(b, k)>> \o Tail(bs)
<1>1. /\ n \in Nat /\ ms \in Maps /\ bs \in Maps /\ ds \in Maps
      /\ Ascending(ms) /\ Ascending(bs) /\ Ascending(ds)
      /\ AllTo(ms, n) /\ AllFrom(bs, n) /\ AllFrom(ds, n)
      /\ RightOn(ms, Nat, lt, ob) /\ RightOn(ds, Nat, lt, ob) /\ RightOn(bs, Nat \ over, lt, ob)
  BY DEF MergingAt
<1>2. /\ b \in Map
      /\ \A x : Covers(bs, x) <=> Has(b, x) \/ Covers(Tail(bs), x)
      /\ n <= b.offset /\ RightMap(b, Nat \ over, lt, ob)
  BY <1>1, TailFacts
<1>a. b.offset \in Nat /\ EndOf(b) \in Nat
  BY <1>2, MapFields
<1>4. Nat \ over \subseteq Nat /\ b.offset <= k /\ k <= EndOf(b) /\ n <= k
  BY <1>1, <1>2, <1>a
<1>5. /\ A \in Maps /\ Ascending(A) /\ AllFrom(A, k)
      /\ \A x \in Nat : Covers(A, x) <=> (k <= x /\ Has(b, x)) \/ Covers(Tail(bs), x)
      /\ RightOn(A, Nat \ over, lt, ob)
  BY <1>1, <1>4, NewHead
<1>6. /\ l \in Map /\ l.offset = b.offset /\ EndOf(l) = k
      /\ \A x \in Nat : Has(l, x) <=> x < k /\ Has(b, x)
      /\ RightMap(l, Nat \ over, lt, ob)
  BY <1>2, <1>4, LeftPartFacts
<1> HIDE DEF A, b, l
<1>7. RightMap(l, Nat, lt, ob)
  <2>1. ASSUME NEW x \in Nat, Has(l, x) PROVE x \notin over
    <3>1. n <= x /\ x < k
      BY <1>1, <1>2, <1>a, <1>6, <2>1 DEF Has
    <3>2. ~Covers(ds, x)
      BY <1>1, <3>1, NotBefore
    <3>3. QED
      BY <3>1, <3>2 DEF MergingAt
  <2>2. QED
    BY <1>6, <2>1 DEF RightMap
<1>8. AllTo(ms, l.offset) /\ AllTo(ms, k)
  BY <1>1, <1>2, <1>4, <1>6, <1>a, Widen
<1>9. /\ M \in Maps /\ Ascending(M) /\ RightOn(M, Nat, lt, ob)
      /\ \A x : Covers(M, x) <=> Covers(ms, x) \/ Has(l, x)
  BY <1>1, <1>6, <1>7, <1>8, AppendFacts
<1>10. AllTo(M, k)
  <2>1. EndOf(l) <= k
    BY <1>6
  <2>2. QED
    BY <1>1, <1>6, <1>8, <2>1, AppendFacts
<1> HIDE DEF M
<1>11. \A x \in Nat : x \in cov <=> Covers(M, x) \/ Covers(A, x) \/ Covers(ds, x)
  <2>1. ASSUME NEW x \in Nat PROVE x \in cov <=> Covers(M, x) \/ Covers(A, x) \/ Covers(ds, x)
    <3>1. x < k \/ k <= x
      OBVIOUS
    <3>2. QED
      BY <1>2, <1>5, <1>6, <1>9, <3>1 DEF MergingAt
  <2>2. QED
    BY <2>1
<1>12. \A x \in Nat : k <= x => (x \in over <=> Covers(ds, x))
  BY <1>1, <1>4 DEF MergingAt
<1>13. MergingAt(k, M, A, ds, cov, over, lt, ob)
  BY <1>1, <1>5, <1>9, <1>10, <1>11, <1>12 DEF MergingAt
<1>14. QED
  BY <1>13 DEF A, b, M, l

\* A list that ascends, covers exactly cov, and is right on S.
Layered(L, cov, S, lt, ob) ==
    /\ L \in Maps /\ Ascending(L)
    /\ \A x \in Nat : x \in cov <=> Covers(L, x)
    /\ RightOn(L, S, lt, ob)

\* MergeMappings starts with a diff that is right, and a base that is right elsewhere.
LEMMA MergeStarts ==
    ASSUME NEW bs, NEW ds, NEW under, NEW over, NEW cov, NEW lt, NEW ob, cov = under \cup over,
           Layered(bs, under, Nat \ over, lt, ob), Layered(ds, over, Nat, lt, ob)
    PROVE  MergingAt(0, <<>>, bs, ds, cov, over, lt, ob)
<1>1. /\ bs \in Maps /\ ds \in Maps /\ Ascending(bs) /\ Ascending(ds)
      /\ RightOn(bs, Nat \ over, lt, ob) /\ RightOn(ds, Nat, lt, ob)
      /\ \A x \in Nat : x \in under <=> Covers(bs, x)
      /\ \A x \in Nat : x \in over <=> Covers(ds, x)
  BY DEF Layered
<1>2. AllFrom(bs, 0) /\ AllFrom(ds, 0)
  <2>1. ASSUME NEW L \in Maps PROVE AllFrom(L, 0)
    BY MapsView, MapFields DEF AllFrom
  <2>2. QED
    BY <1>1, <2>1
<1>3. /\ <<>> \in Maps /\ Ascending(<<>>) /\ AllTo(<<>>, 0) /\ RightOn(<<>>, Nat, lt, ob)
      /\ \A x : ~Covers(<<>>, x)
  BY EmptyFacts
<1> DEFINE e == <<>>
<1>4. /\ e \in Maps /\ Ascending(e) /\ AllTo(e, 0) /\ RightOn(e, Nat, lt, ob)
      /\ \A x : ~Covers(e, x)
  BY <1>3
<1> HIDE DEF e
<1>5. \A x \in Nat : x \in cov <=> Covers(e, x) \/ Covers(bs, x) \/ Covers(ds, x)
  BY <1>1, <1>4
<1>6. MergingAt(0, e, bs, ds, cov, over, lt, ob)
  BY <1>1, <1>2, <1>4, <1>5 DEF MergingAt
<1>7. QED
  BY <1>6 DEF e

\* When one list is used up, the result and the rest are right everywhere.
LEMMA MergeEnds ==
    ASSUME NEW n, NEW ms, NEW bs, NEW ds, NEW cov, NEW over, NEW lt, NEW ob,
           MergingAt(n, ms, bs, ds, cov, over, lt, ob), bs = <<>> \/ ds = <<>>
    PROVE  Layered(ms \o bs \o ds, cov, Nat, lt, ob)
<1>1. /\ n \in Nat /\ ms \in Maps /\ bs \in Maps /\ ds \in Maps
      /\ Ascending(ms) /\ Ascending(bs) /\ Ascending(ds)
      /\ AllTo(ms, n) /\ AllFrom(bs, n) /\ AllFrom(ds, n)
      /\ RightOn(ms, Nat, lt, ob) /\ RightOn(ds, Nat, lt, ob) /\ RightOn(bs, Nat \ over, lt, ob)
      /\ \A x \in Nat : x \in cov <=> Covers(ms, x) \/ Covers(bs, x) \/ Covers(ds, x)
  BY DEF MergingAt
<1>2. CASE bs = <<>>
  <2> DEFINE A == ms \o ds
  <2>1. ms \o bs \o ds = A
    BY <1>1, <1>2, ConcatEmptySeq DEF Maps
  <2>2. A \in Maps /\ (\A x : Covers(A, x) <=> Covers(ms, x) \/ Covers(ds, x)) /\ RightOn(A, Nat, lt, ob)
    BY <1>1, CatFacts
  <2>3. Ascending(A)
    BY <1>1, CatFacts
  <2> HIDE DEF A
  <2>4. \A x : ~Covers(bs, x)
    BY <1>2, EmptyFacts
  <2>5. Layered(A, cov, Nat, lt, ob)
    BY <1>1, <2>2, <2>3, <2>4 DEF Layered
  <2>6. QED
    BY <2>1, <2>5
<1>3. CASE ds = <<>>
  <2> DEFINE A == ms \o bs
  <2>0. A \in Maps
    BY <1>1, CatFacts
  <2>1. ms \o bs \o ds = A
    <3>1. A \o <<>> = A
      BY <2>0, ConcatEmptySeq DEF Maps
    <3>2. QED
      BY <1>3, <3>1
  <2>4. \A x : ~Covers(ds, x)
    BY <1>3, EmptyFacts
  <2>5. RightOn(bs, Nat, lt, ob)
    <3>1. ASSUME NEW i \in DOMAIN bs, NEW x \in Nat, Has(bs[i], x) PROVE x \notin over
      <4>1. bs[i] \in Map /\ n <= bs[i].offset
        BY <1>1, MapsView DEF AllFrom
      <4>2. n <= x
        BY <1>1, <3>1, <4>1, MapFields DEF Has
      <4>3. QED
        BY <2>4, <4>2 DEF MergingAt
    <3>2. QED
      BY <1>1, <3>1 DEF RightOn, RightMap
  <2>2. (\A x : Covers(A, x) <=> Covers(ms, x) \/ Covers(bs, x)) /\ RightOn(A, Nat, lt, ob)
    BY <1>1, <2>5, CatFacts
  <2>3. Ascending(A)
    BY <1>1, CatFacts
  <2> HIDE DEF A
  <2>6. Layered(A, cov, Nat, lt, ob)
    BY <1>1, <2>0, <2>2, <2>3, <2>4 DEF Layered
  <2>7. QED
    BY <2>1, <2>6
<1>4. QED
  BY <1>2, <1>3

-----------------------------------------------------------------------------
\* The last map of a list, and the others.
LastMap(L) == L[Len(L)]
AllButLast(L) == SubSeq(L, 1, Len(L) - 1)

\* The list without its last map by its indices.
LEMMA AllButLastView ==
    ASSUME NEW L \in Maps, L # <<>>
    PROVE  /\ AllButLast(L) \in Maps /\ Len(AllButLast(L)) = Len(L) - 1
           /\ \A i \in 1..(Len(L) - 1) : AllButLast(L)[i] = L[i]
<1> DEFINE F == AllButLast(L)
<1>1. Len(L) \in Nat /\ Len(L) > 0 /\ \A i \in 1..Len(L) : L[i] \in Map
  BY MapsView
<1>2. \A i \in 1..(Len(L) - 1) : L[i] \in Map
  BY <1>1
<1>3. Len(L) - 1 \in Int /\ 1 \in Int
  BY <1>1
<1>4. /\ SubSeq(L, 1, Len(L) - 1) \in Seq(Map)
      /\ Len(SubSeq(L, 1, Len(L) - 1)) = IF 1 <= Len(L) - 1 THEN Len(L) - 1 - 1 + 1 ELSE 0
      /\ \A i \in 1..(Len(L) - 1 - 1 + 1) : SubSeq(L, 1, Len(L) - 1)[i] = L[1 + i - 1]
  BY <1>2, <1>3, SubSeqProperties
<1>5. F = SubSeq(L, 1, Len(L) - 1)
  BY DEF AllButLast
<1> HIDE DEF F
<1>6. Len(F) = Len(L) - 1
  <2> DEFINE n == Len(L)
             k == Len(F)
  <2>1. n \in Nat /\ n > 0
    BY <1>1
  <2>2. k = IF 1 <= n - 1 THEN n - 1 - 1 + 1 ELSE 0
    BY <1>4, <1>5
  <2> HIDE DEF n, k
  <2>3. k = n - 1
    BY <2>1, <2>2
  <2>4. QED
    BY <2>3 DEF n, k
<1>7. ASSUME NEW i \in 1..(Len(L) - 1) PROVE F[i] = L[i]
  <2>1. i \in 1..(Len(L) - 1 - 1 + 1) /\ 1 + i - 1 = i
    BY <1>1
  <2>2. QED
    BY <1>4, <1>5, <2>1
<1>8. F \in Maps
  BY <1>4, <1>5 DEF Maps
<1>9. QED
  BY <1>6, <1>7, <1>8 DEF F

\* The last map of a list and the ones before it.
LEMMA FrontFacts ==
    ASSUME NEW L \in Maps, L # <<>>, NEW S, NEW lt, NEW ob
    PROVE  /\ LastMap(L) \in Map /\ AllButLast(L) \in Maps
           /\ \A x : Covers(L, x) <=> Covers(AllButLast(L), x) \/ Has(LastMap(L), x)
           /\ Ascending(L) => Ascending(AllButLast(L)) /\ AllTo(AllButLast(L), LastMap(L).offset)
           /\ \A n \in Nat : AllTo(L, n) => EndOf(LastMap(L)) <= n /\ AllTo(AllButLast(L), n)
           /\ RightOn(L, S, lt, ob) => RightMap(LastMap(L), S, lt, ob) /\ RightOn(AllButLast(L), S, lt, ob)
<1> DEFINE F == AllButLast(L)
           h == LastMap(L)
<1>1. Len(L) \in Nat /\ Len(L) > 0 /\ DOMAIN L = 1..Len(L) /\ \A i \in 1..Len(L) : L[i] \in Map
  BY MapsView
<1>2. F \in Maps /\ Len(F) = Len(L) - 1 /\ \A i \in 1..(Len(L) - 1) : F[i] = L[i]
  BY AllButLastView
<1>3. DOMAIN F = 1..(Len(L) - 1)
  BY <1>2, MapsView
<1>h. h = L[Len(L)] /\ h \in Map /\ Len(L) \in DOMAIN L
  BY <1>1 DEF LastMap
<1> HIDE DEF F, h
<1>4. \A i \in DOMAIN L : i = Len(L) \/ (i \in DOMAIN F /\ F[i] = L[i])
  BY <1>1, <1>2, <1>3
<1>5. \A i \in DOMAIN F : i \in DOMAIN L /\ F[i] = L[i] /\ i < Len(L)
  BY <1>1, <1>2, <1>3
<1>6. \A x : Covers(L, x) <=> Covers(F, x) \/ Has(h, x)
  <2>1. ASSUME NEW x, Covers(L, x) PROVE Covers(F, x) \/ Has(h, x)
    BY <1>4, <1>h, <2>1 DEF Covers
  <2>2. ASSUME NEW x, Covers(F, x) PROVE Covers(L, x)
    BY <1>5, <2>2 DEF Covers
  <2>3. ASSUME NEW x, Has(h, x) PROVE Covers(L, x)
    BY <1>h, <2>3 DEF Covers
  <2>4. QED
    BY <2>1, <2>2, <2>3
<1>7. ASSUME Ascending(L) PROVE Ascending(F) /\ AllTo(F, h.offset)
  <2>1. Ascending(F)
    BY <1>5, <1>7 DEF Ascending
  <2>2. AllTo(F, h.offset)
    BY <1>5, <1>7, <1>h DEF Ascending, AllTo
  <2>3. QED
    BY <2>1, <2>2
<1>8. ASSUME NEW n \in Nat, AllTo(L, n) PROVE EndOf(h) <= n /\ AllTo(F, n)
  BY <1>5, <1>8, <1>h DEF AllTo
<1>9. ASSUME RightOn(L, S, lt, ob) PROVE RightMap(h, S, lt, ob) /\ RightOn(F, S, lt, ob)
  BY <1>5, <1>9, <1>h DEF RightOn
<1>10. QED
  BY <1>2, <1>h, <1>6, <1>7, <1>8, <1>9 DEF F, h

\* The order in which Process writes: an object lists the blocks of T in ascending order.
Increasing(s) == \A i, j \in DOMAIN s : i < j => s[i] < s[j]
Enumerates(s, T) ==
    /\ s \in Seq(Nat) /\ Increasing(s)
    /\ \A x \in Nat : x \in T <=> \E i \in DOMAIN s : s[i] = x

\* CreateMapping's buildStorageOffset with the current run: the blocks given a place so far, which
\* are the ones of the object below n.
Filled(L) == IF L = <<>> THEN 0 ELSE LastMap(L).storage + LastMap(L).length
FilledUpTo(L, n, s) == \A i \in DOMAIN s : s[i] < n <=> i <= Filled(L)

\* The loop of CreateMapping before block n.
MappingUpTo(L, n, build, marked, lt, ob) ==
    /\ L \in Maps /\ Ascending(L) /\ AllTo(L, n)
    /\ \A x \in Nat : Covers(L, x) <=> x \in marked /\ x < n
    /\ RightOn(L, Nat, lt, ob)
    /\ build # Nil => FilledUpTo(L, n, ob[build])

\* The marked blocks are the ones the build wrote, and its object lists them.
WrittenBy(build, marked, lt, ob) ==
    /\ \A x \in marked : x \in Nat /\ lt[x] = build
    /\ build # Nil => Enumerates(ob[build], marked)

\* The next marked block is the next one of the object.
LEMMA NextPlace ==
    ASSUME NEW s, NEW marked, Enumerates(s, marked), NEW b \in Nat, b \in marked, NEW t \in Nat,
           \A i \in DOMAIN s : s[i] < b <=> i <= t
    PROVE  /\ t + 1 \in DOMAIN s /\ s[t + 1] = b
           /\ \A i \in DOMAIN s : s[i] < b + 1 <=> i <= t + 1
<1>1. s \in Seq(Nat) /\ Increasing(s) /\ Len(s) \in Nat /\ DOMAIN s = 1..Len(s)
      /\ \A i \in DOMAIN s : s[i] \in Nat
  BY LenProperties, ElementOfSeq DEF Enumerates
<1>2. PICK i \in DOMAIN s : s[i] = b
  BY DEF Enumerates
<1>3. i > t
  BY <1>1, <1>2
<1>4. t + 1 \in DOMAIN s
  BY <1>1, <1>2, <1>3
<1>5. i = t + 1
  <2>1. SUFFICES ASSUME t + 1 < i PROVE FALSE
    BY <1>1, <1>3
  <2>2. s[t + 1] < s[i]
    BY <1>1, <1>2, <1>4, <2>1 DEF Increasing
  <2>3. t + 1 <= t
    BY <1>2, <1>4, <2>2
  <2>4. QED
    BY <2>3
<1>6. ASSUME NEW j \in DOMAIN s PROVE s[j] < b + 1 <=> j <= t + 1
  <2>1. CASE j = t + 1
    BY <1>2, <1>5, <2>1
  <2>2. CASE j <= t
    <3>1. s[j] < b
      BY <2>2
    <3>2. QED
      BY <1>1, <2>2, <3>1
  <2>3. CASE j > t + 1
    <3>1. s[t + 1] < s[j]
      BY <1>1, <1>4, <2>3 DEF Increasing
    <3>2. QED
      BY <1>1, <1>2, <1>5, <2>3, <3>1
  <2>4. QED
    BY <1>1, <2>1, <2>2, <2>3
<1>7. QED
  BY <1>2, <1>4, <1>5, <1>6

\* Replacing the last map is appending to the others.
LEMMA LastReplaced ==
    ASSUME NEW L \in Maps, L # <<>>, NEW m \in Map
    PROVE  [L EXCEPT ![Len(L)] = m] = Append(AllButLast(L), m)
<1> DEFINE E == [L EXCEPT ![Len(L)] = m]
           F == AllButLast(L)
           A == Append(F, m)
<1>1. Len(L) \in Nat /\ Len(L) > 0 /\ Len(L) \in 1..Len(L) /\ L \in Seq(Map)
  BY MapsView DEF Maps
<1>2. /\ E \in Seq(Map) /\ Len(E) = Len(L)
      /\ \A j \in 1..Len(L) : E[j] = IF j = Len(L) THEN m ELSE L[j]
  BY <1>1, ExceptSeq
<1>3. F \in Seq(Map) /\ Len(F) = Len(L) - 1 /\ \A i \in 1..(Len(L) - 1) : F[i] = L[i]
  BY <1>1, AllButLastView DEF Maps
<1> HIDE DEF F
<1>4. /\ A \in Seq(Map) /\ Len(A) = Len(F) + 1 /\ A[Len(F) + 1] = m
      /\ \A i \in 1..Len(F) : A[i] = F[i]
  BY <1>3, AppendProperties
<1> HIDE DEF E, A
<1>5. Len(A) = Len(L) /\ A[Len(L)] = m
  <2>1. Len(F) + 1 = Len(L)
    BY <1>1, <1>3
  <2>2. QED
    BY <1>4, <2>1
<1>6. ASSUME NEW j \in 1..Len(E) PROVE E[j] = A[j]
  <2>1. CASE j = Len(L)
    BY <1>1, <1>2, <1>5, <2>1
  <2>2. CASE j # Len(L)
    <3>1. j \in 1..(Len(L) - 1) /\ j \in 1..Len(F) /\ j \in 1..Len(L)
      BY <1>1, <1>2, <1>3, <2>2
    <3>2. QED
      BY <1>2, <1>3, <1>4, <2>2, <3>1
  <2>3. QED
    BY <2>1, <2>2
<1>7. E = A
  BY <1>2, <1>4, <1>5, <1>6, SeqEqual
<1>8. QED
  BY <1>7 DEF E, A, F

\* What was appended is last.
LEMMA LastAppended ==
    ASSUME NEW K \in Maps, NEW m \in Map
    PROVE  LastMap(Append(K, m)) = m
BY AppendProperties DEF Maps, LastMap

\* A run that ends with block b, put after the runs before it, takes the loop past b.
LEMMA AddRun ==
    ASSUME NEW L, NEW b \in Nat, NEW build \in Nil..MaxLayers, NEW marked, NEW lt, NEW ob,
           MappingUpTo(L, b, build, marked, lt, ob), WrittenBy(build, marked, lt, ob), b \in marked,
           NEW K \in Maps, Ascending(K), RightOn(K, Nat, lt, ob),
           NEW m \in Map, AllTo(K, m.offset), m.build = build, EndOf(m) = b + 1,
           m.storage + m.length = Filled(L) + 1, Filled(L) \in Nat,
           \A x \in Nat : Has(m, x) /\ x # b => Right(m, x, lt, ob),
           \A x \in Nat : Covers(K, x) \/ Has(m, x) <=> Covers(L, x) \/ x = b
    PROVE  MappingUpTo(Append(K, m), b + 1, build, marked, lt, ob)
<1> DEFINE A == Append(K, m)
           k == b + 1
<1>1. k \in Nat /\ m.offset \in Nat /\ m.offset <= k /\ m.length \in Nat /\ m.storage \in Nat
  BY MapFields
<1>2. m.storage + b - m.offset + 1 = Filled(L) + 1
  BY <1>1, MapFields DEF EndOf
<1>3. ASSUME build # Nil
      PROVE  /\ Filled(L) + 1 \in DOMAIN ob[build] /\ ob[build][Filled(L) + 1] = b
             /\ \A i \in DOMAIN ob[build] : ob[build][i] < k <=> i <= Filled(L) + 1
  <2> DEFINE s == ob[build]
             t == Filled(L)
  <2>1. Enumerates(s, marked) /\ t \in Nat
    BY <1>3 DEF WrittenBy
  <2>2. \A i \in DOMAIN s : s[i] < b <=> i <= t
    BY <1>3 DEF MappingUpTo, FilledUpTo
  <2> HIDE DEF s, t
  <2>3. /\ t + 1 \in DOMAIN s /\ s[t + 1] = b
        /\ \A i \in DOMAIN s : s[i] < b + 1 <=> i <= t + 1
    BY <2>1, <2>2, NextPlace
  <2>4. QED
    BY <2>3 DEF s, t
<1>4. lt[b] = build
  BY DEF WrittenBy
<1>5. Right(m, b, lt, ob)
  BY <1>2, <1>3, <1>4 DEF Right
<1>6. RightMap(m, Nat, lt, ob)
  BY <1>5 DEF RightMap
<1>7. /\ A \in Maps /\ A # <<>> /\ Ascending(A) /\ RightOn(A, Nat, lt, ob)
      /\ \A x : Covers(A, x) <=> Covers(K, x) \/ Has(m, x)
  BY <1>6, AppendFacts
<1>8. AllTo(A, k)
  <2>1. AllTo(K, k) /\ EndOf(m) <= k
    BY <1>1, Widen
  <2>2. QED
    BY <1>1, <2>1, AppendFacts
<1>9. LastMap(A) = m
  BY LastAppended
<1>10. Filled(A) = Filled(L) + 1
  <2> HIDE DEF A
  <2>1. QED
    BY <1>7, <1>9 DEF Filled
<1>11. ASSUME NEW x \in Nat PROVE Covers(A, x) <=> x \in marked /\ x < k
  <2> HIDE DEF A
  <2>1. Covers(A, x) <=> Covers(L, x) \/ x = b
    BY <1>7
  <2>2. Covers(L, x) <=> x \in marked /\ x < b
    BY DEF MappingUpTo
  <2>3. QED
    BY <2>1, <2>2
<1>12. ASSUME build # Nil PROVE FilledUpTo(A, k, ob[build])
  BY <1>3, <1>10, <1>12 DEF FilledUpTo
<1> HIDE DEF A, k
<1>13. MappingUpTo(A, k, build, marked, lt, ob)
  BY <1>7, <1>8, <1>11, <1>12 DEF MappingUpTo
<1>14. QED
  BY <1>13 DEF A, k

\* AddBlock takes the loop past a marked block.
LEMMA AddBlockFacts ==
    ASSUME NEW L, NEW b \in Nat, NEW build \in Nil..MaxLayers, NEW marked, NEW lt, NEW ob,
           MappingUpTo(L, b, build, marked, lt, ob), WrittenBy(build, marked, lt, ob), b \in marked
    PROVE  MappingUpTo(AddBlock(L, build, b), b + 1, build, marked, lt, ob)
<1>1. /\ L \in Maps /\ Ascending(L) /\ AllTo(L, b) /\ RightOn(L, Nat, lt, ob)
      /\ \A x \in Nat : Covers(L, x) <=> x \in marked /\ x < b
  BY DEF MappingUpTo
<1>2. CASE L = <<>>
  <2> DEFINE m == BuildMap(b, 1, build, 0)
             e == <<>>
  <2>1. /\ m \in Map /\ m.offset = b /\ m.length = 1 /\ m.build = build /\ m.storage = 0
        /\ EndOf(m) = b + 1
    BY MapMade DEF BuildMap
  <2>2. e \in Maps /\ Ascending(e) /\ AllTo(e, b) /\ RightOn(e, Nat, lt, ob) /\ \A x : ~Covers(e, x)
    BY EmptyFacts
  <2>3. AddBlock(L, build, b) = Append(e, m)
    BY <1>2 DEF AddBlock
  <2>4. Filled(L) = 0
    BY <1>2 DEF Filled
  <2>5. L = e
    BY <1>2
  <2> HIDE DEF m, e
  <2>6. \A x \in Nat : Has(m, x) <=> x = b
    BY <2>1 DEF Has
  <2>7. AllTo(e, m.offset) /\ m.storage + m.length = Filled(L) + 1 /\ Filled(L) \in Nat
    BY <2>1, <2>2, <2>4
  <2>8. MappingUpTo(Append(e, m), b + 1, build, marked, lt, ob)
    BY <2>1, <2>2, <2>5, <2>6, <2>7, AddRun
  <2>9. QED
    BY <2>3, <2>8
<1>3. ASSUME L # <<>> PROVE MappingUpTo(AddBlock(L, build, b), b + 1, build, marked, lt, ob)
  <2> DEFINE run == LastMap(L)
             F == AllButLast(L)
  <2>1. /\ run \in Map /\ F \in Maps /\ Ascending(F) /\ AllTo(F, run.offset)
        /\ EndOf(run) <= b /\ RightMap(run, Nat, lt, ob) /\ RightOn(F, Nat, lt, ob)
        /\ \A x : Covers(L, x) <=> Covers(F, x) \/ Has(run, x)
    BY <1>1, <1>3, FrontFacts
  <2>2. Filled(L) = run.storage + run.length
    BY <1>3 DEF Filled
  <2>3. /\ run.offset \in Nat /\ run.length \in Nat /\ run.length > 0 /\ run.storage \in Nat
        /\ EndOf(run) \in Nat /\ EndOf(run) = run.offset + run.length /\ Filled(L) \in Nat
    BY <2>1, <2>2, MapFields DEF EndOf
  <2>4. AddBlock(L, build, b) =
            IF EndOf(run) = b
            THEN [L EXCEPT ![Len(L)] = BuildMap(run.offset, run.length + 1, build, run.storage)]
            ELSE Append(L, BuildMap(b, 1, build, run.storage + run.length))
    BY <1>3 DEF AddBlock, LastMap
  <2> HIDE DEF run, F
  <2>5. CASE EndOf(run) = b
    <3> DEFINE l == run.length + 1
               m == BuildMap(run.offset, l, build, run.storage)
    <3>1. l \in Nat \ {0}
      BY <2>3
    <3>2. /\ m \in Map /\ m.offset = run.offset /\ m.length = l /\ m.build = build
          /\ m.storage = run.storage /\ EndOf(m) = run.offset + l
      BY <2>1, <2>3, <3>1, MapFields, MapMade DEF BuildMap
    <3>3. EndOf(m) = b + 1 /\ m.storage + m.length = Filled(L) + 1
      BY <2>2, <2>3, <2>5, <3>2
    <3>4. AddBlock(L, build, b) = Append(F, m)
      <4>1. AddBlock(L, build, b) = [L EXCEPT ![Len(L)] = m]
        BY <2>4, <2>5
      <4>2. QED
        BY <1>1, <1>3, <3>2, <4>1, LastReplaced DEF F
    <3> HIDE DEF m, l
    <3>5. \A x \in Nat : Has(m, x) <=> Has(run, x) \/ x = b
      BY <2>3, <2>5, <3>2, <3>3 DEF Has
    <3>6. ASSUME NEW x \in Nat, Has(m, x), x # b PROVE Right(m, x, lt, ob)
      <4>1. Has(run, x)
        BY <3>5, <3>6
      <4>2. Right(run, x, lt, ob)
        BY <2>1, <4>1 DEF RightMap
      <4>3. lt[x] = build
        BY <1>1, <2>1, <4>1 DEF WrittenBy
      <4>4. run.build = build
        BY <4>2, <4>3 DEF Right
      <4>5. QED
        BY <3>2, <4>2, <4>4 DEF Right
    <3>7. AllTo(F, m.offset)
      BY <2>1, <3>2
    <3>8. \A x \in Nat : Covers(F, x) \/ Has(m, x) <=> Covers(L, x) \/ x = b
      BY <2>1, <3>5
    <3>9. MappingUpTo(Append(F, m), b + 1, build, marked, lt, ob)
      BY <2>1, <2>3, <3>2, <3>3, <3>6, <3>7, <3>8, AddRun
    <3>10. QED
      BY <3>4, <3>9
  <2>6. CASE EndOf(run) # b
    <3> DEFINE t == run.storage + run.length
               m == BuildMap(b, 1, build, t)
    <3>1. t \in Nat /\ t = Filled(L)
      BY <2>2, <2>3
    <3>2. /\ m \in Map /\ m.offset = b /\ m.length = 1 /\ m.build = build
          /\ m.storage = t /\ EndOf(m) = b + 1
      BY <2>1, <2>3, <3>1, MapFields, MapMade DEF BuildMap
    <3>3. m.storage + m.length = Filled(L) + 1
      BY <3>1, <3>2
    <3>4. AddBlock(L, build, b) = Append(L, m)
      BY <2>4, <2>6
    <3> HIDE DEF m, t
    <3>5. \A x \in Nat : Has(m, x) <=> x = b
      BY <3>2 DEF Has
    <3>6. AllTo(L, m.offset)
      BY <1>1, <3>2
    <3>7. MappingUpTo(Append(L, m), b + 1, build, marked, lt, ob)
      BY <1>1, <2>3, <3>2, <3>3, <3>5, <3>6, AddRun
    <3>8. QED
      BY <3>4, <3>7
  <2>7. QED
    BY <2>5, <2>6
<1>4. QED
  BY <1>2, <1>3

\* A block that is not marked changes nothing.
LEMMA SkipBlock ==
    ASSUME NEW L, NEW b \in Nat, NEW build \in Nil..MaxLayers, NEW marked, NEW lt, NEW ob,
           MappingUpTo(L, b, build, marked, lt, ob), WrittenBy(build, marked, lt, ob), b \notin marked
    PROVE  MappingUpTo(L, b + 1, build, marked, lt, ob)
<1> DEFINE k == b + 1
<1>1. /\ L \in Maps /\ Ascending(L) /\ AllTo(L, b) /\ RightOn(L, Nat, lt, ob)
      /\ \A x \in Nat : Covers(L, x) <=> x \in marked /\ x < b
  BY DEF MappingUpTo
<1>2. k \in Nat /\ b <= k /\ \A x \in Nat : x < k <=> x < b \/ x = b
  OBVIOUS
<1> HIDE DEF k
<1>3. AllTo(L, k)
  BY <1>1, <1>2, Widen
<1>4. ASSUME NEW x \in Nat PROVE Covers(L, x) <=> x \in marked /\ x < k
  BY <1>1, <1>2
<1>5. ASSUME build # Nil PROVE FilledUpTo(L, k, ob[build])
  <2> DEFINE s == ob[build]
  <2>1. s \in Seq(Nat) /\ \A x \in Nat : x \in marked <=> \E i \in DOMAIN s : s[i] = x
    BY <1>5 DEF WrittenBy, Enumerates
  <2>2. \A i \in DOMAIN s : s[i] < b <=> i <= Filled(L)
    BY <1>5 DEF MappingUpTo, FilledUpTo
  <2> HIDE DEF s
  <2>3. \A i \in DOMAIN s : s[i] \in Nat
    BY <2>1, LenProperties, ElementOfSeq
  <2>4. \A i \in DOMAIN s : s[i] < k <=> i <= Filled(L)
    BY <1>2, <2>1, <2>2, <2>3
  <2>5. QED
    BY <2>4 DEF s, FilledUpTo
<1>6. MappingUpTo(L, k, build, marked, lt, ob)
  BY <1>1, <1>3, <1>4, <1>5 DEF MappingUpTo
<1>7. QED
  BY <1>6 DEF k
-----------------------------------------------------------------------------
\* A set of numbers that is not empty has a least element: induction over the steps of a loop
\* is by the least counterexample.
LEMMA LeastNat ==
    ASSUME NEW T \in SUBSET Nat, T # {}
    PROVE  \E x \in T : \A y \in T : x <= y
<1> DEFINE R == OpToRel(<, Nat)
<1>1. IsWellFoundedOn(R, Nat)
  BY NatLessThanWellFounded
<1>2. \A x, y \in Nat : x < y => <<x, y>> \in R
  BY DEF OpToRel
<1> HIDE DEF R
<1>3. PICK x \in T : \A y \in T : ~ (<<y, x>> \in R)
  BY <1>1, WFMin
<1>4. ASSUME NEW y \in T PROVE x <= y
  <2>1. x \in Nat /\ y \in Nat
    OBVIOUS
  <2>2. ~(y < x)
    BY <1>2, <1>3, <2>1, Zenon
  <2>3. QED
    BY <2>1, <2>2
<1>5. QED
  BY <1>4

\* The bodies of the two loops, and the functions they define.
CreateBody(build, marked, n, L) == IF n - 1 \in marked THEN AddBlock(L, build, n - 1) ELSE L
Body(p, n, L) ==
    IF p.loop = "create" THEN CreateBody(p.build, p.marked, n, L) ELSE JoinNext(L, p.maps[n])
Loop(p, n, f) == [i \in 0..n |-> IF i = 0 THEN <<>> ELSE Body(p, i, f[i - 1])]

\* There is a function with that body, for every number of steps.
LEMMA LoopExists ==
    ASSUME NEW p, NEW k \in Nat
    PROVE  \E f : f = Loop(p, k, f)
<1> DEFINE T == {n \in Nat : ~ \E f : f = Loop(p, n, f)}
<1> SUFFICES ASSUME T # {} PROVE FALSE
  OBVIOUS
<1>1. PICK n \in T : \A y \in T : n <= y
  BY LeastNat
<1>2. n # 0
  <2> DEFINE z == [i \in 0..0 |-> <<>>]
  <2>1. Loop(p, 0, z) = z
    BY DEF Loop
  <2>2. QED
    BY <2>1
<1>3. n - 1 \in Nat /\ n \in Nat /\ n - 1 \notin T
  BY <1>1, <1>2
<1>4. PICK f : f = Loop(p, n - 1, f)
  BY <1>3
<1> DEFINE g == [i \in 0..n |-> IF i < n THEN f[i] ELSE Body(p, n, f[n - 1])]
           h == Loop(p, n, g)
<1>5. \A i \in 0..(n - 1) : f[i] = IF i = 0 THEN <<>> ELSE Body(p, i, f[i - 1])
  BY <1>4 DEF Loop
<1>6. \A i \in 0..n : h[i] = IF i = 0 THEN <<>> ELSE Body(p, i, g[i - 1])
  BY DEF Loop
<1>7. (\A i \in 0..(n - 1) : g[i] = f[i]) /\ g[n] = Body(p, n, f[n - 1])
  BY <1>3
<1>8. g = [i \in 0..n |-> g[i]] /\ h = [i \in 0..n |-> h[i]]
  BY DEF Loop
<1> HIDE DEF g, h
<1>9. \A i \in 0..n : g[i] = h[i]
  <2>1. ASSUME NEW i \in 0..n PROVE g[i] = h[i]
    <3>1. CASE i = 0
      <4>1. i \in 0..(n - 1)
        BY <1>2, <1>3, <3>1
      <4>2. QED
        BY <1>5, <1>6, <1>7, <3>1, <4>1
    <3>2. CASE i = n
      <4>1. n - 1 \in 0..(n - 1) /\ i # 0
        BY <1>2, <1>3, <3>2
      <4>2. QED
        BY <1>6, <1>7, <3>2, <4>1
    <3>3. CASE i # 0 /\ i # n
      <4>1. i \in 0..(n - 1) /\ i - 1 \in 0..(n - 1)
        BY <1>3, <3>3
      <4>2. QED
        BY <1>5, <1>6, <1>7, <3>3, <4>1
    <3>4. QED
      BY <3>1, <3>2, <3>3
  <2>2. QED
    BY <2>1
<1>10. g = h
  BY <1>8, <1>9
<1>11. QED
  BY <1>1, <1>10 DEF h

\* So CreateMapping is the last value of its loop.
LEMMA CreateMappingLoop ==
    ASSUME NEW build, NEW marked
    PROVE  \E f : /\ f[0] = <<>> /\ CreateMapping(build, marked) = f[Blocks]
                  /\ \A n \in 1..Blocks : f[n] = CreateBody(build, marked, n, f[n - 1])
<1> DEFINE f == CHOOSE g : g = [n \in 0..Blocks |->
                    IF n = 0 THEN <<>>
                    ELSE IF n - 1 \in marked THEN AddBlock(g[n - 1], build, n - 1) ELSE g[n - 1]]
           p == [loop |-> "create", build |-> build, marked |-> marked]
<1>1. Blocks \in Nat
  BY BlocksAssumption
<1>2. CreateMapping(build, marked) = f[Blocks]
  BY DEF CreateMapping
<1>3. \E g : g = Loop(p, Blocks, g)
  BY <1>1, LoopExists
<1>4. p.loop = "create" /\ p.build = build /\ p.marked = marked
  OBVIOUS
<1> HIDE DEF p
<1>5. ASSUME NEW g
      PROVE  Loop(p, Blocks, g) = [n \in 0..Blocks |->
                    IF n = 0 THEN <<>>
                    ELSE IF n - 1 \in marked THEN AddBlock(g[n - 1], build, n - 1) ELSE g[n - 1]]
  BY <1>4 DEF Loop, Body, CreateBody
<1>6. f = [n \in 0..Blocks |->
                    IF n = 0 THEN <<>>
                    ELSE IF n - 1 \in marked THEN AddBlock(f[n - 1], build, n - 1) ELSE f[n - 1]]
  BY <1>3, <1>5, Zenon
<1> HIDE DEF f
<1>7. \A n \in 0..Blocks : f[n] = IF n = 0 THEN <<>> ELSE CreateBody(build, marked, n, f[n - 1])
  BY <1>6 DEF CreateBody
<1>8. 0 \in 0..Blocks
  BY <1>1
<1>9. \A n \in 1..Blocks : n \in 0..Blocks /\ n # 0
  BY <1>1
<1>10. f[0] = <<>> /\ \A n \in 1..Blocks : f[n] = CreateBody(build, marked, n, f[n - 1])
  BY <1>7, <1>8, <1>9
<1>11. QED
  BY <1>2, <1>10

\* And so is NormalizeMappings.
LEMMA NormalizeLoop ==
    ASSUME NEW L, Len(L) \in Nat
    PROVE  \E f : /\ f[0] = <<>> /\ NormalizeMappings(L) = f[Len(L)]
                  /\ \A n \in 1..Len(L) : f[n] = JoinNext(f[n - 1], L[n])
<1> DEFINE f == CHOOSE g : g = [i \in 0..Len(L) |->
                    IF i = 0 THEN <<>> ELSE JoinNext(g[i - 1], L[i])]
           p == [loop |-> "join", maps |-> L]
<1>2. NormalizeMappings(L) = f[Len(L)]
  BY DEF NormalizeMappings
<1>3. \E g : g = Loop(p, Len(L), g)
  BY LoopExists
<1>4. p.loop # "create" /\ p.maps = L
  OBVIOUS
<1> HIDE DEF p
<1>5. ASSUME NEW g
      PROVE  Loop(p, Len(L), g) = [i \in 0..Len(L) |->
                    IF i = 0 THEN <<>> ELSE JoinNext(g[i - 1], L[i])]
  BY <1>4 DEF Loop, Body
<1>6. f = [i \in 0..Len(L) |-> IF i = 0 THEN <<>> ELSE JoinNext(f[i - 1], L[i])]
  BY <1>3, <1>5, Zenon
<1> HIDE DEF f
<1>7. \A n \in 0..Len(L) : f[n] = IF n = 0 THEN <<>> ELSE JoinNext(f[n - 1], L[n])
  BY <1>6
<1>8. 0 \in 0..Len(L) /\ \A n \in 1..Len(L) : n \in 0..Len(L) /\ n # 0
  OBVIOUS
<1>10. f[0] = <<>> /\ \A n \in 1..Len(L) : f[n] = JoinNext(f[n - 1], L[n])
  BY <1>7, <1>8
<1>11. QED
  BY <1>2, <1>10

\* CreateMapping's result covers the marked blocks and has the place of each in the object.
LEMMA CreateMappingFacts ==
    ASSUME NEW build \in Nil..MaxLayers, NEW marked \in SUBSET BlockSet, NEW lt, NEW ob,
           WrittenBy(build, marked, lt, ob)
    PROVE  Layered(CreateMapping(build, marked), marked, Nat, lt, ob)
<1>1. PICK f : /\ f[0] = <<>> /\ CreateMapping(build, marked) = f[Blocks]
               /\ \A n \in 1..Blocks : f[n] = CreateBody(build, marked, n, f[n - 1])
  BY CreateMappingLoop
<1>b. Blocks \in Nat
  BY BlocksAssumption
<1> DEFINE T == {n \in 0..Blocks : ~MappingUpTo(f[n], n, build, marked, lt, ob)}
<1>2. T = {}
  <2> SUFFICES ASSUME T # {} PROVE FALSE
    OBVIOUS
  <2>1. T \in SUBSET Nat
    OBVIOUS
  <2>2. PICK n \in T : \A y \in T : n <= y
    BY <2>1, LeastNat
  <2>3. CASE n = 0
    <3> DEFINE e == <<>>
    <3>1. e \in Maps /\ Ascending(e) /\ AllTo(e, 0) /\ RightOn(e, Nat, lt, ob) /\ \A x : ~Covers(e, x)
      BY EmptyFacts
    <3>2. f[0] = e /\ Filled(e) = 0
      BY <1>1 DEF Filled
    <3> HIDE DEF e
    <3>3. ASSUME build # Nil PROVE FilledUpTo(e, 0, ob[build])
      <4> DEFINE s == ob[build]
      <4>1. s \in Seq(Nat)
        BY <3>3 DEF WrittenBy, Enumerates
      <4> HIDE DEF s
      <4>2. \A i \in DOMAIN s : s[i] \in Nat /\ i \in Nat /\ i > 0
        BY <4>1, LenProperties, ElementOfSeq
      <4>3. \A i \in DOMAIN s : s[i] < 0 <=> i <= 0
        BY <4>2
      <4>4. QED
        BY <3>2, <4>3 DEF s, FilledUpTo
    <3>4. \A x \in Nat : Covers(e, x) <=> x \in marked /\ x < 0
      BY <3>1
    <3>5. MappingUpTo(e, 0, build, marked, lt, ob)
      BY <3>1, <3>3, <3>4 DEF MappingUpTo
    <3>6. QED
      BY <2>2, <2>3, <3>2, <3>5
  <2>4. CASE n # 0
    <3> DEFINE b == n - 1
    <3>1. b \in Nat /\ b \in 0..Blocks /\ n \in 1..Blocks /\ b + 1 = n /\ b \notin T
      BY <1>b, <2>2, <2>4
    <3>2. f[n] = IF b \in marked THEN AddBlock(f[b], build, b) ELSE f[b]
      BY <1>1, <3>1 DEF CreateBody
    <3>3. MappingUpTo(f[b], b, build, marked, lt, ob)
      BY <3>1
    <3> HIDE DEF b
    <3>4. MappingUpTo(f[n], b + 1, build, marked, lt, ob)
      <4>1. CASE b \in marked
        <5>1. MappingUpTo(AddBlock(f[b], build, b), b + 1, build, marked, lt, ob)
          BY <3>1, <3>3, <4>1, AddBlockFacts
        <5>2. QED
          BY <3>2, <4>1, <5>1
      <4>2. CASE b \notin marked
        <5>1. MappingUpTo(f[b], b + 1, build, marked, lt, ob)
          BY <3>1, <3>3, <4>2, SkipBlock
        <5>2. QED
          BY <3>2, <4>2, <5>1
      <4>3. QED
        BY <4>1, <4>2
    <3>5. QED
      BY <2>2, <3>1, <3>4
  <2>5. QED
    BY <2>3, <2>4
<1>3. MappingUpTo(f[Blocks], Blocks, build, marked, lt, ob)
  BY <1>2, <1>b
<1>4. \A x \in Nat : x \in marked /\ x < Blocks <=> x \in marked
  BY <1>b DEF BlockSet
<1>5. QED
  BY <1>1, <1>3, <1>4 DEF MappingUpTo, Layered
-----------------------------------------------------------------------------
\* A list that ascends and covers the file has no gaps: it passes ValidateMappings.
LEMMA TiledFacts ==
    ASSUME NEW L, NEW S, NEW lt, NEW ob, Layered(L, BlockSet, S, lt, ob)
    PROVE  /\ Len(L) \in Nat /\ Len(L) > 0 /\ L[1].offset = 0 /\ EndOf(L[Len(L)]) = Blocks
           /\ \A i \in 2..Len(L) : L[i].offset = EndOf(L[i - 1])
<1>1. /\ L \in Maps /\ Ascending(L) /\ \A x \in Nat : x \in BlockSet <=> Covers(L, x)
  BY DEF Layered
<1>2. Len(L) \in Nat /\ DOMAIN L = 1..Len(L) /\ \A i \in 1..Len(L) : L[i] \in Map
  BY <1>1, MapsView
<1>3. \A i \in 1..Len(L) : L[i].offset \in Nat /\ EndOf(L[i]) \in Nat /\ L[i].offset < EndOf(L[i])
  BY <1>2, MapFields
<1>4. Blocks \in Nat /\ Blocks > 0 /\ \A x \in Nat : x \in BlockSet <=> x < Blocks
  BY BlocksAssumption DEF BlockSet
<1>5. \A x \in Nat : x < Blocks <=> \E i \in 1..Len(L) : L[i].offset <= x /\ x < EndOf(L[i])
  BY <1>1, <1>2, <1>4 DEF Covers, Has
<1>6. \A i, j \in 1..Len(L) : i < j => EndOf(L[i]) <= L[j].offset
  BY <1>1, <1>2 DEF Ascending
<1>7. \A i \in 1..Len(L) : EndOf(L[i]) <= Blocks
  <2>1. ASSUME NEW i \in 1..Len(L) PROVE EndOf(L[i]) <= Blocks
    <3>1. /\ EndOf(L[i]) - 1 \in Nat /\ L[i].offset <= EndOf(L[i]) - 1
          /\ EndOf(L[i]) - 1 < EndOf(L[i])
      BY <1>3
    <3>2. EndOf(L[i]) - 1 < Blocks
      BY <1>5, <3>1
    <3>3. QED
      BY <1>3, <1>4, <3>2
  <2>2. QED
    BY <2>1
<1>8. Len(L) > 0
  <2>1. \E i \in 1..Len(L) : L[i].offset <= 0 /\ 0 < EndOf(L[i])
    BY <1>4, <1>5
  <2>2. QED
    BY <1>2, <2>1
<1>9. L[1].offset = 0
  <2>1. PICK i \in 1..Len(L) : L[i].offset <= 0
    BY <1>4, <1>5
  <2>2. 1 \in 1..Len(L)
    BY <1>2, <1>8
  <2>3. i = 1
    <3>1. SUFFICES ASSUME 1 < i PROVE FALSE
      BY <1>2
    <3>2. EndOf(L[1]) <= L[i].offset
      BY <1>6, <2>2, <3>1
    <3>3. QED
      BY <1>3, <2>1, <2>2, <3>2
  <2>4. QED
    BY <1>3, <2>1, <2>2, <2>3
<1>10. EndOf(L[Len(L)]) = Blocks
  <2>1. Blocks - 1 \in Nat /\ Blocks - 1 < Blocks
    BY <1>4
  <2>2. PICK i \in 1..Len(L) : Blocks - 1 < EndOf(L[i])
    BY <1>5, <2>1
  <2>3. Len(L) \in 1..Len(L)
    BY <1>2, <1>8
  <2>4. EndOf(L[i]) <= EndOf(L[Len(L)])
    <3>1. CASE i = Len(L)
      BY <1>3, <2>3, <3>1
    <3>2. CASE i # Len(L)
      <4>0. Len(L) \in Nat
        BY <1>2
      <4>1. i < Len(L)
        BY <3>2, <4>0
      <4>2. EndOf(L[i]) <= L[Len(L)].offset
        BY <1>6, <2>3, <4>1
      <4>3. QED
        BY <1>3, <2>3, <4>2
    <3>3. QED
      BY <3>1, <3>2
  <2>5. EndOf(L[Len(L)]) <= Blocks
    BY <1>7, <2>3
  <2>6. QED
    BY <1>3, <1>4, <2>2, <2>3, <2>4, <2>5
<1>11. ASSUME NEW j \in 2..Len(L) PROVE L[j].offset = EndOf(L[j - 1])
  <2> DEFINE i == j - 1
             e == EndOf(L[i])
  <2>1. i \in 1..Len(L) /\ j \in 1..Len(L) /\ i < j /\ j = i + 1 /\ i \in Nat
    BY <1>2
  <2>2. e \in Nat /\ e <= L[j].offset
    BY <1>3, <1>6, <2>1
  <2>3. e < Blocks
    BY <1>3, <1>4, <1>7, <2>1, <2>2
  <2>4. PICK k \in 1..Len(L) : L[k].offset <= e /\ e < EndOf(L[k])
    BY <1>5, <2>2, <2>3
  <2> HIDE DEF i
  <2>5. ~(k < i)
    <3>1. SUFFICES ASSUME k < i PROVE FALSE
      OBVIOUS
    <3>2. EndOf(L[k]) <= L[i].offset
      BY <1>6, <2>1, <3>1
    <3>3. QED
      BY <1>3, <2>1, <2>4, <3>2
  <2>6. k # i
    BY <1>3, <2>1, <2>4
  <2>7. ~(j < k)
    <3>1. SUFFICES ASSUME j < k PROVE FALSE
      OBVIOUS
    <3>2. EndOf(L[j]) <= L[k].offset
      BY <1>6, <2>1, <3>1
    <3>3. QED
      BY <1>3, <2>1, <2>2, <2>4, <3>2
  <2>8. k = j
    BY <2>1, <2>5, <2>6, <2>7
  <2>9. L[j].offset = e
    BY <1>3, <2>1, <2>2, <2>4, <2>8
  <2>10. QED
    BY <2>9 DEF i
<1>12. QED
  BY <1>2, <1>8, <1>9, <1>10, <1>11

\* An object whose blocks ascend.
AscendingObject(s) == s \in Seq(Nat) /\ Increasing(s)

\* Why NormalizeMappings need not look at places: neighbours of one build that are both right
\* also adjoin in its object, since the blocks of an object ascend.
LEMMA PlacesAdjoin ==
    ASSUME NEW run \in Map, NEW m \in Map, EndOf(run) = m.offset, run.build = m.build, m.build # Nil,
           NEW lt, NEW ob, RightMap(run, Nat, lt, ob), RightMap(m, Nat, lt, ob),
           AscendingObject(ob[m.build])
    PROVE  m.storage = run.storage + run.length
<1> DEFINE s == ob[m.build]
           x == m.offset - 1
           q == run.storage + run.length
<1>1. /\ run.offset \in Nat /\ run.length \in Nat /\ run.length > 0 /\ run.storage \in Nat
      /\ m.offset \in Nat /\ m.storage \in Nat /\ m.offset < EndOf(m) /\ EndOf(m) \in Nat
      /\ m.offset = run.offset + run.length
  BY MapFields DEF EndOf
<1>2. x \in Nat /\ Has(run, x) /\ Has(m, m.offset)
  BY <1>1 DEF Has
<1>3. Right(run, x, lt, ob) /\ Right(m, m.offset, lt, ob)
  BY <1>1, <1>2 DEF RightMap
<1>4. run.storage + x - run.offset + 1 = q /\ m.storage + m.offset - m.offset + 1 = m.storage + 1
  BY <1>1
<1>5. q \in DOMAIN s /\ s[q] = x /\ m.storage + 1 \in DOMAIN s /\ s[m.storage + 1] = m.offset
  BY <1>3, <1>4 DEF Right
<1>6. Len(s) \in Nat /\ DOMAIN s = 1..Len(s) /\ \A i \in DOMAIN s : s[i] \in Nat
  BY LenProperties, ElementOfSeq DEF AscendingObject
<1>7. \A i, j \in DOMAIN s : i < j => s[i] < s[j]
  BY DEF AscendingObject, Increasing
<1>8. q \in Nat
  BY <1>1
<1>9. x + 1 = m.offset
  BY <1>1
<1> HIDE DEF s, q, x
<1>10. ~(m.storage + 1 < q) /\ m.storage + 1 # q
  BY <1>1, <1>2, <1>5, <1>7, <1>9
<1>11. ~(q + 1 < m.storage + 1)
  <2>1. SUFFICES ASSUME q + 1 < m.storage + 1 PROVE FALSE
    OBVIOUS
  <2>2. q + 1 \in DOMAIN s /\ q < q + 1
    BY <1>1, <1>5, <1>6, <1>8, <2>1
  <2>3. s[q] < s[q + 1] /\ s[q + 1] < s[m.storage + 1]
    BY <1>5, <1>7, <2>1, <2>2
  <2>4. s[q + 1] \in Nat
    BY <1>6, <2>2
  <2>5. QED
    BY <1>2, <1>5, <1>9, <2>3, <2>4
<1>12. m.storage = q
  BY <1>1, <1>8, <1>10, <1>11
<1>13. QED
  BY <1>12 DEF q

\* The loop of NormalizeMappings after a map that ends at end.
JoinedUpTo(R, end, build, lt, ob) ==
    /\ R \in Maps /\ R # <<>> /\ Ascending(R) /\ AllTo(R, end)
    /\ RightOn(R, Nat, lt, ob)
    /\ \A x \in Nat : Covers(R, x) <=> x < end
    /\ EndOf(LastMap(R)) = end /\ LastMap(R).build = build

\* The objects of all builds ascend.
ObjectsAscend(ob) == \A g \in 0..MaxLayers : AscendingObject(ob[g])

\* JoinNext takes the loop past the next map, whether it joins or appends.
LEMMA JoinNextFacts ==
    ASSUME NEW R, NEW end \in Nat, NEW build, NEW lt, NEW ob, ObjectsAscend(ob),
           JoinedUpTo(R, end, build, lt, ob), NEW m \in Map, m.offset = end,
           RightMap(m, Nat, lt, ob), m.build \in Nil..MaxLayers
    PROVE  JoinedUpTo(JoinNext(R, m), EndOf(m), m.build, lt, ob)
<1> DEFINE run == LastMap(R)
           F == AllButLast(R)
           e == EndOf(m)
<1>1. /\ R \in Maps /\ R # <<>> /\ Ascending(R) /\ AllTo(R, end) /\ RightOn(R, Nat, lt, ob)
      /\ EndOf(run) = end /\ run.build = build
  BY DEF JoinedUpTo
<1>c. \A x \in Nat : Covers(R, x) <=> x < end
  BY DEF JoinedUpTo
<1>2. /\ run \in Map /\ F \in Maps /\ Ascending(F) /\ AllTo(F, run.offset)
      /\ RightMap(run, Nat, lt, ob) /\ RightOn(F, Nat, lt, ob)
      /\ \A x : Covers(R, x) <=> Covers(F, x) \/ Has(run, x)
  BY <1>1, FrontFacts
<1>3. /\ run.offset \in Nat /\ run.length \in Nat /\ run.length > 0 /\ run.storage \in Nat
      /\ run.build \in Int /\ EndOf(run) = run.offset + run.length
      /\ m.offset \in Nat /\ m.length \in Nat /\ m.length > 0 /\ m.storage \in Nat
      /\ e \in Nat /\ e = m.offset + m.length /\ end < e
  BY <1>2, MapFields DEF EndOf
<1>4. JoinNext(R, m) = IF run.build = m.build
                       THEN [R EXCEPT ![Len(R)] = BuildMap(run.offset, run.length + m.length,
                                                           run.build, run.storage)]
                       ELSE Append(R, m)
  BY <1>1 DEF JoinNext, LastMap
<1> HIDE DEF run, F
<1>5. \A x \in Nat : Has(m, x) <=> end <= x /\ x < e
  BY DEF Has
<1>6. CASE run.build # m.build
  <2> DEFINE A == Append(R, m)
  <2>1. /\ A \in Maps /\ A # <<>> /\ Ascending(A) /\ RightOn(A, Nat, lt, ob)
        /\ \A x : Covers(A, x) <=> Covers(R, x) \/ Has(m, x)
    BY <1>1, AppendFacts
  <2>2. AllTo(A, e)
    <3>1. AllTo(R, e) /\ EndOf(m) <= e
      BY <1>1, <1>3, Widen
    <3>2. QED
      BY <1>1, <1>3, <3>1, AppendFacts
  <2>3. LastMap(A) = m
    BY <1>1, LastAppended
  <2>4. JoinNext(R, m) = A
    BY <1>4, <1>6
  <2> HIDE DEF A
  <2>5. \A x \in Nat : Covers(A, x) <=> x < e
    BY <1>3, <1>5, <1>c, <2>1
  <2>6. JoinedUpTo(A, e, m.build, lt, ob)
    BY <2>1, <2>2, <2>3, <2>5 DEF JoinedUpTo
  <2>7. QED
    BY <2>4, <2>6
<1>7. CASE run.build = m.build
  <2> DEFINE l == run.length + m.length
             w == BuildMap(run.offset, l, run.build, run.storage)
             A == Append(F, w)
  <2>1. l \in Nat \ {0}
    BY <1>3
  <2>2. /\ w \in Map /\ w.offset = run.offset /\ w.build = run.build /\ w.storage = run.storage
        /\ EndOf(w) = run.offset + l
    BY <1>2, <1>3, <2>1, MapFields, MapMade DEF BuildMap
  <2>4. JoinNext(R, m) = A
    <3>1. JoinNext(R, m) = [R EXCEPT ![Len(R)] = w]
      BY <1>4, <1>7
    <3>2. QED
      BY <1>1, <2>2, <3>1, LastReplaced DEF F
  <2> HIDE DEF w
  <2>a. run.offset + run.length = m.offset
    BY <1>1, <1>3
  <2>3. EndOf(w) = e
    BY <1>3, <2>2, <2>a
  <2> HIDE DEF l
  <2>5. \A x \in Nat : Has(w, x) <=> Has(run, x) \/ Has(m, x)
    BY <1>1, <1>3, <2>2, <2>3 DEF Has
  <2>6. RightMap(w, Nat, lt, ob)
    <3>1. ASSUME NEW x \in Nat, Has(run, x) PROVE Right(w, x, lt, ob)
      <4>1. Right(run, x, lt, ob)
        BY <1>2, <3>1 DEF RightMap
      <4>2. QED
        BY <2>2, <4>1 DEF Right
    <3>2. ASSUME NEW x \in Nat, Has(m, x) PROVE Right(w, x, lt, ob)
      <4>1. Right(m, x, lt, ob)
        BY <3>2 DEF RightMap
      <4>2. CASE m.build = Nil
        BY <1>7, <2>2, <4>1, <4>2 DEF Right
      <4>3. CASE m.build # Nil
        <5>1. m.build \in 0..MaxLayers
          BY <4>3, LayersAssumption DEF Nil
        <5>2. AscendingObject(ob[m.build])
          BY <5>1 DEF ObjectsAscend
        <5>3. m.storage = run.storage + run.length
          BY <1>1, <1>2, <1>7, <4>3, <5>2, PlacesAdjoin
        <5>4. w.storage + x - w.offset + 1 = m.storage + x - m.offset + 1
          BY <1>3, <2>2, <2>a, <5>3
        <5>5. QED
          BY <1>7, <2>2, <4>1, <5>4 DEF Right
      <4>4. QED
        BY <4>2, <4>3
    <3>3. QED
      BY <2>5, <3>1, <3>2 DEF RightMap
  <2>7. AllTo(F, w.offset) /\ AllTo(F, e)
    BY <1>1, <1>2, <1>3, <2>2, Widen
  <2>8. /\ A \in Maps /\ A # <<>> /\ Ascending(A) /\ RightOn(A, Nat, lt, ob)
        /\ \A x : Covers(A, x) <=> Covers(F, x) \/ Has(w, x)
    BY <1>2, <2>2, <2>6, <2>7, AppendFacts
  <2>9. AllTo(A, e)
    <3>1. EndOf(w) <= e
      BY <1>3, <2>3
    <3>2. QED
      BY <1>2, <1>3, <2>2, <2>7, <3>1, AppendFacts
  <2>10. LastMap(A) = w
    BY <1>2, <2>2, LastAppended
  <2> HIDE DEF A
  <2>11. \A x \in Nat : Covers(A, x) <=> x < e
    BY <1>2, <1>3, <1>5, <1>c, <2>5, <2>8
  <2>12. JoinedUpTo(A, e, m.build, lt, ob)
    BY <1>7, <2>2, <2>3, <2>8, <2>9, <2>10, <2>11 DEF JoinedUpTo
  <2>13. QED
    BY <2>4, <2>12
<1>8. QED
  BY <1>6, <1>7

\* NormalizeMappings keeps a header's maps right.
LEMMA NormalizeFacts ==
    ASSUME NEW L, NEW lt, NEW ob, Layered(L, BlockSet, Nat, lt, ob), ObjectsAscend(ob),
           \A x \in BlockSet : lt[x] \in Nil..MaxLayers
    PROVE  Layered(NormalizeMappings(L), BlockSet, Nat, lt, ob)
<1>1. /\ Len(L) \in Nat /\ Len(L) > 0 /\ L[1].offset = 0 /\ EndOf(L[Len(L)]) = Blocks
      /\ \A i \in 2..Len(L) : L[i].offset = EndOf(L[i - 1])
  BY TiledFacts
<1>2. /\ L \in Maps /\ RightOn(L, Nat, lt, ob) /\ \A x \in Nat : x \in BlockSet <=> Covers(L, x)
  BY DEF Layered
<1>3. DOMAIN L = 1..Len(L) /\ \A i \in 1..Len(L) : L[i] \in Map
  BY <1>2, MapsView
<1>4. PICK f : /\ f[0] = <<>> /\ NormalizeMappings(L) = f[Len(L)]
               /\ \A n \in 1..Len(L) : f[n] = JoinNext(f[n - 1], L[n])
  BY <1>1, NormalizeLoop
<1>5. ASSUME NEW i \in 1..Len(L)
      PROVE  /\ L[i] \in Map /\ RightMap(L[i], Nat, lt, ob) /\ L[i].build \in Nil..MaxLayers
             /\ EndOf(L[i]) \in Nat /\ L[i].offset \in Nat
  <2>1. L[i] \in Map /\ RightMap(L[i], Nat, lt, ob)
    BY <1>2, <1>3 DEF RightOn
  <2>2. L[i].offset \in Nat /\ EndOf(L[i]) \in Nat /\ Has(L[i], L[i].offset)
    BY <2>1, MapFields DEF Has
  <2>3. L[i].offset \in BlockSet
    BY <1>2, <1>3, <2>2 DEF Covers
  <2>4. Right(L[i], L[i].offset, lt, ob)
    BY <2>1, <2>2 DEF RightMap
  <2>5. QED
    BY <2>1, <2>2, <2>3, <2>4 DEF Right
<1> DEFINE T == {n \in 1..Len(L) : ~JoinedUpTo(f[n], EndOf(L[n]), L[n].build, lt, ob)}
<1>6. T = {}
  <2> SUFFICES ASSUME T # {} PROVE FALSE
    OBVIOUS
  <2>1. T \in SUBSET Nat
    OBVIOUS
  <2>2. PICK n \in T : \A y \in T : n <= y
    BY <2>1, LeastNat
  <2>3. CASE n = 1
    <3> DEFINE m == L[1]
               e == <<>>
               A == Append(e, m)
    <3>1. 1 \in 1..Len(L)
      BY <1>1
    <3>2. m \in Map /\ RightMap(m, Nat, lt, ob) /\ EndOf(m) \in Nat /\ m.offset = 0
      BY <1>1, <1>5, <3>1
    <3>3. f[1] = JoinNext(f[0], L[1])
      BY <1>4, <3>1
    <3>4. JoinNext(<<>>, m) = A
      BY DEF JoinNext
    <3>5. f[1] = A
      BY <1>4, <3>3, <3>4
    <3>6. /\ e \in Maps /\ Ascending(e) /\ AllTo(e, 0) /\ RightOn(e, Nat, lt, ob)
          /\ \A x : ~Covers(e, x)
      BY EmptyFacts
    <3>7. AllTo(e, EndOf(m))
      BY EmptyFacts
    <3> HIDE DEF m, e
    <3>8. /\ A \in Maps /\ A # <<>> /\ Ascending(A) /\ RightOn(A, Nat, lt, ob)
          /\ \A x : Covers(A, x) <=> Covers(e, x) \/ Has(m, x)
      BY <3>2, <3>6, AppendFacts
    <3>9. AllTo(A, EndOf(m))
      BY <3>2, <3>6, <3>7, AppendFacts
    <3>10. LastMap(A) = m
      BY <3>2, <3>6, LastAppended
    <3> HIDE DEF A
    <3>11. \A x \in Nat : Covers(A, x) <=> x < EndOf(m)
      BY <3>2, <3>6, <3>8 DEF Has
    <3>12. JoinedUpTo(A, EndOf(m), m.build, lt, ob)
      BY <3>8, <3>9, <3>10, <3>11 DEF JoinedUpTo
    <3>13. QED
      BY <2>2, <2>3, <3>5, <3>12 DEF m
  <2>4. CASE n # 1
    <3> DEFINE k == n - 1
    <3>1. k \in 1..Len(L) /\ n \in 2..Len(L) /\ n \in 1..Len(L) /\ k < n /\ k \notin T
      BY <1>1, <2>2, <2>4
    <3>2. JoinedUpTo(f[k], EndOf(L[k]), L[k].build, lt, ob)
      BY <3>1
    <3>3. f[n] = JoinNext(f[k], L[n]) /\ L[n].offset = EndOf(L[k])
      BY <1>1, <1>4, <3>1
    <3>4. /\ L[n] \in Map /\ RightMap(L[n], Nat, lt, ob) /\ L[n].build \in Nil..MaxLayers
          /\ EndOf(L[k]) \in Nat
      BY <1>5, <3>1
    <3> HIDE DEF k
    <3>5. JoinedUpTo(JoinNext(f[k], L[n]), EndOf(L[n]), L[n].build, lt, ob)
      BY <3>2, <3>3, <3>4, JoinNextFacts
    <3>6. QED
      BY <2>2, <3>3, <3>5
  <2>5. QED
    BY <2>3, <2>4
<1>7. Len(L) \in 1..Len(L)
  BY <1>1
<1>8. JoinedUpTo(f[Len(L)], Blocks, L[Len(L)].build, lt, ob)
  BY <1>1, <1>6, <1>7
<1>9. \A x \in Nat : x \in BlockSet <=> x < Blocks
  BY BlocksAssumption DEF BlockSet
<1>10. QED
  BY <1>4, <1>8, <1>9 DEF JoinedUpTo, Layered
-----------------------------------------------------------------------------
\* What is left of base from e on.
Rest(bs, e) == IF e < EndOf(Head(bs)) THEN <<RightPart(Head(bs), e)>> \o Tail(bs) ELSE Tail(bs)

\* The head of diff reaches over the start of base's head: it is kept, base goes on after it.
LEMMA DiffOverBase ==
    ASSUME NEW n, NEW ms, NEW bs, NEW ds, NEW cov, NEW over, NEW lt, NEW ob,
           MergingAt(n, ms, bs, ds, cov, over, lt, ob), bs # <<>>, ds # <<>>,
           Head(ds).offset <= Head(bs).offset, Head(bs).offset < EndOf(Head(ds)),
           EndOf(Head(ds)) <= EndOf(Head(bs))
    PROVE  MergingAt(EndOf(Head(ds)), Append(ms, Head(ds)), Rest(bs, EndOf(Head(ds))), Tail(ds),
                     cov, over, lt, ob)
<1> DEFINE b == Head(bs)
           d == Head(ds)
           e == EndOf(d)
           r == Rest(bs, e)
<1>1. bs \in Maps /\ ds \in Maps /\ Ascending(bs)
  BY DEF MergingAt
<1>2. /\ b \in Map /\ d \in Map /\ Tail(bs) \in Maps /\ AllFrom(Tail(bs), EndOf(b))
  BY <1>1, TailFacts
<1>3. /\ e \in Nat /\ EndOf(b) \in Nat /\ b.offset \in Nat /\ d.offset \in Nat
  BY <1>2, MapFields
<1>4. d.offset <= b.offset /\ b.offset < e /\ e <= EndOf(b)
  OBVIOUS
<1>5. MergingAt(n, ms, r, ds, cov, over, lt, ob) /\ AllFrom(r, e)
  <2>1. CASE e < EndOf(b)
    <3>1. r = <<RightPart(b, e)>> \o Tail(bs)
      BY <2>1 DEF Rest
    <3>2. b.offset <= e /\ e <= e
      BY <1>3, <1>4
    <3>3. MergingAt(n, ms, <<RightPart(b, e)>> \o Tail(bs), ds, cov, over, lt, ob)
      BY <1>3, <2>1, <3>2, TrimBase
    <3>4. AllFrom(<<RightPart(b, e)>> \o Tail(bs), e)
      BY <1>1, <1>3, <2>1, <3>2, NewHead
    <3>5. QED
      BY <3>1, <3>3, <3>4
  <2>2. CASE ~(e < EndOf(b))
    <3>1. r = Tail(bs)
      BY <2>2 DEF Rest
    <3>2. Inside(b, d) /\ e >= EndOf(b)
      BY <1>3, <1>4, <2>2 DEF Inside
    <3>3. MergingAt(n, ms, Tail(bs), ds, cov, over, lt, ob)
      BY <3>2, DropBase
    <3>4. AllFrom(Tail(bs), e)
      BY <1>2, <1>3, <1>4, <3>2
    <3>5. QED
      BY <3>1, <3>3, <3>4
  <2>3. QED
    BY <2>1, <2>2
<1>6. MergingAt(e, Append(ms, d), r, Tail(ds), cov, over, lt, ob)
  BY <1>5, KeepDiff
<1>7. QED
  BY <1>6

\* Cutting twice is cutting once.
LEMMA RightPartTwice ==
    ASSUME NEW m \in Map, NEW k \in Nat, m.offset <= k, NEW e \in Nat, k < EndOf(m)
    PROVE  RightPart(RightPart(m, k), e) = RightPart(m, e)
<1> DEFINE r == RightPart(m, k)
<1>1. r.offset = k /\ r.build = m.build /\ r.storage = m.storage + k - m.offset
  BY DEF RightPart, BuildMap
<1>2. EndOf(r) = EndOf(m)
  BY RightPartFacts
<1>3. m.offset \in Nat /\ m.storage \in Nat
  BY MapFields
<1> HIDE DEF r
<1>4. r.storage + e - r.offset = m.storage + e - m.offset
  BY <1>1, <1>3
<1>5. RightPart(r, e) = RightPart(m, e)
  BY <1>1, <1>2, <1>4 DEF RightPart
<1>6. QED
  BY <1>5 DEF r

\* The loop's invariant after a step.
MergeStepped(cov, over) ==
    \E n : MergingAt(n, merged', base', diff', cov, over, latest, objects)

\* Each case of MergeMappings is made of those moves.
LEMMA MergeCases ==
    ASSUME NEW n, NEW cov, NEW over, MergingAt(n, merged, base, diff, cov, over, latest, objects),
           \/ BaseBefore \/ DiffBefore \/ BaseInsideDiff \/ DiffInsideBase \/ DiffOverStart
           \/ DiffOverEnd
    PROVE  MergeStepped(cov, over)
<1>1. base # <<>> /\ diff # <<>>
  BY DEF BaseBefore, DiffBefore, BaseInsideDiff, DiffInsideBase, DiffOverStart, DiffOverEnd,
         MergeLoop
<1>2. base \in Maps /\ diff \in Maps /\ merged \in Maps /\ Ascending(base) /\ Ascending(diff)
  BY DEF MergingAt
<1>3. B \in Map /\ D \in Map
  BY <1>1, <1>2, TailFacts DEF B, D
<1>4. /\ B.offset \in Nat /\ EndOf(B) \in Nat /\ B.offset < EndOf(B)
      /\ D.offset \in Nat /\ EndOf(D) \in Nat /\ D.offset < EndOf(D)
  BY <1>3, MapFields
<1>5. \A k \in Nat : (k <= B.offset => AllFrom(base, k)) /\ (k <= D.offset => AllFrom(diff, k))
  BY <1>1, <1>2, TailFacts DEF B, D
<1>6. CASE BaseBefore
  <2>1. EndOf(B) <= D.offset /\ merged' = Append(merged, B) /\ base' = Tail(base) /\ diff' = diff
    BY <1>6 DEF BaseBefore
  <2>2. AllFrom(diff, EndOf(B))
    BY <1>4, <1>5, <2>1
  <2>3. MergingAt(EndOf(B), Append(merged, B), Tail(base), diff, cov, over, latest, objects)
    BY <1>1, <2>2, KeepBase DEF B
  <2>4. QED
    BY <2>1, <2>3 DEF MergeStepped
<1>7. CASE DiffBefore
  <2>1. EndOf(D) <= B.offset /\ merged' = Append(merged, D) /\ diff' = Tail(diff) /\ base' = base
    BY <1>7 DEF DiffBefore
  <2>2. AllFrom(base, EndOf(D))
    BY <1>4, <1>5, <2>1
  <2>3. MergingAt(EndOf(D), Append(merged, D), base, Tail(diff), cov, over, latest, objects)
    BY <1>1, <2>2, KeepDiff DEF D
  <2>4. QED
    BY <2>1, <2>3 DEF MergeStepped
<1>8. CASE BaseInsideDiff
  <2>1. Inside(B, D) /\ merged' = merged /\ base' = Tail(base) /\ diff' = diff
    BY <1>8 DEF BaseInsideDiff
  <2>2. MergingAt(n, merged, Tail(base), diff, cov, over, latest, objects)
    BY <1>1, <2>1, DropBase DEF B, D
  <2>3. QED
    BY <2>1, <2>2 DEF MergeStepped
<1>9. CASE DiffOverStart
  <2>1. /\ D.offset < B.offset /\ B.offset < EndOf(D) /\ ~Inside(B, D)
        /\ merged' = Append(merged, D) /\ base' = BaseFrom(EndOf(D)) /\ diff' = Tail(diff)
    BY <1>9 DEF DiffOverStart, Overlap
  <2>2. D.offset <= B.offset /\ EndOf(D) <= EndOf(B)
    BY <1>4, <2>1 DEF Inside
  <2>3. MergingAt(EndOf(D), Append(merged, D), Rest(base, EndOf(D)), Tail(diff), cov, over, latest,
                  objects)
    BY <1>1, <2>1, <2>2, DiffOverBase DEF B, D
  <2>4. BaseFrom(EndOf(D)) = Rest(base, EndOf(D))
    BY DEF BaseFrom, Rest
  <2>5. QED
    BY <2>1, <2>3, <2>4 DEF MergeStepped
<1>10. CASE DiffOverEnd
  <2> DEFINE k == D.offset
             r == RightPart(B, k)
             A == <<r>> \o Tail(base)
             M == Append(merged, LeftPart(B, k))
  <2>1. /\ B.offset < k /\ k < EndOf(B) /\ ~Inside(D, B)
        /\ merged' = M /\ base' = Tail(base) /\ diff' = diff
    BY <1>10 DEF DiffOverEnd, Overlap
  <2>2. AllFrom(diff, k) /\ B.offset <= k /\ k \in Nat
    BY <1>4, <1>5, <2>1
  <2>3. MergingAt(k, M, A, diff, cov, over, latest, objects)
    BY <1>1, <2>1, <2>2, KeepLeft DEF B
  <2>4. A # <<>> /\ Head(A) = r /\ Tail(A) = Tail(base)
    BY <1>1, <1>2, <2>1, <2>2, NewHead DEF B
  <2>5. r.offset = k /\ EndOf(r) = EndOf(B)
    BY <1>3, <2>1, <2>2, RightPartFacts
  <2>6. Inside(r, D)
    BY <1>4, <2>1, <2>2, <2>5 DEF Inside
  <2> HIDE DEF A, r, M
  <2>7. MergingAt(k, M, Tail(A), diff, cov, over, latest, objects)
    BY <1>1, <2>3, <2>4, <2>6, DropBase DEF D
  <2>8. QED
    BY <2>1, <2>4, <2>7 DEF MergeStepped
<1>11. CASE DiffInsideBase
  <2>1. /\ D.offset < EndOf(B) /\ B.offset < EndOf(D) /\ Inside(D, B)
        /\ merged' = merged \o (IF B.offset < D.offset THEN <<LeftPart(B, D.offset)>> ELSE <<>>)
                            \o <<D>>
        /\ base' = BaseFrom(EndOf(D)) /\ diff' = Tail(diff)
    BY <1>11 DEF DiffInsideBase, Overlap
  <2>2. B.offset <= D.offset /\ EndOf(D) <= EndOf(B)
    BY <2>1 DEF Inside
  <2>3. BaseFrom(EndOf(D)) = Rest(base, EndOf(D))
    BY DEF BaseFrom, Rest
  <2>4. CASE ~(B.offset < D.offset)
    <3>1. merged' = Append(merged, D)
      <4>1. merged' = merged \o <<>> \o <<D>>
        BY <2>1, <2>4
      <4>2. merged \o <<>> = merged /\ Append(merged, D) = merged \o <<D>>
        BY <1>2, <1>3, ConcatEmptySeq, AppendIsConcat DEF Maps
      <4>3. QED
        BY <4>1, <4>2
    <3>2. D.offset <= B.offset
      BY <1>4, <2>4
    <3>3. MergingAt(EndOf(D), Append(merged, D), Rest(base, EndOf(D)), Tail(diff), cov, over, latest,
                    objects)
      BY <1>1, <2>1, <2>2, <3>2, DiffOverBase DEF B, D
    <3>4. QED
      BY <2>1, <2>3, <3>1, <3>3 DEF MergeStepped
  <2>5. CASE B.offset < D.offset
    <3> DEFINE k == D.offset
               e == EndOf(D)
               r == RightPart(B, k)
               A == <<r>> \o Tail(base)
               l == LeftPart(B, k)
               M == Append(merged, l)
    <3>1. AllFrom(diff, k) /\ k \in Nat /\ k < EndOf(B) /\ e \in Nat
      BY <1>4, <1>5, <2>1
    <3>2. MergingAt(k, M, A, diff, cov, over, latest, objects)
      BY <1>1, <2>5, <3>1, KeepLeft DEF B
    <3>3. A # <<>> /\ Head(A) = r /\ Tail(A) = Tail(base)
      BY <1>1, <1>2, <2>2, <3>1, NewHead DEF B
    <3>4. r.offset = k /\ EndOf(r) = EndOf(B) /\ RightPart(r, e) = RightPart(B, e)
      <4>1. r.offset = k /\ EndOf(r) = EndOf(B)
        BY <1>3, <2>2, <3>1, RightPartFacts
      <4>2. RightPart(r, e) = RightPart(B, e)
        BY <1>3, <2>2, <3>1, RightPartTwice
      <4>3. QED
        BY <4>1, <4>2
    <3>5. l \in Map
      <4>1. k <= EndOf(B) /\ B.offset < k /\ Nat \subseteq Nat
        BY <1>4, <2>5, <3>1
      <4>2. QED
        BY <1>3, <3>1, <4>1, LeftPartFacts
    <3>6. merged' = Append(M, D)
      <4>1. merged' = merged \o <<l>> \o <<D>>
        BY <2>1, <2>5
      <4>2. M = merged \o <<l>> /\ M \in Maps
        BY <1>2, <3>5, AppendIsConcat, AppendProperties DEF Maps
      <4>3. Append(M, D) = M \o <<D>>
        BY <1>3, <4>2, AppendIsConcat DEF Maps
      <4> HIDE DEF M, l
      <4>4. QED
        BY <4>1, <4>2, <4>3
    <3>7. Rest(A, e) = Rest(base, e)
      <4> HIDE DEF A, r, e
      <4>1. Rest(A, e) = IF e < EndOf(B) THEN <<RightPart(B, e)>> \o Tail(base) ELSE Tail(base)
        BY <3>3, <3>4 DEF Rest
      <4>2. QED
        BY <4>1 DEF Rest, B
    <3>8. Head(diff).offset <= Head(A).offset /\ Head(A).offset < EndOf(Head(diff))
          /\ EndOf(Head(diff)) <= EndOf(Head(A))
      <4> HIDE DEF A, r
      <4>1. QED
        BY <1>4, <2>2, <3>3, <3>4 DEF D
    <3> HIDE DEF A, M
    <3>9. MergingAt(e, Append(M, D), Rest(A, e), Tail(diff), cov, over, latest, objects)
      BY <1>1, <3>2, <3>3, <3>8, DiffOverBase DEF D
    <3>10. QED
      BY <2>1, <2>3, <3>6, <3>7, <3>9 DEF MergeStepped
  <2>6. QED
    BY <2>4, <2>5
<1>12. QED
  BY <1>6, <1>7, <1>8, <1>9, <1>10, <1>11
-----------------------------------------------------------------------------
\* The inductive invariant of the header.  The blocks the builder has seen.
Changed == dirty \cup empty

\* Types, but for the lists.
HeaderShape ==
    /\ generation \in 0..MaxLayers /\ next \in 0..Blocks
    /\ phase \in {"idle", "process", "failed", "toDiffMapping", "merge"}
    /\ dirty \in SUBSET BlockSet /\ empty \in SUBSET BlockSet
    /\ latest \in [BlockSet -> Nil..MaxLayers]
    /\ DOMAIN objects = 0..MaxLayers /\ ObjectsAscend(objects)

\* The first build that has not been begun; the objects from it on are empty.
NotWritten == IF phase = "idle" THEN generation + 1 ELSE generation + 2

LaterBuildsEmpty == \A g \in 0..MaxLayers : NotWritten <= g => objects[g] = <<>>

\* The builder's bitsets and the object under way are what was written in this layer.
BuilderRight ==
    phase \notin {"idle", "failed"} =>
        /\ generation < MaxLayers
        /\ \A x \in Changed : x < next
        /\ dirty \cap empty = {}
        /\ WrittenBy(generation + 1, dirty, latest, objects) /\ WrittenBy(Nil, empty, latest, objects)

\* The header is right, and while a layer is built it is on the blocks not seen.
MappingRight ==
    Layered(mapping, BlockSet, IF phase = "idle" THEN Nat ELSE Nat \ Changed, latest, objects)

\* The two merges: of empty blocks into dirty ones, and of the diff into the header.
MergeRight ==
    /\ phase \in {"idle", "process", "failed"} => base = <<>> /\ diff = <<>> /\ merged = <<>>
    /\ phase = "toDiffMapping" =>
           \E n : MergingAt(n, merged, base, diff, Changed, empty, latest, objects)
    /\ phase = "merge" =>
           \E n : MergingAt(n, merged, base, diff, BlockSet, Changed, latest, objects)

HeaderInv == HeaderShape /\ LaterBuildsEmpty /\ BuilderRight /\ MappingRight /\ MergeRight

\* A list stays right where nothing was written since, and as objects only grow.
LEMMA LayeredChange ==
    ASSUME NEW L, NEW cov \in SUBSET BlockSet, NEW S, NEW lt, NEW ob, NEW S2, NEW lt2, NEW ob2,
           Layered(L, cov, S, lt, ob), S2 \subseteq S, S2 \subseteq Nat,
           \A x \in BlockSet : lt[x] \in Nil..MaxLayers,
           \A x \in BlockSet : x \in S2 => lt2[x] = lt[x],
           \A g \in 0..MaxLayers : \A i \in DOMAIN ob[g] : i \in DOMAIN ob2[g] /\ ob2[g][i] = ob[g][i]
    PROVE  Layered(L, cov, S2, lt2, ob2)
<1>1. L \in Maps /\ Ascending(L) /\ (\A x \in Nat : x \in cov <=> Covers(L, x)) /\ RightOn(L, S, lt, ob)
  BY DEF Layered
<1>2. ASSUME NEW i \in DOMAIN L, NEW x \in S2, Has(L[i], x) PROVE Right(L[i], x, lt2, ob2)
  <2> DEFINE m == L[i]
             q == m.storage + x - m.offset + 1
  <2>1. x \in BlockSet
    BY <1>1, <1>2 DEF Covers
  <2>2. Right(m, x, lt, ob)
    BY <1>1, <1>2 DEF RightOn, RightMap
  <2>3. m.build = lt[x] /\ lt2[x] = lt[x] /\ m.build \in Nil..MaxLayers
    BY <2>1, <2>2 DEF Right
  <2> HIDE DEF m
  <2>4. ASSUME m.build # Nil PROVE q \in DOMAIN ob2[m.build] /\ ob2[m.build][q] = x
    <3>1. m.build \in 0..MaxLayers
      BY <2>3, <2>4, LayersAssumption DEF Nil
    <3>2. q \in DOMAIN ob[m.build] /\ ob[m.build][q] = x
      BY <2>2, <2>4 DEF Right
    <3> HIDE DEF q
    <3>3. QED
      BY <3>1, <3>2
  <2>5. Right(m, x, lt2, ob2)
    BY <2>3, <2>4 DEF Right
  <2>6. QED
    BY <2>5 DEF m
<1>3. RightOn(L, S2, lt2, ob2)
  BY <1>2 DEF RightOn, RightMap
<1>4. QED
  BY <1>1, <1>3 DEF Layered

\* The first header is right.
LEMMA HeaderInitial == HeaderInit => HeaderInv
<1> SUFFICES ASSUME HeaderInit PROVE HeaderInv
  OBVIOUS
<1> DEFINE whole == [i \in 1..Blocks |-> i - 1]
           m == BuildMap(0, Blocks, 0, 0)
<1>1. Blocks \in Nat /\ Blocks > 0 /\ MaxLayers \in Nat /\ \A x \in Nat : x \in BlockSet <=> x < Blocks
  BY BlocksAssumption, LayersAssumption DEF BlockSet
<1>2. whole \in Seq(Nat) /\ DOMAIN whole = 1..Blocks /\ \A i \in 1..Blocks : whole[i] = i - 1
  BY <1>1
<1>3. /\ objects = [g \in 0..MaxLayers |-> IF g = 0 THEN whole ELSE <<>>]
      /\ latest = [b \in BlockSet |-> 0] /\ mapping = <<m>>
      /\ generation = 0 /\ phase = "idle" /\ next = 0 /\ dirty = {} /\ empty = {}
  BY DEF HeaderInit
<1>4. \A g \in 0..MaxLayers : objects[g] = IF g = 0 THEN whole ELSE <<>>
  BY <1>3
<1>5. DOMAIN objects = 0..MaxLayers /\ 0 \in 0..MaxLayers
  BY <1>1, <1>3
<1> HIDE DEF whole
<1>6. AscendingObject(whole)
  BY <1>1, <1>2 DEF AscendingObject, Increasing
<1>7. AscendingObject(<<>>)
  <2>1. <<>> \in Seq(Nat) /\ DOMAIN <<>> = {}
    BY EmptySeq
  <2>2. QED
    BY <2>1 DEF AscendingObject, Increasing
<1>8. ObjectsAscend(objects)
  BY <1>4, <1>6, <1>7 DEF ObjectsAscend
<1>9. HeaderShape
  <2>1. 0 \in Nil..MaxLayers
    BY <1>1 DEF Nil
  <2>2. latest \in [BlockSet -> Nil..MaxLayers]
    BY <1>3, <2>1
  <2>3. QED
    BY <1>1, <1>3, <1>5, <1>8, <2>2 DEF HeaderShape
<1>10. LaterBuildsEmpty
  BY <1>1, <1>3, <1>4 DEF LaterBuildsEmpty, NotWritten
<1>11. BuilderRight /\ MergeRight
  BY <1>3 DEF BuilderRight, MergeRight, HeaderInit
<1>12. MappingRight
  <2>1. m \in Map /\ m.offset = 0 /\ EndOf(m) = Blocks /\ m.build = 0 /\ m.storage = 0
    BY <1>1, MapMade DEF BuildMap, Nil
  <2> HIDE DEF m
  <2>2. \A x \in Nat : Has(m, x) <=> x < Blocks
    BY <2>1 DEF Has
  <2>3. RightMap(m, Nat, latest, objects)
    <3>1. ASSUME NEW x \in Nat, Has(m, x) PROVE Right(m, x, latest, objects)
      <4>1. x < Blocks /\ x \in BlockSet
        BY <1>1, <2>2, <3>1
      <4>2. latest[x] = 0
        BY <1>3, <4>1
      <4>3. m.storage + x - m.offset + 1 = x + 1 /\ x + 1 \in 1..Blocks /\ (x + 1) - 1 = x
        BY <1>1, <2>1, <4>1
      <4>4. whole[x + 1] = x /\ x + 1 \in DOMAIN whole
        BY <1>2, <4>3
      <4>5. objects[0] = whole
        BY <1>4, <1>5
      <4>6. QED
        BY <2>1, <4>2, <4>3, <4>4, <4>5 DEF Right
    <3>2. QED
      BY <3>1 DEF RightMap
  <2>4. /\ <<m>> \in Maps /\ Ascending(<<m>>) /\ RightOn(<<m>>, Nat, latest, objects)
        /\ \A x : Covers(<<m>>, x) <=> Has(m, x)
    BY <2>1, <2>3, OneFacts
  <2>5. Layered(mapping, BlockSet, Nat, latest, objects)
    BY <1>1, <1>3, <2>2, <2>4 DEF Layered
  <2>6. QED
    BY <1>3, <2>5 DEF MappingRight
<1>13. QED
  BY <1>9, <1>10, <1>11, <1>12 DEF HeaderInv

\* A new builder has seen nothing.
LEMMA BuilderStarts == HeaderInv /\ NewDiffMetadataBuilder => HeaderInv'
<1> SUFFICES ASSUME HeaderInv, NewDiffMetadataBuilder PROVE HeaderInv'
  OBVIOUS
<1>1. /\ phase = "idle" /\ generation < MaxLayers /\ phase' = "process" /\ next' = 0
      /\ dirty' = {} /\ empty' = {}
      /\ mapping' = mapping /\ generation' = generation /\ objects' = objects /\ latest' = latest
  BY DEF NewDiffMetadataBuilder
<1>2. generation \in 0..MaxLayers /\ MaxLayers \in Nat /\ generation + 1 \in 0..MaxLayers
  BY <1>1, LayersAssumption DEF HeaderInv, HeaderShape
<1>3. HeaderShape'
  BY <1>1, BlocksAssumption DEF HeaderInv, HeaderShape
<1>4. LaterBuildsEmpty /\ NotWritten = generation + 1
  BY <1>1 DEF HeaderInv, NotWritten
<1>5. LaterBuildsEmpty'
  BY <1>1, <1>2, <1>4 DEF LaterBuildsEmpty, NotWritten
<1>6. objects[generation + 1] = <<>>
  BY <1>2, <1>4 DEF LaterBuildsEmpty
<1>7. Enumerates(<<>>, {})
  <2>1. <<>> \in Seq(Nat) /\ DOMAIN <<>> = {}
    BY EmptySeq
  <2>2. QED
    BY <2>1 DEF Enumerates, Increasing
<1>8. WrittenBy(generation + 1, {}, latest, objects) /\ WrittenBy(Nil, {}, latest, objects)
  BY <1>6, <1>7 DEF WrittenBy
<1>9. BuilderRight'
  BY <1>1, <1>8 DEF BuilderRight, Changed
<1>10. MappingRight'
  <2>1. Layered(mapping, BlockSet, Nat, latest, objects)
    BY <1>1 DEF HeaderInv, MappingRight
  <2>2. Nat \ Changed' = Nat
    BY <1>1 DEF Changed
  <2>3. QED
    BY <1>1, <2>1, <2>2 DEF MappingRight
<1>11. MergeRight'
  BY <1>1 DEF MergeRight, HeaderInv, NewDiffMetadataBuilder
<1>12. QED
  BY <1>3, <1>5, <1>9, <1>10, <1>11 DEF HeaderInv

\* A block of zeros was the last write of that block.
LEMMA EmptyMarked == ASSUME HeaderInv, NEW b \in BlockSet, ProcessEmpty(b) PROVE HeaderInv'
<1>1. /\ phase = "process" /\ next <= b /\ empty' = empty \cup {b} /\ next' = b + 1
      /\ latest' = [latest EXCEPT ![b] = Nil]
      /\ mapping' = mapping /\ generation' = generation /\ objects' = objects /\ dirty' = dirty
      /\ phase' = phase
  BY DEF ProcessEmpty, HeaderInv, HeaderShape, BlockSet
<1>2. HeaderShape /\ BuilderRight /\ LaterBuildsEmpty /\ MappingRight
  BY DEF HeaderInv
<1>3. latest \in [BlockSet -> Nil..MaxLayers] /\ Nil \in Nil..MaxLayers /\ b \in Nat /\ next \in Nat
  BY <1>2, LayersAssumption, BlocksAssumption DEF HeaderShape, Nil, BlockSet
<1>4. /\ latest' \in [BlockSet -> Nil..MaxLayers]
      /\ latest'[b] = Nil /\ \A x \in BlockSet : x # b => latest'[x] = latest[x]
  BY <1>1, <1>3
<1>5. HeaderShape'
  <2>1. next' \in 0..Blocks /\ empty' \in SUBSET BlockSet
    BY <1>1, <1>2, <1>3, BlocksAssumption DEF HeaderShape, BlockSet
  <2>2. QED
    BY <1>1, <1>2, <1>4, <2>1 DEF HeaderShape
<1>6. LaterBuildsEmpty'
  BY <1>1, <1>2 DEF LaterBuildsEmpty, NotWritten
<1>7. /\ generation < MaxLayers /\ (\A x \in Changed : x < next) /\ dirty \cap empty = {}
      /\ WrittenBy(generation + 1, dirty, latest, objects) /\ WrittenBy(Nil, empty, latest, objects)
      /\ dirty \in SUBSET BlockSet /\ empty \in SUBSET BlockSet /\ Changed \in SUBSET BlockSet
  BY <1>1, <1>2 DEF BuilderRight, HeaderShape, Changed
<1>8. b \notin Changed /\ Changed' = Changed \cup {b}
  <2>1. b \notin Changed
    BY <1>1, <1>3, <1>7
  <2>2. QED
    BY <1>1, <2>1 DEF Changed
<1>9. BuilderRight'
  <2>1. \A x \in Changed' : x < next'
    <3>1. \A x \in Changed : x \in Nat
      BY <1>7, BlocksAssumption DEF BlockSet
    <3>2. QED
      BY <1>1, <1>3, <1>7, <1>8, <3>1
  <2>2. dirty' \cap empty' = {}
    BY <1>1, <1>7, <1>8 DEF Changed
  <2>3. WrittenBy(generation + 1, dirty, latest', objects)
    BY <1>4, <1>7, <1>8 DEF WrittenBy, Changed
  <2>4. WrittenBy(Nil, empty', latest', objects)
    BY <1>1, <1>3, <1>4, <1>7, <1>8 DEF WrittenBy, Changed
  <2>5. QED
    BY <1>1, <1>7, <2>1, <2>2, <2>3, <2>4 DEF BuilderRight
<1>10. MappingRight'
  <2>1. Layered(mapping, BlockSet, Nat \ Changed, latest, objects)
    BY <1>1, <1>2 DEF MappingRight
  <2>2. /\ Nat \ Changed' \subseteq Nat \ Changed /\ Nat \ Changed' \subseteq Nat
        /\ \A x \in BlockSet : x \in Nat \ Changed' => latest'[x] = latest[x]
        /\ \A x \in BlockSet : latest[x] \in Nil..MaxLayers
    BY <1>3, <1>4, <1>8
  <2>3. Layered(mapping, BlockSet, Nat \ Changed', latest', objects)
    BY <2>1, <2>2, LayeredChange
  <2>4. QED
    BY <1>1, <2>3 DEF MappingRight
<1>11. MergeRight'
  BY <1>1 DEF MergeRight, HeaderInv, ProcessEmpty
<1>12. QED
  BY <1>5, <1>6, <1>9, <1>10, <1>11 DEF HeaderInv

\* Process appends a block after all the others.
LEMMA EnumeratesMore ==
    ASSUME NEW s, NEW T, Enumerates(s, T), NEW b \in Nat, \A x \in T : x < b
    PROVE  /\ Enumerates(Append(s, b), T \cup {b})
           /\ \A i \in DOMAIN s : i \in DOMAIN Append(s, b) /\ Append(s, b)[i] = s[i]
<1> DEFINE A == Append(s, b)
<1>1. s \in Seq(Nat) /\ Increasing(s) /\ \A x \in Nat : x \in T <=> \E i \in DOMAIN s : s[i] = x
  BY DEF Enumerates
<1>2. /\ A \in Seq(Nat) /\ Len(A) = Len(s) + 1 /\ A[Len(A)] = b
      /\ \A i \in 1..Len(s) : A[i] = s[i]
  BY <1>1, AppendProperties
<1>3. /\ Len(s) \in Nat /\ DOMAIN s = 1..Len(s) /\ DOMAIN A = 1..(Len(s) + 1)
      /\ \A i \in DOMAIN s : s[i] \in Nat
  BY <1>1, <1>2, LenProperties, ElementOfSeq
<1> HIDE DEF A
<1>4. \A i \in DOMAIN s : i \in DOMAIN A /\ A[i] = s[i] /\ i < Len(A)
  BY <1>2, <1>3
<1>5. \A i \in DOMAIN A : i = Len(A) \/ (i \in DOMAIN s /\ A[i] = s[i])
  BY <1>2, <1>3
<1>6. Len(A) \in DOMAIN A
  BY <1>2, <1>3
<1>7. \A i \in DOMAIN s : s[i] < b
  BY <1>1, <1>3
<1>8. Increasing(A)
  <2>1. ASSUME NEW i \in DOMAIN A, NEW j \in DOMAIN A, i < j PROVE A[i] < A[j]
    <3>1. i \in DOMAIN s /\ A[i] = s[i]
      BY <1>2, <1>3, <1>5, <2>1
    <3>2. CASE j = Len(A)
      BY <1>2, <1>7, <3>1, <3>2
    <3>3. CASE j # Len(A)
      BY <1>1, <1>5, <2>1, <3>1, <3>3 DEF Increasing
    <3>4. QED
      BY <3>2, <3>3
  <2>2. QED
    BY <2>1 DEF Increasing
<1>9. ASSUME NEW x \in Nat PROVE x \in T \cup {b} <=> \E i \in DOMAIN A : A[i] = x
  <2>1. ASSUME x \in T PROVE \E i \in DOMAIN A : A[i] = x
    BY <1>1, <1>4, <2>1
  <2>2. ASSUME x = b PROVE \E i \in DOMAIN A : A[i] = x
    BY <1>2, <1>6, <2>2
  <2>3. ASSUME NEW i \in DOMAIN A, A[i] = x PROVE x \in T \cup {b}
    BY <1>1, <1>2, <1>5, <2>3
  <2>4. QED
    BY <2>1, <2>2, <2>3
<1>10. QED
  BY <1>2, <1>4, <1>8, <1>9 DEF Enumerates, A

\* A block that is written grows the object of the build under way.
LEMMA DirtyWritten == ASSUME HeaderInv, NEW b \in BlockSet, ProcessDirty(b) PROVE HeaderInv'
<1> DEFINE new == generation + 1
           s == objects[new]
<1>1. /\ phase = "process" /\ next <= b /\ dirty' = dirty \cup {b} /\ next' = b + 1
      /\ latest' = [latest EXCEPT ![b] = new]
      /\ objects' = [objects EXCEPT ![new] = Append(s, b)]
      /\ mapping' = mapping /\ generation' = generation /\ empty' = empty
      /\ phase' = phase
  BY DEF ProcessDirty, HeaderInv, HeaderShape, BlockSet
<1>2. HeaderShape /\ BuilderRight /\ LaterBuildsEmpty /\ MappingRight
  BY DEF HeaderInv
<1>7. /\ generation < MaxLayers /\ (\A x \in Changed : x < next) /\ dirty \cap empty = {}
      /\ WrittenBy(new, dirty, latest, objects) /\ WrittenBy(Nil, empty, latest, objects)
      /\ dirty \in SUBSET BlockSet /\ empty \in SUBSET BlockSet /\ Changed \in SUBSET BlockSet
  BY <1>1, <1>2 DEF BuilderRight, HeaderShape, Changed
<1>3. /\ latest \in [BlockSet -> Nil..MaxLayers] /\ new \in Nil..MaxLayers /\ new \in 0..MaxLayers
      /\ new # Nil /\ b \in Nat /\ next \in Nat /\ generation \in Nat
  BY <1>2, <1>7, LayersAssumption, BlocksAssumption DEF HeaderShape, Nil, BlockSet
<1>a. /\ new = generation + 1 /\ s = objects[new]
  OBVIOUS
<1> HIDE DEF new
<1>4. /\ latest' \in [BlockSet -> Nil..MaxLayers]
      /\ latest'[b] = new /\ \A x \in BlockSet : x # b => latest'[x] = latest[x]
  BY <1>1, <1>3
<1>5. /\ DOMAIN objects' = 0..MaxLayers /\ objects'[new] = Append(s, b)
      /\ \A g \in 0..MaxLayers : g # new => objects'[g] = objects[g]
  BY <1>1, <1>2, <1>3 DEF HeaderShape
<1>8. b \notin Changed /\ Changed' = Changed \cup {b} /\ \A x \in dirty : x < b
  <2>1. \A x \in Changed : x \in Nat
    BY <1>7, BlocksAssumption DEF BlockSet
  <2>2. b \notin Changed /\ \A x \in Changed : x < b
    BY <1>1, <1>3, <1>7, <2>1
  <2>3. QED
    BY <1>1, <2>2 DEF Changed
<1>b. Enumerates(s, dirty)
  BY <1>3, <1>7 DEF WrittenBy
<1>9. /\ Enumerates(Append(s, b), dirty \cup {b})
      /\ \A i \in DOMAIN s : i \in DOMAIN Append(s, b) /\ Append(s, b)[i] = s[i]
  BY <1>3, <1>8, <1>b, EnumeratesMore
<1> HIDE DEF s
<1>10. ObjectsAscend(objects')
  <2>1. AscendingObject(Append(s, b))
    BY <1>9 DEF Enumerates, AscendingObject
  <2>2. ObjectsAscend(objects)
    BY <1>2 DEF HeaderShape
  <2>3. QED
    BY <1>5, <2>1, <2>2 DEF ObjectsAscend
<1>11. HeaderShape'
  <2>1. next' \in 0..Blocks /\ dirty' \in SUBSET BlockSet
    BY <1>1, <1>2, <1>3, BlocksAssumption DEF HeaderShape, BlockSet
  <2>2. QED
    BY <1>1, <1>2, <1>4, <1>5, <1>10, <2>1 DEF HeaderShape
<1>12. LaterBuildsEmpty'
  <2>1. NotWritten = generation + 2 /\ NotWritten' = generation + 2
    BY <1>1 DEF NotWritten
  <2>2. \A g \in 0..MaxLayers : generation + 2 <= g => g # new
    BY <1>3, <1>a
  <2>3. QED
    BY <1>2, <1>5, <2>1, <2>2 DEF LaterBuildsEmpty
<1>13. BuilderRight'
  <2>1. \A x \in Changed' : x < next'
    <3>1. \A x \in Changed : x \in Nat
      BY <1>7, BlocksAssumption DEF BlockSet
    <3>2. QED
      BY <1>1, <1>3, <1>7, <1>8, <3>1
  <2>2. dirty' \cap empty' = {}
    BY <1>1, <1>7, <1>8 DEF Changed
  <2>3. WrittenBy(new, dirty', latest', objects')
    <3>1. \A x \in dirty' : x \in Nat /\ latest'[x] = new
      BY <1>1, <1>3, <1>4, <1>7, <1>8 DEF WrittenBy, Changed
    <3>2. Enumerates(objects'[new], dirty')
      BY <1>1, <1>5, <1>9
    <3>3. QED
      BY <3>1, <3>2 DEF WrittenBy
  <2>4. WrittenBy(Nil, empty', latest', objects')
    BY <1>1, <1>4, <1>7, <1>8 DEF WrittenBy, Changed
  <2>5. QED
    BY <1>1, <1>7, <1>a, <2>1, <2>2, <2>3, <2>4 DEF BuilderRight
<1>14. MappingRight'
  <2>1. Layered(mapping, BlockSet, Nat \ Changed, latest, objects)
    BY <1>1, <1>2 DEF MappingRight
  <2>2. /\ Nat \ Changed' \subseteq Nat \ Changed /\ Nat \ Changed' \subseteq Nat
        /\ \A x \in BlockSet : x \in Nat \ Changed' => latest'[x] = latest[x]
        /\ \A x \in BlockSet : latest[x] \in Nil..MaxLayers
    BY <1>3, <1>4, <1>8
  <2>a. ASSUME NEW g \in 0..MaxLayers, NEW i \in DOMAIN objects[g]
        PROVE  i \in DOMAIN objects'[g] /\ objects'[g][i] = objects[g][i]
    BY <1>5, <1>9, <1>a
  <2>3. Layered(mapping, BlockSet, Nat \ Changed', latest', objects')
    BY <2>1, <2>2, <2>a, LayeredChange
  <2>4. QED
    BY <1>1, <2>3 DEF MappingRight
<1>15. MergeRight'
  BY <1>1 DEF MergeRight, HeaderInv, ProcessDirty
<1>16. QED
  BY <1>11, <1>12, <1>13, <1>14, <1>15 DEF HeaderInv

\* A block that could not be written is marked, and the header below as right as before.
LEMMA WriteFailed == ASSUME HeaderInv, NEW b \in BlockSet, ProcessFails(b) PROVE HeaderInv'
<1>1. /\ phase = "process" /\ phase' = "failed" /\ dirty' = dirty \cup {b} /\ next' = b + 1
      /\ mapping' = mapping /\ generation' = generation /\ objects' = objects /\ empty' = empty
      /\ latest' = latest
  BY DEF ProcessFails
<1>2. HeaderShape /\ LaterBuildsEmpty /\ MappingRight
  BY DEF HeaderInv
<1>3. HeaderShape'
  <2>1. next' \in 0..Blocks /\ dirty' \in SUBSET BlockSet
    BY <1>1, <1>2, BlocksAssumption DEF HeaderShape, BlockSet
  <2>2. QED
    BY <1>1, <1>2, <2>1 DEF HeaderShape
<1>4. LaterBuildsEmpty' /\ BuilderRight'
  BY <1>1, <1>2 DEF LaterBuildsEmpty, NotWritten, BuilderRight
<1>5. MappingRight'
  <2>1. Layered(mapping, BlockSet, Nat \ Changed, latest, objects)
    BY <1>1, <1>2 DEF MappingRight
  <2>2. Nat \ Changed' \subseteq Nat \ Changed /\ Nat \ Changed' \subseteq Nat
    BY <1>1 DEF Changed
  <2>3. \A x \in BlockSet : latest[x] \in Nil..MaxLayers
    BY <1>2 DEF HeaderShape
  <2>4. Layered(mapping, BlockSet, Nat \ Changed', latest, objects)
    BY <2>1, <2>2, <2>3, LayeredChange
  <2>5. QED
    BY <1>1, <2>4 DEF MappingRight
<1>6. MergeRight'
  BY <1>1 DEF MergeRight, HeaderInv, ProcessFails
<1>7. QED
  BY <1>3, <1>4, <1>5, <1>6 DEF HeaderInv

\* The phases after Process leave the builder and the header below alone.
LEMMA BuilderKept ==
    ASSUME HeaderInv, phase \in {"process", "toDiffMapping", "merge"},
           phase' \in {"toDiffMapping", "merge"},
           UNCHANGED <<mapping, generation, next, dirty, empty, objects, latest>>
    PROVE  (HeaderShape /\ LaterBuildsEmpty /\ BuilderRight /\ MappingRight)'
<1>1. HeaderShape'
  BY DEF HeaderInv, HeaderShape
<1>2. LaterBuildsEmpty'
  BY DEF HeaderInv, LaterBuildsEmpty, NotWritten
<1>3. BuilderRight'
  BY DEF HeaderInv, BuilderRight, Changed
<1>4. MappingRight'
  <2>1. Layered(mapping, BlockSet, Nat \ Changed, latest, objects)
    BY DEF HeaderInv, MappingRight
  <2>2. QED
    BY <2>1 DEF MappingRight, Changed
<1>5. QED
  BY <1>1, <1>2, <1>3, <1>4

\* The first merge starts.
LEMMA DiffMapped == HeaderInv /\ ToDiffMapping => HeaderInv'
<1> SUFFICES ASSUME HeaderInv, ToDiffMapping PROVE HeaderInv'
  OBVIOUS
<1> DEFINE bs == CreateMapping(generation + 1, dirty)
           ds == CreateMapping(Nil, empty)
<1>1. /\ phase = "process" /\ phase' = "toDiffMapping" /\ base' = bs /\ diff' = ds /\ merged' = <<>>
      /\ UNCHANGED <<mapping, generation, next, dirty, empty, objects, latest>>
  BY DEF ToDiffMapping
<1>2. (HeaderShape /\ LaterBuildsEmpty /\ BuilderRight /\ MappingRight)'
  BY <1>1, BuilderKept
<1>3. /\ WrittenBy(generation + 1, dirty, latest, objects) /\ WrittenBy(Nil, empty, latest, objects)
      /\ dirty \in SUBSET BlockSet /\ empty \in SUBSET BlockSet
      /\ generation + 1 \in Nil..MaxLayers /\ Nil \in Nil..MaxLayers /\ latest \in [BlockSet -> Nil..MaxLayers]
  BY <1>1, LayersAssumption DEF HeaderInv, BuilderRight, HeaderShape, Nil
<1>4. Layered(bs, dirty, Nat, latest, objects) /\ Layered(ds, empty, Nat, latest, objects)
  BY <1>3, CreateMappingFacts
<1> HIDE DEF bs, ds
<1>5. Layered(bs, dirty, Nat \ empty, latest, objects)
  <2>1. /\ Nat \ empty \subseteq Nat /\ \A x \in BlockSet : latest[x] \in Nil..MaxLayers
    BY <1>3
  <2>2. QED
    BY <1>3, <1>4, <2>1, LayeredChange
<1>6. MergingAt(0, <<>>, bs, ds, Changed, empty, latest, objects)
  BY <1>4, <1>5, MergeStarts DEF Changed
<1>7. MergeRight'
  BY <1>1, <1>6 DEF MergeRight, Changed
<1>8. QED
  BY <1>2, <1>7 DEF HeaderInv

\* A step of either merge.
LEMMA MergeSteps ==
    ASSUME HeaderInv,
           \/ BaseBefore \/ DiffBefore \/ BaseInsideDiff \/ DiffInsideBase \/ DiffOverStart
           \/ DiffOverEnd
    PROVE  HeaderInv'
<1>1. MergeLoop
  BY DEF BaseBefore, DiffBefore, BaseInsideDiff, DiffInsideBase, DiffOverStart, DiffOverEnd
<1>2. /\ phase \in {"toDiffMapping", "merge"} /\ phase' = phase
      /\ UNCHANGED <<mapping, generation, next, dirty, empty, objects, latest>>
  BY <1>1 DEF MergeLoop
<1>3. (HeaderShape /\ LaterBuildsEmpty /\ BuilderRight /\ MappingRight)'
  BY <1>2, BuilderKept
<1>4. MergeRight
  BY DEF HeaderInv
<1>5. CASE phase = "toDiffMapping"
  <2>1. PICK n : MergingAt(n, merged, base, diff, Changed, empty, latest, objects)
    BY <1>4, <1>5 DEF MergeRight
  <2>2. MergeStepped(Changed, empty)
    BY <2>1, MergeCases
  <2>3. MergeRight'
    BY <1>2, <1>5, <2>2 DEF MergeStepped, MergeRight, Changed
  <2>4. QED
    BY <1>3, <2>3 DEF HeaderInv
<1>6. CASE phase = "merge"
  <2>1. PICK n : MergingAt(n, merged, base, diff, BlockSet, Changed, latest, objects)
    BY <1>4, <1>6 DEF MergeRight
  <2>2. MergeStepped(BlockSet, Changed)
    BY <2>1, MergeCases
  <2>3. MergeRight'
    BY <1>2, <1>6, <2>2 DEF MergeStepped, MergeRight, Changed
  <2>4. QED
    BY <1>3, <2>3 DEF HeaderInv
<1>7. QED
  BY <1>2, <1>5, <1>6

\* The second merge starts.
LEMMA DiffReady == HeaderInv /\ MergeDiff => HeaderInv'
<1> SUFFICES ASSUME HeaderInv, MergeDiff PROVE HeaderInv'
  OBVIOUS
<1>1. /\ phase = "toDiffMapping" /\ (base = <<>> \/ diff = <<>>) /\ phase' = "merge"
      /\ base' = mapping /\ diff' = MergeResult /\ merged' = <<>>
      /\ UNCHANGED <<mapping, generation, next, dirty, empty, objects, latest>>
  BY DEF MergeDiff, MergeDone
<1>2. (HeaderShape /\ LaterBuildsEmpty /\ BuilderRight /\ MappingRight)'
  BY <1>1, BuilderKept
<1>3. PICK n : MergingAt(n, merged, base, diff, Changed, empty, latest, objects)
  BY <1>1 DEF HeaderInv, MergeRight
<1>4. Layered(MergeResult, Changed, Nat, latest, objects)
  BY <1>1, <1>3, MergeEnds DEF MergeResult
<1>5. Layered(mapping, BlockSet, Nat \ Changed, latest, objects)
  BY <1>1 DEF HeaderInv, MappingRight
<1>6. BlockSet = BlockSet \cup Changed
  BY DEF HeaderInv, HeaderShape, Changed
<1>7. MergingAt(0, <<>>, mapping, MergeResult, BlockSet, Changed, latest, objects)
  BY <1>4, <1>5, <1>6, MergeStarts
<1>8. MergeRight'
  BY <1>1, <1>7 DEF MergeRight, Changed
<1>9. QED
  BY <1>2, <1>8 DEF HeaderInv

\* The new header is right.
LEMMA HeaderReady == HeaderInv /\ ToDiffHeader => HeaderInv'
<1> SUFFICES ASSUME HeaderInv, ToDiffHeader PROVE HeaderInv'
  OBVIOUS
<1>1. /\ phase = "merge" /\ (base = <<>> \/ diff = <<>>) /\ phase' = "idle"
      /\ mapping' = NormalizeMappings(MergeResult) /\ generation' = generation + 1
      /\ UNCHANGED <<next, dirty, empty, objects, latest>>
  BY DEF ToDiffHeader, MergeDone
<1>2. HeaderShape /\ LaterBuildsEmpty /\ BuilderRight
  BY DEF HeaderInv
<1>3. PICK n : MergingAt(n, merged, base, diff, BlockSet, Changed, latest, objects)
  BY <1>1 DEF HeaderInv, MergeRight
<1>4. Layered(MergeResult, BlockSet, Nat, latest, objects)
  BY <1>1, <1>3, MergeEnds DEF MergeResult
<1>5. ObjectsAscend(objects) /\ \A x \in BlockSet : latest[x] \in Nil..MaxLayers
  BY <1>2 DEF HeaderShape
<1>6. Layered(NormalizeMappings(MergeResult), BlockSet, Nat, latest, objects)
  BY <1>4, <1>5, NormalizeFacts
<1>7. MappingRight'
  BY <1>1, <1>6 DEF MappingRight
<1>8. generation + 1 \in 0..MaxLayers /\ generation \in Nat
  BY <1>1, <1>2, LayersAssumption DEF HeaderShape, BuilderRight
<1>9. HeaderShape'
  BY <1>1, <1>2, <1>8 DEF HeaderShape
<1>10. LaterBuildsEmpty'
  <2>1. NotWritten' = NotWritten
    BY <1>1, <1>8 DEF NotWritten
  <2>2. QED
    BY <1>1, <1>2, <2>1 DEF LaterBuildsEmpty
<1>11. BuilderRight' /\ MergeRight'
  BY <1>1 DEF BuilderRight, MergeRight, ToDiffHeader
<1>12. QED
  BY <1>7, <1>9, <1>10, <1>11 DEF HeaderInv

\* Nothing changes.
LEMMA HeaderUnchanged == HeaderInv /\ UNCHANGED headerVars => HeaderInv'
<1> SUFFICES ASSUME HeaderInv, UNCHANGED headerVars PROVE HeaderInv'
  OBVIOUS
<1>1. UNCHANGED <<mapping, generation, phase, next, dirty, empty, objects, base, diff, merged, latest>>
  BY DEF headerVars
<1>2. HeaderShape' /\ LaterBuildsEmpty'
  BY <1>1 DEF HeaderInv, HeaderShape, LaterBuildsEmpty, NotWritten
<1>3. BuilderRight' /\ MappingRight'
  BY <1>1 DEF HeaderInv, BuilderRight, MappingRight, Changed
<1>4. MergeRight'
  BY <1>1 DEF HeaderInv, MergeRight, Changed
<1>5. QED
  BY <1>2, <1>3, <1>4 DEF HeaderInv

\* getMapping finds the map that has the block.
LEMMA MappingFound ==
    ASSUME NEW S, Layered(mapping, BlockSet, S, latest, objects), NEW b \in BlockSet
    PROVE  \E i \in DOMAIN mapping : MappingOf(b) = mapping[i] /\ Has(mapping[i], b)
<1>1. /\ mapping \in Maps /\ Ascending(mapping) /\ b \in Nat /\ Covers(mapping, b)
  BY BlocksAssumption DEF Layered, BlockSet
<1>2. /\ Len(mapping) \in Nat /\ DOMAIN mapping = 1..Len(mapping)
      /\ \A i \in DOMAIN mapping : mapping[i] \in Map
  BY <1>1, MapsView
<1>3. \A i \in DOMAIN mapping : /\ mapping[i].offset \in Nat /\ EndOf(mapping[i]) \in Nat
                                /\ mapping[i].offset < EndOf(mapping[i])
  BY <1>2, MapFields
<1>4. PICK i \in DOMAIN mapping : Has(mapping[i], b)
  BY <1>1 DEF Covers
<1> DEFINE m == mapping[i]
<1>5. m.offset <= b /\ b < EndOf(m)
  BY <1>4 DEF Has
<1>6. ASSUME NEW j \in DOMAIN mapping, mapping[j].offset <= b
      PROVE  mapping[j].offset <= m.offset /\ (mapping[j].offset = m.offset => mapping[j] = m)
  <2>1. CASE j = i
    BY <1>3, <2>1
  <2>2. CASE j < i
    <3>1. EndOf(mapping[j]) <= m.offset
      BY <1>1, <2>2 DEF Ascending
    <3>2. QED
      BY <1>3, <3>1
  <2>3. CASE i < j
    <3>1. EndOf(m) <= mapping[j].offset
      BY <1>1, <2>3 DEF Ascending
    <3>2. QED
      BY <1>1, <1>3, <1>5, <1>6, <3>1
  <2>4. QED
    BY <1>2, <2>1, <2>2, <2>3
<1>7. m \in Range(mapping) /\ \A n \in Range(mapping) : \E j \in DOMAIN mapping : n = mapping[j]
  BY DEF Range
<1>8. \A n \in Range(mapping) : n.offset <= b =>
          n.offset <= m.offset /\ (n.offset = m.offset => n = m) /\ n.offset \in Nat
  BY <1>3, <1>6, <1>7
<1>9. m.offset \in Nat
  BY <1>3
<1> DEFINE Found(c) == c.offset <= b /\ \A n \in Range(mapping) : n.offset <= b => n.offset <= c.offset
<1>10. Found(m)
  BY <1>5, <1>8
<1>11. \A c \in Range(mapping) : Found(c) => c = m
  BY <1>5, <1>7, <1>8, <1>9
<1>12. MappingOf(b) = CHOOSE c \in Range(mapping) : Found(c)
  BY DEF MappingOf
<1> HIDE DEF Found, m
<1>13. MappingOf(b) = m
  BY <1>7, <1>10, <1>11, <1>12
<1>14. QED
  BY <1>4, <1>13 DEF m

\* What the map found says of a block on which the header is right.
LEMMA FoundIsRight ==
    ASSUME NEW S, Layered(mapping, BlockSet, S, latest, objects), NEW b \in BlockSet
    PROVE  /\ MappingOf(b).build \in Nil..MaxLayers /\ b < EndOf(MappingOf(b))
           /\ b \in S => /\ MappingOf(b).build = latest[b]
                         /\ MappingOf(b).build # Nil =>
                                /\ PlaceOf(b) \in DOMAIN objects[MappingOf(b).build]
                                /\ objects[MappingOf(b).build][PlaceOf(b)] = b
<1>1. PICK i \in DOMAIN mapping : MappingOf(b) = mapping[i] /\ Has(mapping[i], b)
  BY MappingFound
<1>2. mapping \in Maps /\ RightOn(mapping, S, latest, objects)
  BY DEF Layered
<1>3. MappingOf(b).build \in Nil..MaxLayers /\ b < EndOf(MappingOf(b))
  BY <1>1, <1>2, MapsView, MapFields DEF Has
<1>4. b \in S => Right(MappingOf(b), b, latest, objects)
  BY <1>1, <1>2 DEF RightOn, RightMap
<1>5. QED
  BY <1>3, <1>4 DEF Right, PlaceOf

\* What the invariant says of a header that is ready.
LEMMA HeaderInvResolves == HeaderInv => LayersResolve
<1> SUFFICES ASSUME HeaderInv, phase = "idle"
             PROVE  /\ ValidateMappings
                    /\ \A b \in BlockSet :
                          LET m == MappingOf(b) IN
                          /\ m.build = latest[b] /\ b < EndOf(m)
                          /\ m.build # Nil => /\ PlaceOf(b) \in DOMAIN objects[m.build]
                                              /\ objects[m.build][PlaceOf(b)] = b
  BY DEF LayersResolve
<1>1. Layered(mapping, BlockSet, Nat, latest, objects)
  BY DEF HeaderInv, MappingRight
<1>2. ValidateMappings
  <2>1. /\ Len(mapping) \in Nat /\ Len(mapping) > 0 /\ mapping[1].offset = 0
        /\ EndOf(mapping[Len(mapping)]) = Blocks
        /\ \A i \in 2..Len(mapping) : mapping[i].offset = EndOf(mapping[i - 1])
    BY <1>1, TiledFacts
  <2>2. DOMAIN mapping = 1..Len(mapping)
    BY <1>1, MapsView DEF Layered
  <2>3. ASSUME NEW i \in DOMAIN mapping
        PROVE  mapping[i].offset = IF i = 1 THEN 0 ELSE EndOf(mapping[i - 1])
    <3>1. i = 1 \/ i \in 2..Len(mapping)
      BY <2>1, <2>2
    <3>2. QED
      BY <2>1, <3>1
  <2>4. QED
    BY <2>1, <2>3 DEF ValidateMappings
<1>3. BlockSet \subseteq Nat
  BY BlocksAssumption DEF BlockSet
<1>4. QED
  BY <1>1, <1>2, <1>3, FoundIsRight

\* The maps of a list that covers blocks of the file only have the types of the header's fields.
LEMMA ListTyped ==
    ASSUME NEW L \in Maps, \A x \in Nat : Covers(L, x) => x \in BlockSet
    PROVE  \A m \in Range(L) : m \in [offset : BlockSet, length : 1..Blocks, build : Nil..MaxLayers,
                                      storage : 0..(Blocks - 1)]
<1>1. ASSUME NEW i \in DOMAIN L
      PROVE  L[i] \in [offset : BlockSet, length : 1..Blocks, build : Nil..MaxLayers,
                       storage : 0..(Blocks - 1)]
  <2> DEFINE m == L[i]
             x == EndOf(m) - 1
  <2>1. m \in Map
    BY MapsView
  <2>2. \A y \in Nat : Has(m, y) => y \in BlockSet
    BY DEF Covers
  <2> HIDE DEF m
  <2>3. /\ m.offset \in Nat /\ m.length \in Nat /\ m.length > 0 /\ m.build \in Nil..MaxLayers
        /\ m.storage \in Nat /\ m.storage <= m.offset /\ EndOf(m) = m.offset + m.length
    BY <2>1, MapFields
  <2>4. x \in Nat /\ Has(m, x) /\ Has(m, m.offset)
    BY <2>3 DEF Has
  <2>5. x \in BlockSet /\ m.offset \in BlockSet
    BY <2>2, <2>3, <2>4
  <2>6. m.length \in 1..Blocks /\ m.storage \in 0..(Blocks - 1)
    BY <2>3, <2>5, BlocksAssumption DEF BlockSet
  <2>7. m = [offset |-> m.offset, length |-> m.length, build |-> m.build, storage |-> m.storage]
    BY <2>1 DEF Map, MapRecord
  <2>8. m \in [offset : BlockSet, length : 1..Blocks, build : Nil..MaxLayers, storage : 0..(Blocks - 1)]
    BY <2>3, <2>5, <2>6, <2>7
  <2>9. QED
    BY <2>8 DEF m
<1>2. QED
  BY <1>1 DEF Range

\* What the invariant says of the types.
LEMMA HeaderInvTyped == HeaderInv => HeaderTypeOK
<1> SUFFICES ASSUME HeaderInv PROVE HeaderTypeOK
  OBVIOUS
<1> DEFINE Typed(L) == \A m \in Range(L) :
                           m \in [offset : BlockSet, length : 1..Blocks, build : Nil..MaxLayers,
                                  storage : 0..(Blocks - 1)]
<1>1. HeaderShape /\ MappingRight /\ MergeRight
  BY DEF HeaderInv
<1>2. Typed(mapping)
  BY <1>1, ListTyped DEF MappingRight, Layered
<1>3. ASSUME NEW cov \in SUBSET BlockSet, NEW over,
             \E n : MergingAt(n, merged, base, diff, cov, over, latest, objects)
      PROVE  Typed(base) /\ Typed(diff) /\ Typed(merged)
  <2>1. /\ merged \in Maps /\ base \in Maps /\ diff \in Maps
        /\ \A x \in Nat : Covers(merged, x) \/ Covers(base, x) \/ Covers(diff, x) => x \in BlockSet
    BY <1>3 DEF MergingAt
  <2> HIDE DEF Typed
  <2>2. Typed(merged)
    BY <2>1, ListTyped DEF Typed
  <2>3. Typed(base)
    BY <2>1, ListTyped DEF Typed
  <2>4. Typed(diff)
    BY <2>1, ListTyped DEF Typed
  <2>5. QED
    BY <2>2, <2>3, <2>4
<1>4. Typed(<<>>)
  BY DEF Range
<1> HIDE DEF Typed
<1>5. Typed(base) /\ Typed(diff) /\ Typed(merged)
  <2>1. CASE phase \in {"idle", "process", "failed"}
    BY <1>1, <1>4, <2>1 DEF MergeRight
  <2>2. CASE phase = "toDiffMapping"
    <3>1. Changed \in SUBSET BlockSet
      BY <1>1 DEF HeaderShape, Changed
    <3>2. QED
      BY <1>1, <1>3, <2>2, <3>1 DEF MergeRight
  <2>3. CASE phase = "merge"
    <3>1. BlockSet \in SUBSET BlockSet
      OBVIOUS
    <3>2. QED
      BY <1>1, <1>3, <2>3, <3>1 DEF MergeRight
  <2>4. QED
    BY <1>1, <2>1, <2>2, <2>3 DEF HeaderShape
<1>6. QED
  BY <1>1, <1>2, <1>5 DEF HeaderTypeOK, HeaderShape, Typed

\* The inductive invariant holds throughout (header.go:64-145, metadata.go:52-106,
\* mapping.go:31-274).
THEOREM HeaderInductive == HeaderInit /\ [][HeaderNext]_headerVars => []HeaderInv
<1>1. HeaderInv /\ [HeaderNext]_headerVars => HeaderInv'
  <2> SUFFICES ASSUME HeaderInv, [HeaderNext]_headerVars PROVE HeaderInv'
    OBVIOUS
  <2>1. ASSUME NEW b \in BlockSet, ProcessEmpty(b) \/ ProcessDirty(b) \/ ProcessFails(b)
        PROVE  HeaderInv'
    BY <2>1, EmptyMarked, DirtyWritten, WriteFailed
  <2>2. CASE \/ BaseBefore \/ DiffBefore \/ BaseInsideDiff \/ DiffInsideBase \/ DiffOverStart
             \/ DiffOverEnd
    BY <2>2, MergeSteps
  <2>3. QED
    BY <2>1, <2>2, BuilderStarts, DiffMapped, DiffReady, HeaderReady, HeaderUnchanged
       DEF HeaderNext
<1>2. QED
  BY <1>1, HeaderInitial, PTL

\* The header's maps, the lists of a merge under way and the builder's sets stay within the file:
\* no length is 0, and no offset in the file or in an object passes the last block
\* (mapping.go:31-274, metadata.go:52-106).
THEOREM HeaderTyped == HeaderInit /\ [][HeaderNext]_headerVars => []HeaderTypeOK
BY HeaderInductive, HeaderInvTyped, PTL

\* For a file of any number of blocks and through any number of layers, a header that
\* ToDiffHeader returns passes ValidateMappings, and GetShiftedMapping answers with the build that
\* last wrote the block and the block's place in its object (header.go:64-145,
\* metadata.go:52-106, mapping.go:31-274).
THEOREM LayersFound == HeaderInit /\ [][HeaderNext]_headerVars => []LayersResolve
BY HeaderInductive, HeaderInvResolves, PTL

\* What a reader is given is the block asked for, also of the blocks that the layer under way
\* has written: their places in the objects below are not written again.
Readable ==
    \A b \in BlockSet :
        /\ MappingOf(b).build \in Nil..MaxLayers
        /\ MappingOf(b).build # Nil => /\ PlaceOf(b) \in DOMAIN objects[MappingOf(b).build]
                                      /\ objects[MappingOf(b).build][PlaceOf(b)] = b

ShowsLatest == \A b \in BlockSet : MappingOf(b).build = latest[b]

\* A header that is ready is readable, and shows what was written last.
LEMMA ReadyReadable == HeaderInv /\ phase = "idle" => Readable /\ ShowsLatest
<1> SUFFICES ASSUME HeaderInv, phase = "idle" PROVE Readable /\ ShowsLatest
  OBVIOUS
<1>1. Layered(mapping, BlockSet, Nat, latest, objects)
  BY DEF HeaderInv, MappingRight
<1>2. BlockSet \subseteq Nat
  BY BlocksAssumption DEF BlockSet
<1>3. QED
  BY <1>1, <1>2, FoundIsRight DEF Readable, ShowsLatest

\* So a read is told by the build of the map found.
LEMMA ReadOfReadable ==
    ASSUME Readable, NEW b \in BlockSet
    PROVE  ReadBlock(b) = <<MappingOf(b).build, b>>
BY DEF Readable, ReadBlock

\* Only ToDiffHeader changes the maps, and objects only grow.
LEMMA MapsKept ==
    ASSUME HeaderInv, [HeaderNext]_headerVars, ~ToDiffHeader
    PROVE  /\ mapping' = mapping /\ generation' = generation
           /\ \A g \in 0..MaxLayers : \A i \in DOMAIN objects[g] :
                  i \in DOMAIN objects'[g] /\ objects'[g][i] = objects[g][i]
<1>1. /\ DOMAIN objects = 0..MaxLayers /\ generation \in 0..MaxLayers
      /\ \A g \in 0..MaxLayers : objects[g] \in Seq(Nat)
  BY DEF HeaderInv, HeaderShape, ObjectsAscend, AscendingObject
<1>2. ASSUME NEW b \in BlockSet, ProcessDirty(b)
      PROVE  /\ mapping' = mapping /\ generation' = generation
             /\ \A g \in 0..MaxLayers : \A i \in DOMAIN objects[g] :
                    i \in DOMAIN objects'[g] /\ objects'[g][i] = objects[g][i]
  <2>1. /\ mapping' = mapping /\ generation' = generation
        /\ objects' = [objects EXCEPT ![generation + 1] = Append(@, b)]
    BY <1>2 DEF ProcessDirty
  <2>2. ASSUME NEW g \in 0..MaxLayers, NEW i \in DOMAIN objects[g]
        PROVE  i \in DOMAIN objects'[g] /\ objects'[g][i] = objects[g][i]
    <3>1. CASE g # generation + 1
      BY <1>1, <2>1, <3>1
    <3>2. CASE g = generation + 1
      <4>1. objects'[g] = Append(objects[g], b)
        BY <1>1, <2>1, <3>2
      <4>2. b \in Nat /\ objects[g] \in Seq(Nat)
        BY <1>1, BlocksAssumption DEF BlockSet
      <4>3. QED
        BY <4>1, <4>2, AppendProperties, LenProperties
    <3>3. QED
      BY <3>1, <3>2
  <2>3. QED
    BY <2>1, <2>2
<1>3. CASE UNCHANGED <<mapping, generation, objects>>
  BY <1>3
<1>4. QED
  BY <1>2, <1>3 DEF HeaderNext, headerVars, NewDiffMetadataBuilder, ToDiffMapping, MergeDiff,
     ProcessEmpty, ProcessFails, BaseBefore, DiffBefore, BaseInsideDiff, DiffInsideBase,
     DiffOverStart, DiffOverEnd, MergeLoop

\* A step that keeps the maps shows the same file.
LEMMA ReadsKept ==
    ASSUME HeaderInv, Readable, [HeaderNext]_headerVars, ~ToDiffHeader
    PROVE  Readable' /\ \A b \in BlockSet : MappingOf(b)' = MappingOf(b)
<1>1. \A b \in BlockSet : MappingOf(b)' = MappingOf(b) /\ PlaceOf(b)' = PlaceOf(b)
  BY MapsKept DEF MappingOf, PlaceOf
<1>2. \A g \in 0..MaxLayers : \A i \in DOMAIN objects[g] :
          i \in DOMAIN objects'[g] /\ objects'[g][i] = objects[g][i]
  BY MapsKept
<1>3. \A b \in Nil..MaxLayers : b # Nil => b \in 0..MaxLayers
  BY LayersAssumption DEF Nil
<1>4. QED
  BY <1>1, <1>2, <1>3 DEF Readable

\* ToDiffHeader is the snapshot of the blocks that Process was given.
LEMMA SnapshotShown ==
    ASSUME HeaderInv, Readable, HeaderInv', ToDiffHeader
    PROVE  Readable' /\ Shown!Snapshot
<1>1. /\ phase = "merge" /\ phase' = "idle" /\ generation' = generation + 1
      /\ latest' = latest /\ dirty' = dirty /\ empty' = empty
  BY DEF ToDiffHeader
<1>2. Readable' /\ \A b \in BlockSet : MappingOf(b)'.build = latest[b]
  <2>1. (HeaderInv /\ phase = "idle")' => (Readable /\ ShowsLatest)'
    BY ReadyReadable, PTL
  <2>2. QED
    BY <1>1, <2>1 DEF ShowsLatest
<1>3. /\ generation < MaxLayers
      /\ \A b \in dirty : latest[b] = generation + 1
      /\ \A b \in empty : latest[b] = Nil
  BY <1>1 DEF HeaderInv, BuilderRight, WrittenBy
<1>4. \A b \in BlockSet : b \notin dirty /\ b \notin empty => MappingOf(b).build = latest[b]
  <2>1. Layered(mapping, BlockSet, Nat \ Changed, latest, objects)
    BY <1>1 DEF HeaderInv, MappingRight
  <2>2. BlockSet \subseteq Nat
    BY BlocksAssumption DEF BlockSet
  <2>3. ASSUME NEW b \in BlockSet, b \notin dirty, b \notin empty
        PROVE  MappingOf(b).build = latest[b]
    <3>1. b \in Nat \ Changed
      BY <2>2, <2>3 DEF Changed
    <3>2. QED
      BY <2>1, <3>1, FoundIsRight
  <2>4. QED
    BY <2>3
<1>5. \A b \in BlockSet : ReadBlock(b) = <<MappingOf(b).build, b>>
  BY ReadOfReadable
<1>6. \A b \in BlockSet : ReadBlock(b)' = <<latest[b], b>>
  BY <1>2 DEF Readable, ReadBlock
<1>7. \A b \in BlockSet :
          ReadBlock(b)' = IF b \in dirty THEN <<generation + 1, b>>
                          ELSE IF b \in empty THEN <<Nil, b>> ELSE ReadBlock(b)
  BY <1>3, <1>4, <1>5, <1>6
<1>8. QED
  BY <1>1, <1>2, <1>3, <1>7 DEF Shown!Snapshot, Shown!FileBlocks, Shown!Zeros, BlockSet, Nil

\* Read through its newest header, a file of any number of blocks and under any number of layers
\* is one that changes only when ToDiffHeader returns, and then in exactly the blocks that
\* were handed to Process since the layer before (header.go:64-145, metadata.go:52-150).
THEOREM HeaderImplementsFile == HeaderInit /\ [][HeaderNext]_headerVars => ReadsAreLayered
<1>1. HeaderInit => Readable /\ Shown!FileInit
  <2> SUFFICES ASSUME HeaderInit PROVE Readable /\ Shown!FileInit
    OBVIOUS
  <2>1. generation = 0 /\ \A b \in BlockSet : latest[b] = 0
    BY DEF HeaderInit
  <2>2. Readable /\ \A b \in BlockSet : MappingOf(b).build = latest[b]
    BY HeaderInitial, ReadyReadable DEF HeaderInit, ShowsLatest
  <2>3. \A b \in BlockSet : ReadBlock(b) = <<0, b>>
    BY <2>1, <2>2, ReadOfReadable
  <2>4. QED
    BY <2>1, <2>2, <2>3 DEF Shown!FileInit, Shown!FileBlocks, BlockSet, HeaderInit
<1>2. HeaderInv /\ HeaderInv' /\ Readable /\ [HeaderNext]_headerVars
          => Readable' /\ [Shown!FileNext]_(Shown!fileVars)
  <2> SUFFICES ASSUME HeaderInv, HeaderInv', Readable, [HeaderNext]_headerVars
               PROVE  Readable' /\ [Shown!FileNext]_(Shown!fileVars)
    OBVIOUS
  <2>1. CASE ToDiffHeader
    BY <2>1, SnapshotShown DEF Shown!FileNext
  <2>2. CASE ~ToDiffHeader
    <3>1. Readable' /\ \A b \in BlockSet : MappingOf(b)' = MappingOf(b)
      BY <2>2, ReadsKept
    <3>2. \A b \in BlockSet : ReadBlock(b)' = ReadBlock(b)
      BY <3>1 DEF Readable, ReadBlock
    <3>3. generation' = generation
      BY <2>2, MapsKept
    <3>4. [b \in BlockSet |-> ReadBlock(b)]' = [b \in BlockSet |-> ReadBlock(b)]
      BY <3>2
    <3>5. CASE NewDiffMetadataBuilder
      BY <3>1, <3>3, <3>4, <3>5 DEF NewDiffMetadataBuilder, Shown!FileNext, Shown!Begin
    <3>6. ASSUME NEW b \in BlockSet, ProcessEmpty(b) \/ ProcessDirty(b) \/ ProcessFails(b)
          PROVE  Shown!FileNext
      <4>1. b \notin dirty \cup empty
        <5>1. phase = "process" /\ next <= b /\ b \in Nat
          BY <3>6, BlocksAssumption DEF ProcessEmpty, ProcessDirty, ProcessFails, BlockSet, HeaderInv,
             HeaderShape
        <5>2. (\A x \in Changed : x < next) /\ next \in Nat
          BY <5>1, BlocksAssumption DEF HeaderInv, HeaderShape, BuilderRight
        <5>3. QED
          BY <5>1, <5>2 DEF Changed
      <4>2. CASE ProcessEmpty(b)
        <5>1. Shown!Clear(b)
          BY <3>3, <3>4, <4>1, <4>2 DEF ProcessEmpty, Shown!Clear
        <5>2. QED
          BY <5>1 DEF Shown!FileNext, Shown!FileBlocks, BlockSet
      <4>3. CASE ProcessDirty(b) \/ ProcessFails(b)
        <5>1. Shown!Write(b)
          BY <3>3, <3>4, <4>1, <4>3 DEF ProcessDirty, ProcessFails, Shown!Write
        <5>2. QED
          BY <5>1 DEF Shown!FileNext, Shown!FileBlocks, BlockSet
      <4>4. QED
        BY <3>6, <4>2, <4>3
    <3>7. CASE UNCHANGED <<dirty, empty>>
      BY <3>1, <3>3, <3>4, <3>7 DEF Shown!fileVars
    <3>8. NewDiffMetadataBuilder \/ UNCHANGED <<dirty, empty>> \/
              \E b \in BlockSet : ProcessEmpty(b) \/ ProcessDirty(b) \/ ProcessFails(b)
      BY <2>2 DEF HeaderNext, headerVars, ToDiffMapping, MergeDiff, BaseBefore, DiffBefore,
         BaseInsideDiff, DiffInsideBase, DiffOverStart, DiffOverEnd, MergeLoop
    <3>9. QED
      BY <3>1, <3>5, <3>6, <3>7, <3>8
  <2>3. QED
    BY <2>1, <2>2
<1>3. QED
  BY <1>1, <1>2, HeaderInductive, PTL DEF ReadsAreLayered, Shown!FileSpec
=============================================================================
