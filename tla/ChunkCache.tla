----------------------------- MODULE ChunkCache ------------------------------
(***************************************************************************)
(* One file of the cache in front of object storage                       *)
(* (packages/shared/pkg/storage): a chunk of a seekable object, the       *)
(* content of a blob, or a size, on a file system that several machines   *)
(* mount.  A miss is answered by the remote storage and written back in   *)
(* the background under a lock file, through a temporary file that is     *)
(* hard-linked into place; StoreFile writes chunks in place.              *)
(*                                                                         *)
(* Objects do not change while they exist.  Content is <<from, len>>: the *)
(* units of the chunk from an offset on; no file is <<>>.  External: the  *)
(* file system, whose open, create, link and remove are atomic and whose  *)
(* remove does not fail; time, which ages a lock file; and the remote     *)
(* storage.  Opening and reading a cached file is one step and changes    *)
(* nothing; an answer of the remote storage is of when it was asked.      *)
(***************************************************************************)
EXTENDS Integers, FiniteSets

CONSTANTS
    Nodes,      \* operations that may fill the cache, each on a machine of its own
    NoOne,      \* no owner
    ChunkSize   \* units in a chunk

ASSUME NodesAssumption == NoOne \notin Nodes
ASSUME ChunkAssumption == ChunkSize \in Nat \ {0}

VARIABLES
    file,       \* which file this is
    length,     \* units of the object in it
    remote,     \* the object in the remote storage
    final,      \* the cached file
    lockBy,     \* who made the lock file that is there
    lockOld,    \* it is older than defaultLockTTL
    op,         \* each operation: where it is, what it read
    builder,    \* StoreFile writing the chunk in place: where it is, units copied,
                \* whether its file is the one under the final name
    deleting,   \* what DeleteObjectsWithPrefix has still to delete
    aged,       \* history: a lock got old or was deleted
    clean,      \* history: the cached file was deleted after the remote object, with
                \* no read, open reader or write-back under way
    partial,    \* history: a request asked for less than the chunk holds
    torn        \* history: an answer cut off was taken for a whole one, or a blob's
                \* temporary file was linked although its Close failed

cacheVars == <<final, lockBy, lockOld>>
vars == <<file, length, remote, cacheVars, op, builder, deleting, clean, aged, partial, torn>>

NoFile == <<>>
Owning == {"write", "link", "release"}
AtRest == {"idle", "done", "crashed"}
Content == {NoFile} \cup (0..ChunkSize) \X (0..ChunkSize)

TypeOK ==
    /\ file \in {"chunk", "blob", "size"} /\ length \in 1..ChunkSize
    /\ remote \in {"absent", "stored", "deleted"}
    /\ final \in Content
    /\ lockBy \in Nodes \cup {NoOne} /\ lockOld \in BOOLEAN
    /\ op \in [Nodes -> [pc : AtRest \cup {"fetch", "open", "stat", "remove", "create"} \cup Owning,
                         data : Content]]
    /\ builder \in [pc : {"idle", "copy", "done", "crashed"}, n : 0..ChunkSize, named : BOOLEAN]
    /\ deleting \subseteq {"remote", "file", "lock"}
    /\ {clean, aged, partial, torn} \subseteq BOOLEAN

Init ==
    /\ file \in {"chunk", "blob", "size"} /\ length \in 1..ChunkSize
    /\ remote \in {"absent", "stored"}
    /\ final = NoFile /\ lockBy = NoOne /\ lockOld = FALSE
    /\ op = [w \in Nodes |-> [pc |-> "idle", data |-> NoFile]]
    /\ builder = [pc |-> "idle", n |-> 0, named |-> FALSE]
    /\ deleting = {} /\ clean = FALSE /\ aged = FALSE
    /\ partial = FALSE /\ torn = FALSE
-----------------------------------------------------------------------------
(***************************************************************************)
(* Operations that miss, and what they write back.                        *)
(***************************************************************************)
Smaller(a, b) == IF a < b THEN a ELSE b
Whole == <<0, length>>

\* What the cached file answers to a request of len units from offset from of the chunk:
\* both readers start at the beginning of the file.
CacheAnswer(from, len) == <<final[1], Smaller(len, final[2])>>
RemoteAnswer(from, len) == <<from, Smaller(len, length - from)>>

\* Mutant of Misses: an error of the remote storage is taken for an empty answer.
MissesAlways(w) == op[w].pc = "idle" /\ final = NoFile /\ remote # "absent"

Misses(w) == op[w].pc = "idle" /\ final = NoFile /\ remote = "stored"

Ends(w, pc) == op' = [op EXCEPT ![w] = [pc |-> pc, data |-> NoFile]]
WriteBack(w, data) == op' = [op EXCEPT ![w] = [pc |-> "stat", data |-> data]]

\* Mutant of IsCompleteRead: whatever was read is kept.
IsNonEmptyRead(n, expected, eof) == n > 0

IsCompleteRead(n, expected, eof) == n = expected \/ (n > 0 /\ eof)

\* The cache has no file: the remote storage is asked.
Asks(w, pc, from, len) == op' = [op EXCEPT ![w] = [pc |-> pc, data |-> <<from, len>>]]

\* ReadAt of a buffer of len units at the start of the chunk.
ReadAt(w, len) ==
    /\ file = "chunk" /\ Misses(w)
    /\ Asks(w, "fetch", 0, len)
    /\ partial' = (partial \/ len < length)
    /\ UNCHANGED <<file, length, remote, cacheVars, builder, deleting, clean, aged, torn>>

\* The remote storage returns n units.  Fewer than the buffer holds come with io.EOF or with
\* another error; the backends say io.EOF at the end of the object, and also when the answer
\* was cut off: they take io.ErrUnexpectedEOF for it.
ReadAtReturns(w, n, eof) ==
    LET len == op[w].data[2]  all == Smaller(len, length) IN
    /\ file = "chunk" /\ op[w].pc = "fetch"
    /\ n <= all /\ (eof => n < len)
    /\ IF IsCompleteRead(n, len, eof) THEN WriteBack(w, <<0, n>>) ELSE Ends(w, "done")
    /\ torn' = (torn \/ (eof /\ 0 < n /\ n < all))
    /\ UNCHANGED <<file, length, remote, cacheVars, builder, deleting, clean, aged, partial>>

\* OpenRangeReader: the remote storage sends from now on.
OpenRangeReader(w, from, len) ==
    /\ file = "chunk" /\ Misses(w) /\ from < length
    /\ Asks(w, "open", from, len)
    /\ partial' = (partial \/ from > 0 \/ len < length)
    /\ UNCHANGED <<file, length, remote, cacheVars, builder, deleting, clean, aged, torn>>

\* The reader is closed, at any time, after n units were read.
CloseReader(w, n) ==
    LET from == op[w].data[1]  len == op[w].data[2] IN
    /\ op[w].pc = "open" /\ n <= Smaller(len, length - from)
    /\ IF n > 0 /\ n = len THEN WriteBack(w, <<from, n>>) ELSE Ends(w, "done")
    /\ UNCHANGED <<file, length, remote, cacheVars, builder, deleting, clean, aged, partial, torn>>

\* WriteTo reads a blob as a whole.
WriteTo(w) ==
    /\ file = "blob" /\ Misses(w)
    /\ Asks(w, "fetch", 0, length)
    /\ UNCHANGED <<file, length, remote, cacheVars, builder, deleting, clean, aged, partial, torn>>

Size(w) ==
    /\ file = "size" /\ Misses(w)
    /\ Asks(w, "fetch", 0, length)
    /\ UNCHANGED <<file, length, remote, cacheVars, builder, deleting, clean, aged, partial, torn>>

\* The remote storage has sent the blob or the size, or fails.
Fetched(w) ==
    /\ file # "chunk" /\ op[w].pc = "fetch"
    /\ WriteBack(w, Whole) \/ Ends(w, "done")
    /\ UNCHANGED <<file, length, remote, cacheVars, builder, deleting, clean, aged, partial, torn>>

\* Put with the write-through flag: the cache is filled while the remote storage is.
Put(w) ==
    /\ file = "blob" /\ op[w].pc = "idle" /\ remote = "absent"
    /\ WriteBack(w, Whole)
    /\ UNCHANGED <<file, length, remote, cacheVars, builder, deleting, clean, aged, partial, torn>>

\* The end of StoreFile in the background: writeLocalSize, with the remote storage still
\* being written.
StoreSize(w) ==
    /\ file = "size" /\ op[w].pc = "idle" /\ remote = "absent"
    /\ WriteBack(w, Whole)
    /\ UNCHANGED <<file, length, remote, cacheVars, builder, deleting, clean, aged, partial, torn>>

\* inner.Put or inner.StoreFile succeeds.
RemoteStores ==
    /\ remote = "absent" /\ remote' = "stored"
    /\ UNCHANGED <<file, length, cacheVars, op, builder, deleting, clean, aged, partial, torn>>
-----------------------------------------------------------------------------
(***************************************************************************)
(* TryAcquireLock, the temporary file, ReleaseLock.                       *)
(***************************************************************************)
To(w, pc) == op' = [op EXCEPT ![w].pc = pc]

\* os.Stat of the lock file: none, or a fresh one, or a stale one.
Stat(w) ==
    /\ op[w].pc = "stat"
    /\ IF lockBy = NoOne THEN To(w, "create")
       ELSE IF lockOld THEN To(w, "remove") ELSE Ends(w, "done")
    /\ UNCHANGED <<file, length, remote, cacheVars, builder, deleting, clean, aged, partial, torn>>

\* os.Remove of whatever lock file is there by now.
RemoveStale(w) ==
    /\ op[w].pc = "remove"
    /\ To(w, "create") /\ lockBy' = NoOne /\ lockOld' = FALSE
    /\ UNCHANGED <<file, length, remote, final, builder, deleting, clean, aged, partial, torn>>

\* Mutant of Create: the file is opened without O_EXCL.
CreateOrOpen(w) ==
    /\ op[w].pc = "create"
    /\ To(w, "write") /\ lockBy' = w /\ lockOld' = FALSE
    /\ UNCHANGED <<file, length, remote, final, builder, deleting, clean, aged, partial, torn>>

\* OpenFile with O_EXCL, which fails also when the directory was deleted.
Create(w) ==
    /\ op[w].pc = "create"
    /\ \/ Ends(w, "done") /\ UNCHANGED <<lockBy, lockOld>>
       \/ lockBy = NoOne /\ To(w, "write") /\ lockBy' = w /\ lockOld' = FALSE
    /\ UNCHANGED <<file, length, remote, final, builder, deleting, clean, aged, partial, torn>>

\* Mutant of WriteTemp: the error return leaves the lock file.
WriteTempLocked(w) ==
    /\ op[w].pc = "write"
    /\ To(w, "link") \/ Ends(w, "done")
    /\ UNCHANGED <<file, length, remote, cacheVars, builder, deleting, clean, aged, partial, torn>>

\* The temporary file, under a name of its own; an error leads to the deferred release.  Of
\* a blob's, an error of its Close is noted and the file linked all the same, with what of
\* it reached the disk.
WriteTemp(w) ==
    /\ op[w].pc = "write"
    /\ \/ (To(w, "link") \/ To(w, "release")) /\ UNCHANGED torn
       \/ /\ file = "blob" /\ torn' = TRUE
          /\ \E n \in 0..length : op' = [op EXCEPT ![w] = [pc |-> "link", data |-> <<0, n>>]]
    /\ UNCHANGED <<file, length, remote, cacheVars, builder, deleting, clean, aged, partial>>

\* Mutant of RenameOrDelete: os.Rename instead of os.Link.
Rename(w) ==
    /\ op[w].pc = "link"
    /\ final' = op[w].data
    /\ To(w, "release")
    /\ UNCHANGED <<file, length, remote, lockBy, lockOld, builder, deleting, clean, aged, partial, torn>>

\* os.Link, which fails when the name exists, or the directory and the temporary file were
\* deleted; the temporary file is removed either way.
RenameOrDelete(w) ==
    /\ op[w].pc = "link"
    /\ \/ final = NoFile /\ final' = op[w].data
       \/ UNCHANGED final
    /\ To(w, "release")
    /\ UNCHANGED <<file, length, remote, lockBy, lockOld, builder, deleting, clean, aged, partial, torn>>

\* ReleaseLock removes the lock file by its name, whoever made it.
ReleaseLock(w) ==
    /\ op[w].pc = "release"
    /\ Ends(w, "done") /\ lockBy' = NoOne /\ lockOld' = FALSE
    /\ UNCHANGED <<file, length, remote, final, builder, deleting, clean, aged, partial, torn>>

\* The machine dies: a lock file and a temporary file stay.
Crash(w) ==
    /\ op[w].pc \notin AtRest
    /\ Ends(w, IF op[w].pc \in Owning THEN "crashed" ELSE "done")
    /\ UNCHANGED <<file, length, remote, cacheVars, builder, deleting, clean, aged, partial, torn>>

LockAges ==
    /\ lockBy # NoOne /\ ~lockOld
    /\ lockOld' = TRUE
    /\ aged' = TRUE
    /\ UNCHANGED <<file, length, remote, final, lockBy, op, builder, deleting, clean, partial, torn>>
-----------------------------------------------------------------------------
(***************************************************************************)
(* StoreFile with the write-through flag, and deletion.                   *)
(***************************************************************************)
\* writeChunkFromFile opens the chunk with O_CREATE and O_TRUNC: no lock, no other name.
BuilderOpens ==
    /\ file = "chunk" /\ builder.pc = "idle"
    /\ builder' = [pc |-> "copy", n |-> 0, named |-> TRUE]
    /\ final' = <<0, 0>>
    /\ UNCHANGED <<file, length, remote, lockBy, lockOld, op, deleting, clean, aged, partial, torn>>

BuilderCopies ==
    /\ builder.pc = "copy"
    /\ builder' = [pc |-> IF builder.n + 1 = length THEN "done" ELSE "copy",
                   n |-> builder.n + 1, named |-> builder.named]
    /\ final' = IF builder.named THEN <<0, builder.n + 1>> ELSE final
    /\ UNCHANGED <<file, length, remote, lockBy, lockOld, op, deleting, clean, aged, partial, torn>>

\* io.CopyN fails: the chunk is removed by its name.
BuilderFails ==
    /\ builder.pc = "copy"
    /\ builder' = [builder EXCEPT !.pc = "done", !.named = FALSE]
    /\ final' = NoFile
    /\ UNCHANGED <<file, length, remote, lockBy, lockOld, op, deleting, clean, aged, partial, torn>>

BuilderCrashes ==
    /\ builder.pc = "copy"
    /\ builder' = [builder EXCEPT !.pc = "crashed"]
    /\ UNCHANGED <<file, length, remote, cacheVars, op, deleting, clean, aged, partial, torn>>

\* DeleteObjectsWithPrefix: the remote storage and, in the background, the cache.
DeleteObjects ==
    /\ remote = "stored" /\ deleting = {}
    /\ deleting' = {"remote", "file", "lock"}
    /\ UNCHANGED <<file, length, remote, cacheVars, op, builder, clean, aged, partial, torn>>

DeleteRemote ==
    /\ "remote" \in deleting /\ deleting' = deleting \ {"remote"}
    /\ remote' = "deleted"
    /\ UNCHANGED <<file, length, cacheVars, op, builder, clean, aged, partial, torn>>

DeleteFile ==
    /\ "file" \in deleting /\ deleting' = deleting \ {"file"}
    /\ final' = NoFile /\ builder' = [builder EXCEPT !.named = FALSE]
    /\ clean' = (remote = "deleted" /\ \A w \in Nodes : op[w].pc \in AtRest)
    /\ UNCHANGED <<file, length, remote, lockBy, lockOld, op, aged, partial, torn>>

DeleteLock ==
    /\ "lock" \in deleting /\ deleting' = deleting \ {"lock"}
    /\ lockBy' = NoOne /\ lockOld' = FALSE
    /\ aged' = TRUE
    /\ UNCHANGED <<file, length, remote, final, op, builder, clean, partial, torn>>
-----------------------------------------------------------------------------
Start(w) ==
    \/ \E len \in 1..ChunkSize : ReadAt(w, len)
    \/ \E from \in 0..ChunkSize - 1, len \in 1..ChunkSize : OpenRangeReader(w, from, len)
    \/ WriteTo(w) \/ Size(w) \/ Put(w) \/ StoreSize(w)

Return(w) ==
    \/ \E n \in 0..ChunkSize : CloseReader(w, n) \/ \E eof \in BOOLEAN : ReadAtReturns(w, n, eof)
    \/ Fetched(w)

Step(w) == Stat(w) \/ RemoveStale(w) \/ Create(w) \/ WriteTemp(w) \/ RenameOrDelete(w)
           \/ ReleaseLock(w)

Builder == BuilderOpens \/ BuilderCopies \/ BuilderFails \/ BuilderCrashes
Delete == DeleteObjects \/ DeleteRemote \/ DeleteFile \/ DeleteLock

Next ==
    \/ \E w \in Nodes : Start(w) \/ Return(w) \/ Step(w) \/ Crash(w)
    \/ LockAges \/ RemoteStores \/ Builder \/ Delete

Spec == Init /\ [][Next]_vars
-----------------------------------------------------------------------------
\* A hit at the start of a chunk is what the remote storage holds there, however many
\* believe to have the lock, fail, crash, get a short answer with an error or are overtaken.
\* The code leaves four ways to a wrong one: a request for less than the chunk holds, whose
\* answer is taken for a whole chunk (storage_cache.go:155); an answer cut off that passes
\* for the end of the object (storage_google.go:291, storage_aws.go:257); a blob linked after
\* its Close failed (lock/atomic_file.go:71); StoreFile, which writes in place, under way or
\* dead (storage_cache_seekable.go:526).
HitsAreRight ==
    final # NoFile /\ ~partial /\ ~torn /\ builder.pc \notin {"copy", "crashed"} =>
        \A len \in 1..ChunkSize : CacheAnswer(0, len) = RemoteAnswer(0, len)

\* Two operations own the lock only after some lock got old, its owner being slow or
\* dead, or was deleted with its directory (lock/file_lock.go:47-49).  One dead owner is
\* enough for two: both find the old lock, and the second removes the first one's new one.
SoleOwner ==
    ~aged => Cardinality({w \in Nodes : op[w].pc \in Owning}) <= 1

\* A lock file left behind is that of an operation at work or of a machine that died: no
\* error return keeps one (lock/atomic_file.go:67, storage_cache_seekable.go:400).
LockLeftMeansCrash ==
    lockBy # NoOne => op[lockBy].pc \in Owning \cup {"crashed"}

\* The link never replaces a file, whoever holds the lock (utils/move.go:29): what is
\* under the final name changes only by StoreFile or a deletion.
NeverReplaced ==
    [][UNCHANGED builder /\ final # NoFile => final' \in {final, NoFile}]_vars

\* What was deleted stays deleted when the cached file went last, with no read under way, no
\* reader open and nothing being written back.  Otherwise it can come back:
\* storage_cache.go:77 deletes the cache in the background, neither after the remote object
\* nor with the lock, and a reader writes back when it is closed
\* (storage_cache_seekable.go:202).
DeletedStaysGone == clean => final = NoFile \/ builder.named
=============================================================================
