------------------------------ MODULE Multipart ------------------------------
(***************************************************************************)
(* The parallel multipart upload of a file                                *)
(* (packages/shared/pkg/storage/gcp_multipart.go): UploadFileInParallel,  *)
(* the goroutines of uploadParts, and the storage service.                *)
(*                                                                         *)
(* A part's content and its ETag are its number.  External: errgroup, of  *)
(* which the first error cancels the context; the retrying HTTP client,   *)
(* whose requests may be carried out more than once and fail all the      *)
(* same; the service, which makes an object of the parts that a           *)
(* completion lists and then forgets the upload.                          *)
(***************************************************************************)
EXTENDS Integers, FiniteSets, Sequences

CONSTANTS
    NumParts,           \* parts of the file, at least 1
    MaxConcurrency      \* the group's limit

ASSUME PartsAssumption == NumParts \in Nat \ {0} /\ MaxConcurrency \in Nat \ {0}

Parts == 1..NumParts

VARIABLES
    upload,         \* where UploadFileInParallel is
    spawned,        \* parts whose goroutine was started
    worker,         \* where the goroutine of each part is
    cancelled,      \* the group's context, or the caller's, is cancelled
    failed,         \* the group has an error
    parts,          \* the slice of results; 0 is the zero Part
    onServer,       \* parts the service has
    serverUpload,   \* the service knows the upload
    object          \* the object: <<>> is none

uploadVars == <<upload, spawned, worker, cancelled, failed, parts, onServer, serverUpload,
                object>>

Running == {"start", "read", "send", "store"}
WholeFile == [i \in Parts |-> i]

MultipartTypeOK ==
    /\ upload \in {"initiate", "spawn", "wait", "complete", "ok", "error"}
    /\ spawned \in 0..NumParts /\ worker \in [Parts -> Running \cup {"none", "done"}]
    /\ {cancelled, failed, serverUpload} \subseteq BOOLEAN
    /\ parts \in [Parts -> 0..NumParts] /\ onServer \subseteq Parts
    /\ object = <<>> \/ object \in [Parts -> 0..NumParts]

MultipartInit ==
    /\ upload = "initiate" /\ spawned = 0 /\ worker = [p \in Parts |-> "none"]
    /\ cancelled = FALSE /\ failed = FALSE /\ parts = [p \in Parts |-> 0]
    /\ onServer = {} /\ serverUpload = FALSE /\ object = <<>>
-----------------------------------------------------------------------------
\* initiateUpload, whose answer may not arrive.
InitiateUpload ==
    /\ upload = "initiate" /\ upload' \in {"spawn", "error"}
    /\ serverUpload' \in {TRUE} \cup {u \in {FALSE} : upload' = "error"}
    /\ UNCHANGED <<spawned, worker, cancelled, failed, parts, onServer, object>>

AtWork == {p \in Parts : worker[p] \in Running}

\* g.Go waits until fewer than MaxConcurrency goroutines run; an error does not stop the loop.
Spawn ==
    /\ upload = "spawn" /\ spawned < NumParts /\ Cardinality(AtWork) < MaxConcurrency
    /\ spawned' = spawned + 1 /\ worker' = [worker EXCEPT ![spawned + 1] = "start"]
    /\ UNCHANGED <<upload, cancelled, failed, parts, onServer, serverUpload, object>>

LoopDone ==
    /\ upload = "spawn" /\ spawned = NumParts /\ upload' = "wait"
    /\ UNCHANGED <<spawned, worker, cancelled, failed, parts, onServer, serverUpload, object>>

\* The goroutine returns an error: it failed to read, all its requests failed, or it found
\* the context cancelled.
WorkerFails(p) ==
    /\ worker[p] \in {"start", "read", "send"}
    /\ worker' = [worker EXCEPT ![p] = "done"]
    /\ failed' = TRUE /\ cancelled' = TRUE
    /\ UNCHANGED <<upload, spawned, parts, onServer, serverUpload, object>>

\* select on ctx.Done, then ReadAt.
WorkerStarts(p) ==
    /\ worker[p] = "start" /\ ~cancelled
    /\ worker' = [worker EXCEPT ![p] = "read"]
    /\ UNCHANGED <<upload, spawned, cancelled, failed, parts, onServer, serverUpload, object>>

\* uploadPart: a request that is carried out; the answer may be lost and the request
\* repeated.
UploadPart(p) ==
    /\ worker[p] \in {"read", "send"} /\ serverUpload
    /\ onServer' = onServer \cup {p}
    /\ worker' \in {[worker EXCEPT ![p] = "send"], [worker EXCEPT ![p] = "store"]}
    /\ UNCHANGED <<upload, spawned, cancelled, failed, parts, serverUpload, object>>

\* Mutant of StorePart: the goroutine uses the loop's variable.
StorePartOfLoop(p) ==
    /\ worker[p] = "store"
    /\ parts' = [parts EXCEPT ![spawned] = p]
    /\ worker' = [worker EXCEPT ![p] = "done"]
    /\ UNCHANGED <<upload, spawned, cancelled, failed, onServer, serverUpload, object>>

\* Under partsMu: the result in its place.
StorePart(p) ==
    /\ worker[p] = "store"
    /\ parts' = [parts EXCEPT ![p] = p]
    /\ worker' = [worker EXCEPT ![p] = "done"]
    /\ UNCHANGED <<upload, spawned, cancelled, failed, onServer, serverUpload, object>>

\* g.Wait: all goroutines have returned; the context is cancelled in any case.
GroupWait ==
    /\ upload = "wait" /\ AtWork = {}
    /\ upload' = IF failed THEN "error" ELSE "complete"
    /\ cancelled' = TRUE
    /\ UNCHANGED <<spawned, worker, failed, parts, onServer, serverUpload, object>>

\* The caller's context ends.
CallerCancels ==
    /\ upload = "spawn" /\ ~cancelled /\ cancelled' = TRUE
    /\ UNCHANGED <<upload, spawned, worker, failed, parts, onServer, serverUpload, object>>

\* completeUpload is carried out: the service takes the listed parts, all of which it must
\* have.  A lost answer leads to a repetition or an error.
CompleteUpload ==
    /\ upload = "complete" /\ serverUpload
    /\ \A p \in Parts : parts[p] \in onServer
    /\ object' = parts /\ serverUpload' = FALSE
    /\ upload' \in {"ok", "complete"}
    /\ UNCHANGED <<spawned, worker, cancelled, failed, parts, onServer>>

\* It fails, or its repetition does not find the upload any more.
CompleteFails ==
    /\ upload = "complete" /\ upload' = "error"
    /\ UNCHANGED <<spawned, worker, cancelled, failed, parts, onServer, serverUpload, object>>
-----------------------------------------------------------------------------
MultipartNext ==
    \/ InitiateUpload \/ Spawn \/ LoopDone \/ GroupWait \/ CallerCancels
    \/ CompleteUpload \/ CompleteFails
    \/ \E p \in Parts : WorkerFails(p) \/ WorkerStarts(p) \/ UploadPart(p) \/ StorePart(p)
-----------------------------------------------------------------------------
\* In whatever order the goroutines end, fail or are cancelled, and whatever requests are
\* repeated: the object is the whole file in order or is not there, it is there when the
\* upload reports success, and a completion is only asked for when every part is on the
\* server (gcp_multipart.go:275-368).
ObjectWhole ==
    /\ object \in {<<>>, WholeFile}
    /\ upload = "ok" => object = WholeFile
    /\ upload = "complete" => onServer = Parts /\ parts = WholeFile
=============================================================================
