# A TLA+ model of Aether Agent

Aether Agent is the daemon inside a sandbox VM: it runs processes and streams
their output over ConnectRPC, serves files, mounts a FUSE overlay, keeps an
egress firewall and holds a reverse tunnel to its backend.  The repository also
holds the library that the programs of its family share.  This directory models
the concurrent core of both.  TLC checks the models on small instances; TLAPS
proves the main safety properties for every instance.  The source is the
reference: each definition was written from the lines that `PROJECT.json`
(`map`) names.

## 1. The system

| Component | State | Operations | Talks to |
|---|---|---|---|
| multiplexed channel (`process/handler/multiplex.go`) | `Source`, slice `channels`, `mu`, `exited`, one fan-out goroutine | send, close, `Fork`, `remove` | two per handler: `DataEvent` (buffered) and `EndEvent` (unbuffered) |
| handler (`process/handler/handler.go`) | command, pipes or pty, `outCtx`, stdin lock | `New`, `Start`, `Wait`, `SendSignal`, `WriteStdin`, `CloseStdin`, `WriteTty`, `ResizeTty` | its channels, the kernel |
| process service (`process/*.go`) | map `processes`: pid to handler | `Start`, `Connect`, `SendSignal`, `SendInput`, `StreamInput`, `CloseStdin`, `Update`, `List` | handlers, client streams |
| manifest store (`manifest/manifest.go`) | current manifest, indexes, callbacks | `Update`, `Current`, `IsPathAllowed`, `IsNetworkAllowed` | firewall callback, overlay |
| egress firewall (`network/firewall.go`) | the kernel's chain `AETHER_EGRESS` | `Setup`, `Apply`, `Teardown` (never called) | `iptables`, one process per rule |
| FUSE overlay (`fuse/fuse.go`) | virtual files, store reference | `Put`, `PutLazy`, `Fill`, `Remove`, `Lookup`, `Readdir` | manifest store |
| tunnel (`tunnel/tunnel.go`) | one websocket, write mutex | reconnect loop, heartbeat, one goroutine per request | the agent's own HTTP server |
| filesystem service (`filesystem/*.go`) | map of watchers with event buffers | file calls, `WatchDir`, `CreateWatcher`, `GetWatcherEvents`, `RemoveWatcher` | fsnotify |
| boot (`main.go`) | order of the above | boot, `/exec`, `/shimmer/manifest` | all |
| storage (`packages/shared/pkg/storage`) | cached files with lock and temporary files on a shared file system; headers of layered files; multipart uploads | reads with write-back, `StoreFile`, deletion; diff to header; `UploadFileInParallel` | object storage, other machines |
| caches (`pkg/cache`) | one redis entry and a distributed lock per key; a map in memory | `GetOrSet` with single flight and refresh, `Set`, `Delete`, `DeleteByPrefix` | the data behind them |
| sandbox catalog (`pkg/sandbox-catalog`) | redis and a short-lived local cache per instance | `GetSandbox`, `StoreSandbox`, `DeleteSandbox` | redis |
| limits (`pkg/utils`, `pkg/connlimit`) | semaphore with adjustable limit; connection counters | `Acquire`, `Release`, `SetLimit`; `TryAcquire`, `Release`, `Remove` | their callers |
| proxy pool (`pkg/proxy`) | clients by key, their tracked connections | `Get`, dial, `Close` | `http.Transport` |

What makes it hard: every request is a goroutine, and every process adds two to
three readers, a collector, two fan-outs and a waiter; a client may go away at
any point; the operating system may reuse a pid; signals and a timeout cut
output off while it is being delivered; iptables rules are installed one
command at a time, with no lock, by concurrent requests; the kernel's chain
outlives the agent.

What makes each part correct:

* channel: every consumer gets an unbroken, ordered run of the values; closing
  loses nothing and crashes nothing; nobody blocks the others for ever;
* handler and streams: `StartEvent`, all data, `EndEvent`, in that order, for
  every client that stays; every exited process is reaped;
* table: what runs is listed, what is gone is not, what exits is reaped;
* policy: the kernel lets out what the manifest of the store names and no more, is
  closed when the agent begins to serve, and always lets the agent reach its backend;
* overlay: nothing is shown that the manifest in force denies, what it allows
  can be reached, and a listing of the root agrees with the lookups of its names;
* watchers: every event is handed over once and in order, and nothing outlives
  its removal;
* input: messages reach the process whole and in order, and a call returns
  unless the process stops reading;
* tunnel: one writer at a time, a successful answer means that the request was carried
  out before any that was pushed after it, a broken connection is let go;
* storage: a hit is what the object storage holds, a crash or an error leaves
  nothing torn under a final name, a header finds every block, an object is
  whole or absent;
* caches, catalog, limits, pool: old values do not outlive their deletion where
  a lock promises it, and never stay for good; nobody sleeps on free room; counters count;
  a closed key is closed.

`PROJECT.json` lists every component, also those not modelled, and the hazards
at the lines where they bite.

## 2. The modules

| Module | Models | Run with |
|---|---|---|
| `Multiplex` | one `MultiplexedChannel` | `MCMultiplex` |
| `MultiplexProofs` | its theorems | tlapm |
| `ProcessStream` | one handler, its process, a Start stream and Connect streams; composes two instances of `Multiplex`, `Data` and `End` | `MCProcessStream` |
| `ProcessStreamProofs` | the composition implements both instances, and the theorems about streams that follow from theirs | tlapm |
| `ProcessTable` | the service-wide table, launches, lookups, signals | `MCProcessTable` |
| `ProcessTableProofs` | its theorems | tlapm |
| `Egress` | manifest store, firewall, boot, crash and restart | `MCEgress` |
| `EgressProofs` | its theorems | tlapm |
| `Overlay` | FUSE lookups and listings under a changing manifest, the glob matcher | `MCOverlay` |
| `OverlayProofs` | its theorems | tlapm |
| `Watchers` | watcher table, event buffers, polls, removals, `WatchDir` streams | `MCWatchers` |
| `WatchersProofs` | its theorems | tlapm |
| `Input` | `SendInput`, `StreamInput`, `CloseStdin` on the handlers' stdin lock, pipe and pty | `MCTunnel` |
| `Tunnel` | the reverse tunnel; extends `Input`, whose `SendInput` calls are its requests | `MCTunnel` |
| `TunnelProofs` | the theorems of `Input` and `Tunnel` | tlapm |
| `ChunkCache` | one cached file of the storage cache, with lock files, crashes, deletion | `MCStorage` |
| `Header` | the layered header: diff builder, merge, normalisation, lookup | `MCShared` |
| `LayeredFile` | what a header promises its readers: a file that each snapshot changes in one step | `MCShared`, through `Header` |
| `Multipart` | the parallel multipart upload | `MCStorage` |
| `RedisCache`, `MemoryCache` | the two caches, one entry each | `MCShared` |
| `Catalog` | where one sandbox runs | `MCShared` |
| `Semaphore` | the adjustable semaphore | `MCShared`, `MCSemaphore` |
| `ConnLimiter` | the connection counter of one sandbox | `MCShared` |
| `ProxyPool` | the proxy clients of one key | `MCShared` |
| `SharedProofs` | the theorems of `ChunkCache`, `Header`, `Multipart`, `RedisCache`, `Catalog`, `Semaphore`, `ConnLimiter`, `ProxyPool` | tlapm |

**Multiplex.**  The n-th value sent is the number n; a Go channel is FIFO, so
the buffer of `Source` is always `taken+1 .. sent`.  The slice `channels` is
kept as its backing array and length, because `append` writes in place while
there is capacity and `remove` shifts in place: the closing loop
(`multiplex.go:34`), which takes no lock, ranges over an array that Fork and
remove may be rewriting.  Its evaluation of the slice header is two loads in
either order (`LoadLen`, `LoadArray`), the outcomes a data race can have here.
`close` of a closed or nil channel sets `panicked` and stops the system.  `mu`
is implicit: its read section is `pc = "send"`, its write sections are single
steps.  `from`, `received` and `overlap` are history variables.

**ProcessStream.**  Both goroutines of a stream are one control variable `cl`:
the RPC handler only waits for the sending goroutine or for the context.  The
part of `handleStart` that starts the process is `main`.  `pipe`, `rd`,
`pipesShut` are the pipes and their readers; a reader sees the end of its pipe only
when nobody has the writing end any more, neither the process nor a `child` it left
in the background, which may write on, never exit and is out of reach of the
signals; `outDone` is `outCtx`; `waiter` is
the goroutine of `Wait`; `tracked` the table entry.  A pty command runs before
the first fork (`Init`), a piped one from `StartProc` on.  `ClientLeave` stands for
a cancelled request, a failed send and a failed keepalive.  The start
multiplexer carries one value that `handleStart` puts directly on the consumer
channel (`start.go:214`), so it is a rendezvous: `SendStart`.

**ProcessTable.**  A handler goes `none, new, started, stored, served`; its pid
comes from the kernel, which may hand out the pid of any reaped process again.
`TagAnswers` gives every answer that Range can produce in some order of the
map.  `client = "none"` is `InitializeStartProcess`, which has no caller in the
program but is part of the service.  The output of a process ends in one step
(`OutputEnds`), unless something holds it (`Hold`): a child with the pipe, or a
wedged data fan-out in front of the readers.

**Egress.**  The store compares a host and a port with the manifest's patterns as
strings (`Allowed`); the kernel compares an address and a port with rules.
`AddressRules` is the conversion between the two, `splitHostPort` and `resolveHost`:
one rule for each address that DNS gives for the host (`Addrs`), with the pattern's
port or with none.  `Script(m)` is the list of parts of an Apply, a part being a
command or the rules of one entry; a push runs one command at a time, and any may
fail, which Apply tolerates for a manifest entry and for the tunnel and otherwise
answers by returning; so may a lookup.  `Crash` drops the store and every Apply
under way and keeps the kernel's chain.  `Dropped(k)` is netfilter's walk of the
chain for a packet.  The two sides do not decide the same: a pattern without a port
opens every port, for which `IsNetworkAllowed` says no, and a host that shares an
address with a listed one passes.  `ExactAtRest` therefore says what the kernel lets out
in terms of the entries (`Names`) and that this includes all that the store allows.
`failed`, `recent` and `overlap` are history.

**Overlay.**  A path and a pattern are sequences of segments.  A request of a
walker (a process that uses the mount) goes through `policy` (`HasManifest`),
then for each name `match` (`IsPathAllowed`) and `prefix` (`Current`): three
reads of the store under three locks, between which `Update` can come.  The root
asks for the store at each request, a directory has the one its own lookup found
(`node`).  Only the root has a `LoopbackNode` that was set up (`fuse.go:142`, `233` build the
others zero): a directory checks the policy of a lookup, and then that lookup, or any
listing, dereferences nil and ends the agent (`NilPointer`, `crashed`).  Listings are
therefore those of the root.  Of virtual files only the names matter.  `Overlay.store` is attached
after the mount has begun to serve (`main.go:88`, `103`), so that directories
entered before never enforce: `PermitsAreTrue` excepts exactly these.
`verdict`, `seen` and `dirty` are history.  Reading the matcher showed limits
that the properties name: a `**` before the end of a pattern is one segment; a
trailing wildcard makes everything before it literal; the parents below an
inner wildcard (`/a/*/b`) are not traversable.  `Supported` and `Plain` are the
patterns outside these limits.

**Watchers.**  The operations of a watcher are numbered as they happen, so that
`NothingLost` is one equation: what was returned, what is buffered, what the
goroutine holds and what fsnotify queues make up `1 .. happened`.  A poll is three
steps (load, unlocked check of `Error`, exchange of the buffer), a removal four
(load, close, cancel, delete).  Streams are the same loop with `stream.Send` in
place of the buffer and a deferred close.

**Input.**  A message is a caller and a number and goes into the pipe in `Parts`
pieces.  `WriteStdin` checks, takes `stdinMu`, writes piece by piece and gives it
back on both returns; `WriteTty` has no mutex, but `os.File` lets one write at a
time through (`fd`, external).  `Wait` closes the pipe without the mutex.  After the
write `handleInput` logs the operation ID (`input.go:32`), which only the contexts of streams
have (`logs.go:22-29`): a unary `SendInput` to stdin panics once its input is written (`Resumed`),
net/http drops the connection, and through the tunnel the answer is 502.  A unary call
succeeds for a pty.
`written` is what the process gets to read.

**Tunnel.**  A connection's `run` is `link`, its heartbeat `hb`, its write mutex
`connMu`, each request's goroutine `task`; the ready message is written without
the mutex, everything later with it (`writing`).  The backend (external) pushes
in any order and pushes what was not answered again on a later connection.  A request is
`granted` when its success reaches the backend; a 502 does not say that the input was not
taken.
`granted` and `after` are history.

**ChunkCache.**  Content is an interval of the chunk's units.  A node is one
operation on a machine: miss, remote read, lock file, temporary file, link,
removal of the lock, with an error return at each step and a crash between any
two.  A `ReadAt` asks the remote storage and is answered later, whole, short with an
error, or cut off with an `io.EOF` that both backends make of a body that ended too
soon (`storage_google.go:291`, `storage_aws.go:257`); a range reader is opened, read so far
and closed at any later time, and its `Close` starts the write-back.  A blob's temporary
file is linked even if its `Close` failed (`atomic_file.go:71`).  `partial` and `torn`
remember the ways in which something other than the whole content can come under the
final name, and `HitsAreRight` excepts these and the writer in place.  `LockAges` makes a
lock older than its TTL.  `Builder` is `StoreFile`, which writes chunks in place.

**Header.**  `Process` marks blocks, `CreateMapping` turns them into build maps,
each case of the loop of `MergeMappings` is an action and `MappingOf` is the lookup.
A write that fails leaves its block marked and ends the build (`ProcessFails`).
`CreateMapping` and `NormalizeMappings` are recursive functions over the steps of
their loops (`AddBlock`, `JoinNext`).  `objects` and `latest` say what each build's
object holds and who wrote a block last: the reference that a header is checked
against.  `ReadsAreLayered` says that the file read through the header (`ReadBlock`)
is a `LayeredFile`, under the mapping that `Shown` names: blocks are written and
cleared for the next snapshot one by one, and readers see none of it until the
snapshot shows them all.

**Multipart.**  `UploadFileInParallel` and one goroutine per part under the
group's limit; the service (external) may carry out a request and still fail it.

**RedisCache, MemoryCache, Catalog.**  A value is the version of the data it was
read from, so that stale is less than current.  A call is one control record per
step that another can come between: lock, read, store, unlock for redis; read,
store in memory, where nothing is locked; `GET`, `DEL`, local cache in the
catalog.  `staleBy`, `victims` and `overtook` are history.

**Semaphore, ConnLimiter, ProxyPool.**  The semaphore's mutex makes every step
atomic but one: `entering`, between the look at the context and the wait.  The
limiter loads and swaps a counter looked up anew by each call; the limit is read for
each request (`maxLimit`), so that it can be below what is open.  The pool's
`Close` holds the shard lock of the map; dials and closes do not.

**MC modules.**  Parts that share no state are explored apart in one run: the
variable `part` of `MCStorage` and `MCShared` says which one moves, the others stay
in an initial state.  `MCTunnel` has three scenes: one stream with a `CloseStdin`
(`OneStream`), two streams whose messages of two pieces meet at one process
(`TwoStreams`), or tunnelled requests for one process that goes on running
(`Tunnelled`).  In `MCStorage` no further operation begins once something other than a whole
chunk may be cached (`Settles`): from there on `HitsAreRight` says nothing, and the
locks and links do not look at contents.

## 3. The runs

| Run | Result | What it shows |
|---|---|---|
| `multiplex` | holds | order, completeness, where a panic can come from, that closing reaches everyone unless named otherwise |
| `process_stream` | holds | EndEvent last, uncut output complete, knots are final, everything else settles |
| `stream_leave` | violated | a client that leaves while a fan-out sends to it takes the Start stream's EndEvent with it (`multiplex.go:26`, `63`) |
| `process_table` | holds | listing, no ghost entries, reaping of what exits and whose output ends |
| `egress` | holds | a lone push opens exactly what its entries name, and with it all that the store allows; overlapping pushes end closed |
| `egress_tunnel` | violated | overlapping pushes can block the exemptions behind a DROP (`firewall.go:45-62`) |
| `overlay` | holds | what passes was permitted at that time, listings of the root agree with lookups, the matcher computes what patterns denote |
| `watchers` | holds | no event lost, repeated or reordered; the goroutine of a removed watcher ends |
| `tunnel_input` | holds | messages of two writers whole, streams without gap, one websocket writer, what a successful answer means, calls return, requests are answered, broken connections are let go |
| `storage` | holds | hits agree with the remote storage but for four named ways, one lock owner unless a lock aged, no lock left by an error, a link replaces nothing, deletions last when the cache went last with no reader open, objects whole or absent |
| `shared_state` | holds | every block resolves through all layers and readers see a layer all at once; which stores a locked Delete does not prevent, both caches converge, a late catalog delete, no sleeper beside free room, counters, a closed key |
| `semaphore_cancel` | violated | a cancelled `Acquire` misses its only broadcast and sleeps on (`resizable_semaphore.go:43`) |

The exceptions named in `Drains`, `Settles`, `Reaps` and `ListedUnlessReused`
are the behaviours of the code that keep the unconditional statement from
holding; each is reachable.  They are: a send to a departed consumer (`Wedged`),
a child that has the pipes (`child`, `held`), a Connect between its two forks, the Start stream and two fan-outs waiting in a
circle (`Entangled`, `connect.go:30-33`), a slice written during the closing
loop (`overlap`), a stream that attached after the EndEvent or after the closing
loop (`TooLate`), a client gone before its StartEvent (`Abandoned`), and a pid
reused before the late delete.

**What else the code does.**  Seen while modelling, and stated here because a
property excepts it or is false without it:

* pty output before the first fork reaches nobody, although the comment at
  `handler.go:198` has it buffered (`PtyOutputPassed` of `ProcessStream` is false);
* lookup by tag stops at the first handler with another tag (`service.go:72`;
  `NotFoundMeansNone` of `ProcessTable` is false);
* a push between the two reads of one decision refuses a path that both manifests
  permit (`fuse.go:280`, `287`; `DenialsAreTrue` of `Overlay` is false);
* tunnel requests pushed without waiting run in any order; a retried request is
  carried out again, and its first copy may run after later requests;
* after one dead owner two may own a lock file: both find it old, and the second
  removes the first one's new lock (`file_lock.go:47-50`).  `HitsAreRight` and
  `NeverReplaced` hold all the same, because the commit is a link;
* a read with a buffer shorter than the chunk is cached as the whole chunk
  (`storage_cache.go:154`), and so is an answer cut off that both backends report as
  `io.EOF`; a blob whose `Close` failed is linked; range readers do not check alignment, a
  writer may cache what the remote then failed to store, and a crash of `StoreFile`
  leaves a torn file under its final name;
* a reader that was open at a deletion brings the cached file back when it is closed
  (`storage_cache_seekable.go:202`);
* `IsNetworkAllowed` and the kernel differ on patterns without a port and on hosts that
  share an address;
* a lookup that passes the policy below a top-level directory of the mount, or a listing there,
  ends the agent (`fuse.go:227`, `244`);
* a unary `SendInput` to stdin panics after its write, and a client that takes the 502
  for a failure and repeats it writes twice;
* a child that keeps the output pipe keeps its parent from being reaped and its streams from
  their EndEvent;
* in redis a stale value can be stored by `Set`, by a fetch under another key and
  by an owner that outlived its lock; in memory by any race, and without a refresh
  interval an entry that is read often enough stays stale;
* a catalog `DEL` may remove an execution stored since its `GET`;
* `ProxyPool.Close` misses dials under way; `ConnLimiter.Remove` with open
  connections makes later releases count down the next counter;
* a failed multipart upload is never aborted, and a repeated completion may report
  an error for an object that exists;
* the diff builder is right only for blocks handed over in ascending order.

**Bounds.**  `multiplex`: three consumers are the fewest for which a removal
shifts one consumer past the loop index of another and the backing array grows
twice; two values and a buffer of one give a full buffer and a close behind a
buffered value.  `process_stream`: two clients, one pipe, one chunk; both knots
need no more, and a second pipe or chunk exceeds five minutes; one child.  The
real buffer of 64 only delays the same states.  `process_table`: two handlers
with two pids share or do not share a pid; two tags and one without are all that
the callback of Range tells apart.  `egress`: two pushes, one crash, a host with two
addresses, one that shares the second, the tunnel's and one that does not resolve;
patterns with and without a port.  `overlay`: one walker, since walkers share
nothing but the store; a tree of depth three is one level deeper than a walker can
get, and has a directory that is the parent of an allowed path and itself below a wildcard; two pushes put a change on either
side of each read; the manifests hold every kind of pattern.  `watchers`: two
polls and two removals of one watcher, three operations in events of one or two;
a behaviour has a watcher or a stream, which share nothing.  `tunnel_input`: a
process with a pipe and one with a pty, messages of two pieces on a pipe that
holds one, so that writers block inside a message with another writer at the door; a
stream of two messages; two connections and three requests, one repeated on the second connection, one only
there, one malformed.  `storage`: three nodes are the fewest for two that race to
remove a third one's old lock; a chunk of two units has short and whole contents;
three parts for two goroutines leave one waiting for a slot.
`shared_state`: four blocks and two layers let a layer's run cover, split, touch and
miss those below; two calls on one redis entry and two versions, enough for a store
of the old one on either side of a delete; two refreshes and a `Set` in memory;
two instances and three executions; a caller that needs the whole of a limit of
two while smaller ones pass; three connections that come with a limit of one, of two or
with none, two counters;
three connections through two clients.  Deadlock is not
checked: clients, processes and pushes may simply stop coming, and a nil pointer ends the
overlay.  Symmetry is used only where no liveness is checked: the pushes of
`egress` and the nodes of `storage`.

**Fairness.**  Weak fairness for every goroutine of the agent: the Go scheduler
runs whatever can run, and a goroutine that waits in a channel operation or a
lock proceeds when its partner is there.  A process that has been sent SIGKILL
exits.  Nothing else is fair: no process or child has to read, write or exit, no client to
come, stay or leave, no holder to release.  Two cases say more.  In `Tunnel` the
sending of a response is strongly fair: it waits for a `sync.Mutex` that the
heartbeat also takes, and the starvation mode of `sync.Mutex` hands it over to who waits
longest.  In the caches time passes: a redis entry that nobody stores again
expires (`RedisFairness`), and an entry in memory expires or is hit after its
refresh became due (`MemFairness`, for caches with a `RefreshInterval`).

## 4. The proofs

The provers cover every value of the constants.

* `MultiplexProofs`: `IInv` adds to the type invariant that the slice holds
  exactly the consumers that are reading, drained or leaving, each once
  (`Membership`), that a consumer not yet added has received nothing (`Fresh`),
  what each control point of the fan-out says about the counters
  (`FanControl`), and what the closing loop has closed so far while nobody
  wrote the slice (`CloseLoop`).  `Lockstep` alone is not inductive: a removal
  shifts the array, and only `Membership` says that the removed slot is unique.
  From `IInv`: `TypeOK`, `InOrder`, `Lockstep`, `DrainedHasAll`,
  `PanicNeedsOverlap` and `WedgeIsForever`.
* `ProcessStreamProofs`: every step of the composition is a step of `Data` or
  leaves it alone, and the same for `End`, so `Spec => Data!Spec` and
  `Spec => End!Spec`; and `End` never panics, since its `Source` is never
  closed.  So the invariants of `MultiplexProofs` hold of both channels
  (`ChannelsInv`), and what is proved about streams rests on them.  `HandlerInv`
  orders the readers, the collector, `outCtx`, the waiter and the table;
  `StreamInv` says that a stream leaves its data loop only with all of
  `DataEvent` since its fork (`EndCarriesAll`).  That needs the channel's `FanControl`
  and `CloseLoop` at the one step where a consumer sees its channel closed.  From
  these: `EndIsLast`, `NoSendOnClosed`, `TrackedUntilEnd`.  `NothingUnread` counts:
  what was written is what was sent and the set of chunks in pipes and readers'
  hands (`Counted`).  `StuckForever` is proved per action: a wedge by the channel's
  lemma `WedgedStays`, the circle by `EntangledStays`.
* `ProcessTableProofs`: `IInv` adds how far launch, process and waiter of a
  handler can be apart (`Progress`), that a pid has one live owner
  (`OneOwner`), that an entry's handler owns that pid (`EntryOwner`) and that a
  resolved request names a started handler (`Resolved`).  From it: `TypeOK`,
  `ListedUnlessReused` and `NoGhost`.
* `EgressProofs`: `AddressRulesFacts`, `ScriptFacts` and `InitScriptFacts` say which rules a
  pattern becomes and what stands where in the parts of an Apply and of Setup, for
  manifests and answers of DNS of any length.  `IInv` adds where Setup and the pushes
  are, down to the rule within a part (`Progress`, `PushProgress`), that rules in the
  chain are exemptions or of entries of pushes still remembered in `recent`
  (`OnlyListed`), that a chain without DROP has a running Apply past its flush
  (`HasDrop`), and, as long as pushes do not overlap and commands do not fail, that the
  chain has what the script has run so far and no DROP before its end (`Alone`, `InStep`,
  `SetupInStep` by `DoneTo`; `Complete`).  The last four are needed because
  `ExactAtRest` speaks only of the end of an Apply.  `Drops` and `Passes` relate such a
  chain to what the kernel does with a packet.  From it: `TypeOK`, `ExactAtRest`,
  `ClosedOutsideApply` and the action property `BootsClosed`.
* `OverlayProofs`: `IInv` adds that a request under way has seen the manifest
  that is current (`SeesCurrent`): a decision that passes rests on one read of the
  store, and the manifest read is one the request has seen.  `DenialsAreTrue`
  fails for the same reason turned round: a refusal rests on two reads.  From it:
  `TypeOK` and `PermitsAreTrue`.  `ListingInv` follows a listing name by name: of a
  request that saw no change, the names already looked at are kept exactly if
  they pass, and a name waits for the second look only if the first refused it;
  from it `ListsWhatItFinds`.  `GlobsMatch` and `Traversable` are facts about the
  matcher for patterns and paths of any length (`GlobDenotes`, `WayIn`): case by
  the last segment, and an induction over the cuts of a path (`CutIsIndex`).
* `WatchersProofs`: `IInv` adds that a removal past its `Close` has left its watcher
  closed (`ClosedFirst`), that only stored watchers are removed or in the table
  (`RemovesStored`, `TableIsStored`) and that an open one has been made
  (`OpenIsMade`), so that nothing can open it again between `Close` and `Delete`.
  From it: `TypeOK` and `NoneForgotten`.  `NothingLost` is inductive given the types;
  its proof is about sequences.  `FlattenSeq` is a recursive function: lemmas show
  that the function exists, that it is unique and hence what `FlattenSeq` gives
  after an append and for head and tail; then each of the five actions that
  move an operation keeps the one equation.
* `TunnelProofs`: `WriterInv` says that `run` is alone with its connection until the
  ready message is out and that from then on the writer has the mutex; so
  `OneWriter`.  `InputInv` says who may be in the middle of a message: the writer
  of the last piece (`MidwayIsLast`), and that an unfinished message means a writer
  at work or a place where nothing more can be written (`CutMeansOver`).  Neither
  `MessagesWhole` nor `StreamHasNoGap` is inductive without it, since both look at
  finished writing only.  `AnswerInv` ties requests, goroutines and calls
  (`TasksFollow`), and says that what was granted when a request was first pushed
  stays granted and was done (`AfterIsGranted`, `GrantedIsDone`); so
  `AnsweredInOrder`.
* `SharedProofs`, one invariant per part.  `CacheInv`: before any lock aged an
  owner's lock is the one there (`OwnersHaveLock`); who waits for an answer asked for the
  whole chunk, and what is written back is whole (`AsksForWhole`, `WritesWhole`, for all in
  `ReadsAreWhole`), unless somebody asked for less or an answer was torn, and what has
  the final name is whole (`FileIsWhole`); after a clean deletion nothing is under way
  (`CleanMeansQuiet`).  From it: `HitsAreRight`, `SoleOwner`,
  `LockLeftMeansCrash`, `DeletedStaysGone` and the action property `NeverReplaced`.
  `MultipartInv`: a goroutine that ended well has its part on the server, and the
  completion is asked for after all ended well; so `ObjectWhole`.  `RedisInv`: who
  still has the entry's lock when it is to store carries what is at least as new
  as the last locked Delete (`OwnerIsFresh`); so `LockedDeleteSticks`.
  `CatalogInv`: between GET and DEL nothing new is in redis but what overtook
  (`DelKnowsEntry`); so `DeleteSparesOthers`.  `SemInv`: a caller that is about to
  sleep has no room either; so `NoneSleepsOnRoom`.  `LimiterInv`: all calls have the
  counter in the map unless Remove cut in (`OneCounter`), the connections
  counted are a finite set, whose cardinality each swap changes by one
  (`InCounter`), and no more than k of them came with a limit of at most k
  (`LimitsKept`); so `CountsOpen`.  `PoolInv`: once Close has looked, an open connection of its client
  is on its list or late (`ResetKnows`); so `ClosedKeyIsClosed`.
* `SharedProofs`, `Header`, for files of any number of blocks and any number of
  layers.  `LayersResolve` speaks of finished headers only; `HeaderInv` says what
  holds on the way.  Lists of maps are compared by the blocks they cover and by
  what they say of each.  `BuilderRight`: the object under way lists the dirty
  blocks in ascending order.  `MappingRight`: while a layer is built, the header
  below is right on the blocks not seen.  `MergeRight`: the loop of `MergeMappings`
  has a frontier (`MergingAt`); before it the result is final, from it on what is
  left of diff has exactly the changed blocks, what is left of base is right on
  the others, and the three lists together cover what they covered at first.
  Each case of the loop is one or two of the moves `KeepBase`, `KeepDiff`, `DropBase`,
  `TrimBase` and `KeepLeft`.  `CreateMappingFacts` shows that the runs of marked
  blocks have their places in the object, `NormalizeFacts` that joining neighbours
  of one build without a look at their places is right: both being right, they
  adjoin in the object too, because its blocks ascend (`PlacesAdjoin`).  From it:
  `LayersResolve` and `HeaderTypeOK`, for which the maps also have storage offsets
  no greater than their offsets.
* The refinement `HeaderImplementsFile`: `Readable` adds that also the blocks which
  the layer under way has overwritten are found where the header below has them,
  since objects only grow.  A new builder then is `LayeredFile`'s `Begin`, a `Process`,
  failed ones too, its `Write` or `Clear`, `ToDiffHeader` its `Snapshot` of exactly these
  blocks, and every other step a stutter.

Induction over data (the cuts of a path, the events of a queue, the steps of
`CreateMapping` and `NormalizeMappings`) is by the least
counterexample: `LeastNat` follows from the library's theorem that `<` is
well-founded on the natural numbers, which takes no operator as a parameter.

Assumptions are those the modules name: the "nothing" values are not members of
the sets they stand beside, capacities and bounds are natural numbers, patterns
are not empty and names are not wildcards, the catalog has a host.  Every run
evaluates those of its modules.

`Lockstep`, `WedgeIsForever`, `BootsClosed`, `NoneForgotten`, `Traversable`,
`NoSendOnClosed`, `TrackedUntilEnd` and the type invariants of
`Multiplex`, `ProcessTable`, `Egress`, `Overlay`, `Watchers` and `Header` are proved and not run; elsewhere the
inductive invariant has as much of the types as its proof needs (`...Shape`).  The parts of `SharedProofs` are proved of their own next-state relation; that
the runs explore them side by side (`MCStorage`, `MCShared`) plays no part.

Only model-checked: all liveness (`Drains`, `Settles`, `Reaps`, `Stops`, `Returns`,
`Answers`, `Abandons`, `RedisConverges`, `MemConverges`), which is outside the
provers' reach under fairness; and the three violations, which are
counterexamples.  Every safety invariant and action property that a run checks is
proved.

## 5. Not modelled

About 38,000 of the repository's 52,000 lines of implementation are generated: protocol
buffers, RPC stubs, the Firecracker and edge clients, mocks.  They carry no
logic of the program, and no definition here stands for them.  Of the some 16,800 lines
written by hand, left out are:

* logging, telemetry, metrics, the wording of errors, keepalives, flags, CORS,
  registries, feature-flag and cloud clients: I/O and glue;
* the filesystem service's unary calls, user and path resolution, cgroups, the
  network interceptor: stateless translations of one request into system calls;
* `ResizeTty` and `Update`, which set a window size; `/exec`, one command with
  its output;
* the contents of virtual files: `Open` of an unfilled one returns `EIO`
  (`fuse.go:319`), where the comment on `PutLazy` has reads block;
* serialisation of headers, local file storage, HTTP routing and error pages of
  the proxy, the catalog in memory (one map);
* once-cells, promise, the periodic synchroniser, wrappers of concurrent maps: each a
  single guarded assignment or a call into a library.

One place of the wiring is taken as meant, not as written: `main.go:145` gives the process
service a nil cgroup manager, on which `handler.New` panics; the models describe
the service with a manager.

## 6. Plan

1. *(done)* `Multiplex`, `ProcessStream`, `ProcessTable`, their runs and proofs.
2. *(done)* `Egress`.
3. *(done)* `Overlay`, with the glob matcher as an operator over path segments
   checked against a reference definition.
4. *(done)* `Watchers`.
5. *(done)* `Input`: stdin and tty under `stdinMu`, `StreamInput` sequences.
6. *(done)* `Tunnel`: reconnects, requests in flight, duplicate execution on retry.
7. *(done)* `packages/shared`: storage cache, header, multipart upload, both caches,
   catalog, semaphore, limiter, pool.
8. *(done)* Proofs: every safety invariant and action property that a run checks.
9. *(done)* The layered header: `LayersResolve`, and its refinement of `LayeredFile`.
