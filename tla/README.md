# A formal model of fuse-promise

fuse-promise lets an application *promise* files: it commits a tree of names and
attributes to a per-user daemon, the tree shows up in a FUSE mount at once, and the
content is asked from the application only when somebody reads it.  This directory
holds TLA+ modules that model the daemon and its protocol, the TLC configurations that
check them on small instances, and TLAPS proofs of the main invariants for every
instance.

Paths below are relative to the repository; *RT*, *IPC*, *FA*, *FFI* and *MAIN* stand for
`crates/fuse-promise-runtime/src/lib.rs`, `crates/fuse-promise-ipc/src/lib.rs`,
`crates/fuse-promise-daemon/src/fuse_adapter.rs`, `crates/fuse-promise-ffi/src/lib.rs` and
`crates/fuse-promise-daemon/src/main.rs`.

## 1. The system

| Part | Where | State | Operations |
|---|---|---|---|
| Runtime, lifecycle | RT 600-850 | providers, promises, id counters | register/unregister a provider, commit a promise |
| Promise trees | RT 433-600, 856-954, 1074-1258 | nodes, parents, inodes | builder `add_node`, `finish`, lookup, readdir |
| Read cache | RT 226-430, 634-798 | cached chunks per file, cache policy | record, look up, plan prefetch, coalesce |
| IPC state | IPC 627-883 | routes, pending reads, request counter | route a read, complete it, disconnect a provider |
| Client connections | IPC 1123-1444 | one thread each, its registered providers | the requests of the protocol |
| Materialize | IPC 1446-2318 | a target tree on disk, progress | plan, preflight, write, cancel, clean up |
| FUSE adapter | FA | one thread | lookup, getattr, readdir, open, read |
| Client side | IPC 474-533, 897-1103 | one socket | provider connection, status, commit, materialize |
| Daemon process | MAIN, FA 408-459, RT 1102-1185, IPC 1123-1148, 2438-2494 | mount point, socket file | start, mount, bind, serve, end |
| C API | FFI | contexts, builders, provider helper thread | `fp_*` functions |
| Command line | tools/fpctl | none | prints status and inspect output |

The daemon is concurrent: each client connection is a thread, the FUSE session is a
thread, and both read provider content through `route_provider_read`.  They share the
`Runtime` under one mutex and the IPC maps under three others, and never hold two of
these at a time while they change state.  So every interesting behaviour is an
interleaving of short lock sections: a provider that disconnects between a reader's plan
and its route lookup, a response that arrives as the reader gives up, two threads that
disconnect the same provider.

### What is hard about it

The lines are in the hazard list of `PROJECT.json`; in short:

* **Reads against disconnects.**  `route_provider_read` takes three locks one after the
  other, with the provider's socket and a timeout in between.  A disconnect, a late
  response, a response from the wrong connection, or a failing write can fall into every
  gap.
* **Two maps of who is alive.**  Sessions and promises are in the runtime, routes are in
  the IPC state, each under its own lock, and the owner of a commit is checked in one
  lock section and used in the next.
* **A cache between two sizes of read.**  The kernel reads at any offset and size, the
  provider is asked for chunks, answers may be short, and the reply is a slice whose
  position was computed before the answer came.
* **A file system that others use.**  Materialize works by path, in a directory that the
  user and other materializes change, must clean up after any failure, and checks
  identities before it removes by name.
* **Names that outlive their state.**  The kernel keeps inodes and readdir cookies while
  promises are committed and providers go.
* **Clients that repeat themselves.**  A commit whose answer is lost may be sent again.
* **One socket, several writers, bounded buffers.**  Requests and answers share the socket
  of a provider; a frame is two writes; a write blocks, with a lock held, until the other
  side reads, and the other side may be waiting itself.
* **Processes that end anywhere.**  A killed daemon leaves its mount and its socket; daemons
  may start at the same time; handles of applications outlive the daemon they are from.

Correct means: every read gets one answer, from the right provider, with the right
bytes, in the end; a closed connection leaves nothing behind that claims to be
available; materialize never destroys what it did not make and never marks what is not
complete; the tree in the mount is the tree that was committed, under inodes that keep
their meaning; a listing misses nothing; what goes over a provider's socket is whole frames
and nobody waits on it for ever; and the daemon that has the mount is the one that
applications reach.

## 2. The modules

| Module | Models | Reads as |
|---|---|---|
| `Runtime` | provider sessions, promise states (RT 600-850) | the methods called under the runtime lock |
| `IpcState` | routes, pending reads, handler threads and readers (IPC 627-876, 1159-1419) | one action per lock section |
| `ProviderService` | what `IpcState` promises, without threads, locks or messages | abstract specification |
| `IpcStateProofs` | | proofs about `IpcState`: types, locals and sessions; reads and the refinement |
| `ProviderSocket`, `ProviderSocketProofs` | one provider connection, both ends (IPC 474-533, 685-876, 1166-1286, 2378-2424, FFI 254-264, 463-570) | one action per call that reads or writes a piece of a frame, and the proofs |
| `Daemon`, `DaemonProofs` | the processes of one user (MAIN, FA 408-459, RT 1141-1185, IPC 1128-1148, 2456-2478) | one action per system call of the start, and the proofs |
| `ByteCache` | a cache that knows single bytes | reference for `ReadCache`, and the cache of `FuseRead` |
| `ReadCache`, `ReadCacheProofs` | ranges in chunks (RT 224-430, 653-682) | one action per turn of the two loops of an insert; reads as operators; and the proofs |
| `FuseRead` | the read callback (FA 170-405, RT 653-798, 956-1060) | one action per lock section or return of a routed read |
| `FuseReadProofs` | | proofs about `FuseRead` |
| `Materialize`, `MaterializeProofs` | IPC 1446-2318 | one action per system call that matters, and the proofs |
| `PromiseTree` | builder, commit, inodes, lookup, readdir (RT 433-600, 838-954, 1074-1258, FFI 280-379, IPC 1353-1419) | client, request and daemon |
| `PromiseTreeProofs` | | proofs about `PromiseTree` |
| `ReadDir`, `ReadDirProofs` | readdir of the mount (FA 106-133, 247-266) | one action per readdir call or commit, and the proofs |
| `MC*` | | model values, small functions and symmetry for TLC |

The composition goes through what each part needs of the other.  `IpcState` extends
`Runtime` and calls its operators.  `FuseRead` and `Materialize` use a routed read as one
step that ends with an answer or an error, which is what `IpcState` shows of
`route_provider_read` (`OneAnswerPerRead`, `ReadReturns`, and the refinement of
`ProviderService`, in which a read is exactly that).  `FuseRead` uses `ByteCache` for the
cache, which `ReadCache` is shown to agree with (`ReadsLatest`).  `ProviderSocket` takes
apart what `IpcState` has as one step, the write and the read of a frame, and puts together
what `IpcState` takes apart, the lock sections of a disconnect; each shows what the other
assumes: that a write ends, and that lock sections can be interleaved.  `Daemon` shows that
a serving daemon has its mount, where the other modules begin.

### IpcState

A thread is at a place `pc[t]`, with the locals of the call it is in.  Connection threads
(`Conns`) and readers (`Readers`: the FUSE thread, and connection threads inside a
materialize, so that the two sets may meet) share the four maps.

| Code | Actions |
|---|---|
| `route_provider_read` (IPC 678-744) | `BeginRead`, `CloneRoute`, `RouteMissing`, `InsertPending`, `WriteRequest`, `WriteFails`, `Receive`, `Timeout`, `RemoveTimedOut`, `RemoveUnwritten` |
| `disconnect_provider_id`, `fail_provider_pending_reads` (828-876) | `DropRoute`, `MarkGone`, `fail_provider_pending_reads`, `SendFailure`, `Disconnected`, `DisconnectedClosing` |
| `ProviderRegister` (1229-1250) | `ProviderRegister`, `register_provider_route`, `RegisterFails` |
| `ProviderUnregister` | `ProviderUnregister`, `UnregisterValidated` and the disconnect |
| `handle_promise_commit` (1353-1419) | `PromiseCommit`, `CommitValidated`, `CommitRefused` |
| `complete_provider_read` (796-826) | `ProviderReadResponse`, `SendResult`, `UnmatchedResponse` |
| end of a connection | `PeerClose`, `EndOfRequests`, `disconnect_registered_providers`, `HandlerEnds` |

A peer answers what it was sent, once, in any order and at any time, also after the
timeout; a peer in `Strays` answers any request number any number of times, with any
length.  The write of a request succeeds, or fails when the peer is gone.

Abstractions: connections begin after the hello; a refused request that changes nothing
is not a step; the mount is ready, as it is before the daemon listens; a frame is sent
and received as a whole; an answer the handler cannot write is the same as a peer that
is gone at the next request; a write to a provider ends (see `ProviderSocket`).
`MaxProviders`, `MaxPromises` and `MaxRequests` bound the counters.

### ReadCache, ByteCache and FuseRead

`ReadCache` keeps for each file and chunk a sorted sequence of ranges.  A record is the
check of `record_cached_read`, then one step for every turn of the loop over chunks
(`FileInsert`, `FileInserted`) and of the loop over the ranges of a chunk (`Absorb`:
retained, or merged), then the sort (`ChunkInsert`: some permutation that is in order, which
is all that `sort_by_key` promises).  The steps of one record are not interleaved with
anything, since the runtime is locked; they are steps so that an invariant can be stated of
the loops.  `read` is an operator: concatenate over chunks, or nothing.  Recording arbitrary
bytes, not only the right ones, makes the order of records visible.

`FuseRead` has the state of one callback: the call, the request it was coalesced to, the
slice of the response, the response, the prefetch.  Reads are taken from the end of the
file, a local copy, the cache or the provider, in the order of `plan_read`.  Other threads
disconnect the provider and mark files as materialized at one of their `Paths`, and the user
deletes or truncates a copy, between any two steps.  The plan of a local read keeps the path
it found (`path`): a copy made elsewhere meanwhile does not help it.  The recording of a response is part of the step that
receives it: only the FUSE thread writes the cache, and what the record checks never
changes.  Offsets are far from 2^64.  The chunk size is at most `MAX_PROVIDER_READ_LEN`,
which holds for the only read-through policy the daemon can be started with.

### Materialize

Two threads materialize the same tree, of directories and files, into the same directory,
each under a policy of its own; the user has some of the names already, as files or
directories.  A file has a number of chunks, which come from the provider, else from an
earlier local copy, else from the cache, else not at all.  Every step can fail with an
error of the system or a cancellation (`Error`), which leads to the cleanup: permissions
restored, then, last created first, identity compared and removed by path, in two steps.

An identity is who made a file and for which entry, and is not used again.  The preflight
is part of the plan, since the later steps check again.  `MaxRename` stands for the 1024
attempts at a free name.  A collision of temporary names is an `Error`.  A thread
materializes once; that is why the run has no deadlock check.

### PromiseTree

Clients build trees with `add_dir` and `add_file`, send them in the order of the map (by
path), and may lose the answer, after which the builder is still there.  The daemon adds
node after node to a builder of its own and commits: a promise number, then inodes in the
order of the paths, until `MaxId`, which stands for the largest u64.  A path is a sequence
of names; the order of paths is a parameter, given in the MC module as the order of bytes,
in which `a-` is between `a` and `a/b`.  Node ids are left out; they are allocated like
inodes.

### ReadDir

A listing of the mount is a sequence of readdir calls, each of which makes the list anew,
skips as many entries as the cookie says and returns some of the rest.  Commits come in
between.  Promises are never removed by the code.  The order of names is a parameter; the
MC module gives the order of `promise-1`, `promise-10`, `promise-11`, ..., `promise-2`.

### ProviderSocket

Two buffers of pieces, `down` to the client and `up` to the daemon; a frame is a header and
a body, and a write waits while its buffer is full (`DownCap`, `UpCap`).  Readers write
requests with the mutex of the route (`writer`), the handler thread writes its answers
without it; that `unregister_provider` refuses is answered with the runtime mutex still held
(`runtime`, `ReleaseRuntime`).  The client is one of three `Kinds`: the helper thread of the library
(FFI 463-505), the same with a callback that reads from the mount, or a direct user of
`ProviderConnection`, who may call `unregister`.  A second connection asks for Status or
Inspect, and the answer is written with the runtime mutex held as well.  The application
unregisters or dies at any point.

| Code | Actions |
|---|---|
| `route_provider_read` (IPC 685-744) | `BeginRead`, `BeginNested`, `CloneRoute`, `LockWriter`, `WriteHeader`, `WriteBody`, `WriteFails`, `Receive`, `Timeout` |
| disconnect (IPC 828-876) | `DropRoute`, `MarkGone` |
| handler thread (IPC 1156-1286) | `complete_provider_read`, `ProviderUnregister`, `unregister_provider`, `ReplyHeader`, `ReplyBody`, `ReplyFails`, `HandlerEof` |
| helper thread (FFI 463-570) | `ReadHeader`, `ReadBody`, `ReadEnds`, `CallbackReturns`, `RespondHeader`, `RespondBody`, `RespondFails` |
| `ProviderConnection::unregister` (IPC 508-523) | `Unregister`, `UnregisterHeader`, `UnregisterBody`, `AnswerHeader`, `AnswerBody`, `UnregisterFails` |
| `fp_provider_unregister` (FFI 254-264, 492-505) | `fp_provider_unregister`, `Join` |
| Status and Inspect (IPC 1195-1221) | `Inspect`, `WriteAnswer`, `ReadAnswer`, `AnswerFails` |

A client that reads something it does not expect ends, as in the code.  The buffer to a
client with a callback that reads from the mount is taken to have room for the requests that
come meanwhile (`Room`): without room, the FUSE thread waits in a write, which has no
timeout, for the helper thread, which waits in the callback for the FUSE thread.  A read
request is a few hundred bytes and there is one FUSE thread, so that it takes very many
materializes of the same provider at once to fill a socket buffer.

### Daemon

Each of `Daemons` runs `main` once, in any overlap: it looks for the mount point, creates it,
checks it, mounts, sets the mount status, looks at the socket path, removes what is there,
binds and serves.  It ends by itself on every error path and on an error of `accept`, with
the drop of `FuseMount`, or is killed at any step.  The user may unmount at
any time; `hasty` remembers that it was a daemon between its mount and its bind.  Mount point and socket path may hold anything at first.  Applications
register, lose or end their connection, and commit, at the daemon that the path leads to.
The build has the FUSE backend.  Owner tokens are random 128-bit numbers in the code, and
new ones here.

## 3. The runs

| Run | Instance | States | Shows |
|---|---|---|---|
| `routing` | 2 connections, 1 provider, FUSE thread and a reading connection, 2 requests, one stray peer | 419,890 | `PendingHasReader`, `OneAnswerPerRead`, `ResponseFromRegistrant` |
| `sessions` | 2 connections, 2 providers, 1 promise, 1 read | 614,260 | `AvailableHasLiveProvider`, `ClosedConnectionServesNothing`, `GoneProviderLosesRoute`, `ImplementsService` |
| `liveness` | 1 connection that also reads, FUSE thread, 2 requests | 4,049 | `ReadReturns`, `CloseEndsProvider` |
| `cache` | files of 5 and 1 bytes, chunk of 4, two byte values | 251,289 | `CacheTypeOK`, `RangesApart`, `ReadsLatest` |
| `fuse_read` | files of 4 and 1 bytes, chunk 2, longest request 3, all offsets, sizes 0, 1, 2 and 4 (3 is cut to the same as 4), the first copied to two paths | 309,618 | `CacheIsContent`, `DataIsContent`, `WholeWhenAnsweredInFull`, `RequestsFit`, `NeverAsksForKnown`, `CallReturns` |
| `materialize` | 2 threads, 2 directories, 2 files of one chunk, up to symmetry of the threads | 1,701,093 | `MaterializeTypeOK`, `UserDataIsSafe`, `MarkedIsWhole`, `FailedLeavesNothing` |
| `socket` | FUSE thread and one more reader, all three kinds of client, buffers of 1 piece down and 1 frame up, 2 requests, 1 Inspect | 111,970 | `FramesWhole`, `HelperServes`, `NoCallbackAfterUnregister`, `UnregisteredIsGone`, `EveryReadEnds`, `UnregisterEnds` |
| `startup` | 3 runs of `main`, 2 applications, 1 id per daemon, 2 tokens | 404,753 | `MountedKeepsSocket`, `CommitByRegistrant`, `ReadyIsMounted`, `DeadMountWasKilled`, `OneServes` |
| `trees` | 1 client, 5 paths, 2 promises, numbers to 10 | 75,728 | `TreesAreTrees`, `RebuiltIsBuilt`, `WalkFindsNodes`, `InodesUnique`, `InodesKeepMeaning` |
| `listing` | 12 promises | 3,546 | `ListingComplete`, `RepeatsAreCommits` |

Every property has a mutant in `PROJECT.json`: a version of one definition with a
plausible bug, under which TLC finds the property violated.

The runs check the type invariants of `ReadCache` and `Materialize` only.  The others
(`TypeOK`, `ReadTypeOK`, `DirTypeOK`, `SocketTypeOK`, `DaemonTypeOK`, `TreeTypeOK`) are
parts of the invariants of section 4.  All of them are proved, for every value of the
constants.

The bounds are small, and chosen so that the interesting cases happen:

* `routing` has two reads because what can go wrong is that one takes the answer of the
  other, or that an answer comes when the next read is under way; the second connection is
  reader and stray at once, so that it answers reads that it does not own, among them its
  own.
* `sessions` has two providers so that one connection can hold both, unregister the one of
  the other, and still have its own disconnected.
* `liveness` has the connection of the provider among the readers: the thread that waits
  is the one that would receive the answer.
* `cache` has a full and a partial chunk, and enough room in the first for two ranges
  that are apart, so that one record can bridge them, or touch one and not the other; `fuse_read` has a file that
  ends inside a chunk, reads across a boundary, and reads longer than the longest request.
* `materialize` has a directory below a directory, one of them read-only, and a file in
  each, which are the shapes that the order of creation, metadata and removal can get
  wrong.
* `socket` has the smallest buffers, so that every write blocks at some time: a frame does
  not fit into `down` as a whole.  Two readers contend for the mutex of the route, and their
  two requests meet an unregistration on the same socket.
* `startup` has three daemons so that one can be killed, with its mount and socket left, and
  two more start over it at once.  One id for each daemon is enough for a handle to meet the
  same id in the next daemon.
* `listing` needs ten promises for `promise-10` to come in before the others, and two more
  for it to happen again.
* `trees` has three levels and a name that sorts between a directory and what is in it, and
  runs out of numbers inside its second promise.  One client is enough for TLC: the daemon
  keeps a builder per request and commits under one lock; the theorems are for any number
  of clients.

### Fairness

`FairSpec` of `IpcState` has weak fairness of each thread's steps inside a read, a
disconnect and a handler: they need only the scheduler, mutexes that are held for short
sections, and for a waiting reader the timeout of `recv_timeout`.  `EndOfRequests` has
strong fairness: a handler that reads from a closed peer may find buffered requests first,
but only finitely many.  New requests, new reads and closing peers have no fairness.
`FairSpec` of `FuseRead` has weak fairness of the steps of the callback, which is
`ReadReturns` for the routed reads in it.  `FairSpec` of `ProviderSocket` has weak fairness of
every thread of the daemon and of the library, so of a blocked write only once there is
room; callbacks return, and the client that asked for Inspect reads the answer, which is
what the library's `inspect` does; nobody has to begin a read, to unregister or to die.
`FairSpec` of `Daemon` has weak fairness of the steps of `main` and none of kills, errors of
`accept`, the user and applications.  `materialize` states no liveness: after a
progress report the daemon waits for the client without a timeout.

## 4. The proofs

| Theorem | Module | Property |
|---|---|---|
| `TypeCorrect`, `LocalsTheorem` | `IpcStateProofs` | `TypeOK`; locals belong to places, request numbers are not shared |
| `AvailablePromiseTheorem`, `RouteTheorem`, `ClosedConnectionTheorem` | `IpcStateProofs` | `AvailableHasLiveProvider`, `GoneProviderLosesRoute`, `ClosedConnectionServesNothing` |
| `PendingTheorem`, `OneAnswerTheorem`, `ResponseTheorem` | `IpcStateProofs` | `PendingHasReader`, `OneAnswerPerRead`, `ResponseFromRegistrant` |
| `ServiceTheorem` | `IpcStateProofs` | `ImplementsService`: `IpcState` implements `ProviderService` |
| `MaterializeTypes`, `UserDataTheorem`, `MarkedTheorem`, `FailedTheorem` | `MaterializeProofs` | `MaterializeTypeOK`, `UserDataIsSafe`, `MarkedIsWhole`, `FailedLeavesNothing` |
| `ConnectionTheorem`, `SocketTypeTheorem`, `FramesTheorem`, `HelperTheorem`, `NoCallbackTheorem`, `UnregisteredTheorem` | `ProviderSocketProofs` | the invariant; `SocketTypeOK`, `FramesWhole`, `HelperServes`, `NoCallbackAfterUnregister`, `UnregisteredIsGone` |
| `DaemonTheorem`, `SocketTheorem`, `ReadyTheorem`, `DeadMountTheorem`, `CommitTheorem` | `DaemonProofs` | the invariants; `MountedKeepsSocket`, `ReadyIsMounted`, `DeadMountWasKilled`, `CommitByRegistrant` |
| `CacheTypes`, `ApartTheorem`, `LatestTheorem` | `ReadCacheProofs` | `CacheTypeOK`, `RangesApart`, `ReadsLatest`: the cache agrees with `ByteCache` |
| `CacheTheorem`, `DataTheorem`, `WholeTheorem`, `RequestTheorem`, `NeverAsksTheorem` | `FuseReadProofs` | `CacheIsContent`, `DataIsContent`, `WholeWhenAnsweredInFull`, `RequestsFit`, `NeverAsksForKnown` |
| `TreesTheorem`, `RebuiltTheorem`, `InodesTheorem`, `MeaningTheorem`, `WalkTheorem` | `PromiseTreeProofs` | `TreesAreTrees`, `RebuiltIsBuilt`, `InodesUnique`, `InodesKeepMeaning`, `WalkFindsNodes` |
| `ListingTheorem`, `RepeatsTheorem` | `ReadDirProofs` | `ListingComplete`, `RepeatsAreCommits` |

They hold for all values of the constants that satisfy the named assumptions of the
modules: any number of threads, providers, promises, requests, files, paths, and any
sizes.  TLC evaluates the assumptions on every run.  They say of what the models leave open:

* bounds and sizes are numbers, a chunk is not empty, and the longest request holds a chunk;
* `None` is not one of the values it is used beside (a byte or a string of bytes, a pending
  read or a reply, a path, a tree, an identity), as `Option` has it;
* the orders of names and paths are strict and total and put a path after its parent, as the
  order of bytes does; a component is neither `.` nor `..` (`normalize_relative_path`);
* the entries of a tree to be materialized have one root, each has its place in the plan, and
  a directory comes before the directories in it, as the order of paths has it.

* **IpcState.**  The invariants are in three layers, each inductive relative to the ones
  below.  `LocalsInv` says which locals a thread has at which place, and that ids are
  allocated before they are used; it gives every read a request number of its own.
  `SessionInv` adds who answers for a provider: every route, every available promise and
  every commit past its owner check has a provider that is still on the list of the
  connection that registered it, or that a thread is just disconnecting (`AnsweredFor`);
  without it nothing follows from the end of a handler.  `ReadInv` adds where the one
  answer of a read is: `OutboxIsOwed` (a result that a thread is about to send is for a
  read that still waits for it), `AnswerOwed` and `AnsweredOnce`.  `ServiceTheorem` maps the
  sessions and promises as they are and a read to its reply, and shows of each action that
  it is the one step of `ProviderService` that its lock section decides, or a stutter.
* **Materialize.**  `BaseInv` has the types, what a thread holds at its place, and that a
  thread removes only what it made.  `UserInv` adds that no cleanup has a path of the user
  on its list.  `CountInv` relates the number of targets made to the place in the plan, which
  with `RestInv` gives the types.  `LeftInv` accounts for everything a thread has made: it is
  on the list and the cleanup has not passed it, or it replaced a file, or its removal was
  refused.  Where nobody overwrites, the list is the plan (`LoneOf`): the cleanup goes from
  the last target to the first, so from what is in a directory to the directory, and finds
  each of them writable and empty, and no removal is refused.  `MarkedInv` follows a file to its mark: what a thread is done with is in
  place and whole or has given way to a whole file whose maker will not remove it (`Good`,
  `Kept`), and what it has not come to is not on its own list (`Ahead`).  Each action is
  first classified by its effect on the directory (`Effect`: it looks, makes, writes,
  replaces or removes), and the invariants are shown of the effects.
* **ProviderSocket.**  `BaseInv` has the types and the locals of each place.  `FrameInv` says
  whose frame is half written, and that the writer holds the mutex (`WriterHolds`) until the
  body follows (`FrameOwed`).  `LibraryInv` says that the handler writes no answer to a
  library client, which is why the mutex of the route is enough; `GoneInv` and `JoinedInv`
  are about the ends.
* **Daemon.**  `MountInv` adds to the properties that the mount is the daemon's own from
  mount to bind (`StartingIsMounted`), or the user has taken it away meanwhile, so that only
  the one that has the mount removes a socket.  `OwnerInv` adds that tokens, and the ids of one daemon, are given out once.
* **ReadCache.**  The induction is over the turns of the loops, not over data.  `CacheInv`
  has for every chunk that its ranges are apart and in order, and for every byte, outside of
  what an insert has still to do (`Pending`) and the chunk it is in (`Current`), that the
  ranges have what was recorded last and only that (`Agree`).  Inside the chunk, `WorkOK`
  says it of the merged range first and the retained ranges and those to come next, of which
  every retained one is apart from the merged one: a range that is retained stays apart,
  since the merged range grows only by ranges behind it.  The sort is any permutation in
  order; that it leaves the ranges apart follows from their being apart in pairs.  A read is
  then one of a single range in each chunk: where the range that has the first byte ends, the
  next byte would be in a range that touches it (`OneRange`).
* **FuseRead.**  `FuseReadInv` adds to the properties the arithmetic that connects the
  steps: the slice lies in the request (`SliceFits`), the response is what the provider
  has at the request (`ResponseFits`), a local read has its range (`LocalFits`), and a
  reply has the bytes of the call (`Replied`).  `NeverAsksForKnown` is inductive beside it:
  a request that is grown to whole chunks still has the byte that the cache did not have.
* **PromiseTree.**  `TreeInv` adds `RebuiltAgrees`, the daemon's builder is the client's
  without the nodes that are still to be added, and `NotYet`, the promise numbers to come
  are free.  That a parent is there before its child follows from the order of the paths,
  of which is assumed that it is a strict total order and puts a path after its parent.
  `WalkFindsNodes` follows from `TreesAreTrees` and `InodesUnique`, by which an inode leads to
  one node only.
* **ReadDir.**  `ListingInv` adds that what was there at the start and has not been listed
  is at or after the cookie; an entry that comes in can only move it back.  For
  `RepeatsAreCommits` it counts: a listing has given no more entries than there are before
  the cookie (`Spent`), and of the promises before the cookie only those that came in
  meanwhile can make it give one twice.

Only model-checked are the liveness properties (`ReadReturns`, `CloseEndsProvider`,
`CallReturns`, `EveryReadEnds`, `UnregisterEnds`, `OneServes`), which are beyond the prover.
Every safety property of a passing run is proved.

## 5. Where the code and its documentation differ

| Run | Property | What TLC finds |
|---|---|---|
| `orphan` | `LiveSessionHasConnection` | The owner token or the clone of the stream fails after `register_provider`: the session stays live when its connection ends (IPC 1237), against `docs/runtime.md:104`. |
| `cleanup` | `CleanupSparesOthers` | Between the identity check and the removal, another materialize renames its file to the path, and it is removed (IPC 2010), against `docs/security.md:73-74`. |

The file that such a cleanup removes may be marked as materialized already, or be marked
afterwards; `MarkedIsWhole` speaks of the other paths (`strayed` has these).

More, without a run, read from the code:

* The provider disconnects between the plan of a FUSE read and the lookup of its route: the
  read fails with `ENOENT` (IPC 693, FA 580), `docs/runtime.md:267` says `EIO`.
* A coalesced read is answered short, inside the slice of the caller: `EIO` (FA 387), where
  `docs/architecture.md:309-310` allows a short response.
* `open` looks at the kind of a node alone (FA 157), so that a file whose provider is gone
  can be opened and only the reads fail, where `docs/runtime.md:266` has `EIO` for both.
* A read of a directory is `EINVAL` in the code and `EISDIR` in `docs/runtime.md:265`, but
  the kernel does not pass such a read on.
* A materialize whose provider times out ends as `FP_ERR_IO`, while `docs/public-api.md:73`
  has a code for timeouts.
* When the user unmounts, the daemon does not notice and accepts commits (`ReadyIsMounted`
  has to except it), where `docs/architecture.md:292-293` has `FP_ERR_UNAVAILABLE` for a
  mount that is not ready.
* When the user unmounts a daemon between its mount and its bind, a second one can start, and
  the first then removes the socket that the second serves (`MountedKeepsSocket` has to except
  it): `remove_stale_socket` does not ask whether anybody listens.
* The daemon handles no signal, and the systemd unit has no `ExecStop`: the end of a session
  leaves the mount behind (`DeadMountWasKilled`), where `docs/runtime.md:199` has it
  unmounted; the next daemon then does not start until somebody unmounts.
* In a build without the FUSE backend nothing keeps a second daemon from removing the socket
  of the first: `MountedKeepsSocket` rests on the mount.

A listing of the mount may return a name twice when a promise is committed meanwhile
(`RepeatsAreCommits` says when), which POSIX allows.

## 6. What is left out

The encoding of messages, the hello, the content of status and inspect answers, and the
status tables beyond the rows that reads pass; the checks that compare the owner or the mode
of a directory, a socket or a peer with the user; argument checks and error strings of the C
API; attributes; fpctl; packaging.  These are values computed in one call, without state that
another step could disturb; the component list of `PROJECT.json` has the reasons one by one.

Faults that are left out: a write that never ends because its reader never reads (the
assumptions of `Fairness` in `ProviderSocket`, and `Room`); the reuse of device and inode
numbers by the file system; an `fstat` that fails on a file just opened; a local copy
whose content somebody changes, or replaces by another file of the same path.

## 7. Further work

Proofs of the liveness properties, with a prover that has fairness and `ENABLED`; and
`ReadCache` at the upper end of u64, where `insert` saturates.
