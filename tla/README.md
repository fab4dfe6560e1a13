# NPB in TLA+

NPB encodes a Pydantic model with NumPy arrays into one contiguous, frame-aligned
container, optionally leaving large arrays in a blob store, and ships such containers
through pipelines. This directory holds TLA+ models of the parts whose correctness depends
on byte layout, on the order of steps, or on several threads and processes; TLC
configurations that check them; and theorems that TLAPS checks for all values of the
constants.

File names below: `_codec.py` and its neighbours are in `src/npb/`; `client.py`,
`registry.py` and the others without a path are in
`examples/zeromq_mutable_shm_chain/mstore/`.

## 1. The system

| Component | State | Operations | What is hard | What makes it correct |
|---|---|---|---|---|
| container format (`_format.py`) | none | `align_up`, `parse_header`, `require_binary_array` | arithmetic at frame boundaries, empty sections | sizes are multiples of a frame, sections do not overlap |
| encoder (`_codec.py` `encode`, `encoded_size`) | output buffer, cursor, manifest, list of arrays | tree walk, `put_array`, header, copy loop, padding | reused buffers, a failure after any step, models made of views into the output buffer | what is encoded decodes; nothing stale is left; a failure never leaves an old header over new content |
| decoder (`_codec.py` `decode`, `decode_auto`, `peek`) | none | header, manifest, restore | containers that were not written by `encode` | accepts what `encode` writes, refuses offsets outside the data |
| blob references (`_blob.py`) | none | a record and its JSON form | references the application made up | what is accepted is consistent |
| schema identity (`_schema.py`) | none | UUID5 of a class name | | a stable id |
| Vineyard store (`_vineyard.py`) | `_resolved_refs` per process; the daemon's objects | `put_array`, `get_array`, `delete` | addresses reused after deletion, views with equal keys | a reference names the array that was encoded |
| ZeroMQ transport (`_zmq.py`) | sockets | `send`, `recv`, `close` | high-water marks, linger, time-outs | a message arrives once or is lost with a process |
| mstore mapping cache (`client.py`) | `_MappingState`, `SharedObject`, the LRU dict | `open`, `create`, `close`, `clear_cache`, `delete` | lookups, evictions and leases in several threads; exported views | no live object loses its mapping, no mapping is forgotten |
| mstore control connection (`client.py` `_request`, `transport.py`, `protocol.py`) | one connection, one lock, the pid | request and response | time-outs, dropped connections, signals, forks | a request gets its own response |
| mstore daemon (`server.py`, `cli.py`) | phase, listener, socket path, workers, connections, `_stop` | listen, accept, serve, shutdown, clean up | stopping at any step; a second daemon, or the socket of a killed one, on the path | reachable while it serves; stopping leaves no connection and no worker |
| mstore registry and memory (`registry.py`, `backend.py`, `models.py`) | objects, tokens, memfd descriptors | create, open, grant, revoke, delete, close | descriptors used and closed outside the lock, numbers reused, clocks | a grant never widens; a descriptor is its object's memory |
| mutable shared-memory pipeline (`examples/zeromq_mutable_shm_chain/`) | one array, messages in sockets | produce, read/add/write, forward, check | many frames in flight, crashes between write and send, token expiry | each byte holds exactly what the stages added |
| Vineyard pipelines (`examples/vineyard_chain/`, `examples/zeromq_vineyard_chain/`) | as the Vineyard store | decode, encode again | as the Vineyard store | as the Vineyard store |
| iceoryx2 huge-blob example (`examples/iceoryx2_huge_blob/`) | chunks of shared memory, a buffer of one sample | loan, encode, send, receive, decode, drop | a chunk that is written again under the views; a buffer that is overwritten | views stay valid while used; samples are measured in order; the subscriber ends |
| command line, benchmark, `examples/basic.py` | none | printing, timing | | |

How they interact. An application calls `encode`, which calls `put_array` of a blob store
in the middle of the tree walk and returns a container; a transport moves it; `decode`
parses it and calls `get_array`. The mutable pipeline moves small control messages over
ZeroMQ and keeps the array in mstore, where every stage maps it through a `Client`. A
`Client` combines the mapping cache (under a cache lock and one lock per mapping) with the
control connection (under a request lock); the daemon's worker threads serve connections
and share one `Registry` and one table of file descriptors.

## 2. The modules

### Container, Codec, Decoder, EncodeDecode, MCCodec, CodecProofs

`Container` has the layout arithmetic and the conditions under which `parse_header`,
`_restore_tree` and `BlobRef.from_manifest` accept what they are given. `Codec` is a call of
`encode` or `encoded_size` as a state machine, many calls one after the other on one reusable
buffer: `NewCall`; the walk (`WalkInline`, `WalkExternal`, `WalkRefuse`, `WalkPlain`,
`EndWalk`); then `Prepare`, `PackHeader`, `WriteMetadata`, `CopyArray` for each array, and
`PadFrame`. A call may fail in the walk (a leaf is refused, the store fails), in `Prepare`
(the buffer is refused), in `PackHeader`, and in the copy loop, where a strided array may
find no memory for its contiguous copy (`CopyFails`). A `BlobRef` of the application, or a
dict with a reserved key, is written as it is (`GivenEntry`).

A byte is modelled by where it came from (`<<"data", call, leaf, index>>`, `zero`, a JSON
byte of a call, junk), not by its value. So "what decodes is what was encoded" and "nothing
of the past is left" are statements about origins and hold for every payload. Trees are
flattened: dicts and lists fix only the order of the leaves. `struct.pack_into` writes
its fields from left to right and raises at the first one out of range; that is kept,
because the fields in front of it are in the buffer by then.

`Decoder` is a call of `peek`, `decode_auto` or `decode` on any buffer: `ParseHeader`,
`CheckSchema` (only `decode`, and before the manifest is read), `ParseManifest`, then one
action per leaf in the order of the manifest (`RestoreView`, `RestoreBlob`,
`RestorePlain`), and `Finish`. A buffer is its header fields, its length, whether its
manifest is JSON and an object, and the leaves. `get_array` and `model_validate` may raise.
`EncodeDecode` composes the two: a decode reads what the encoder left in its buffer
(`OwnBinary`), or a container from elsewhere (`Containers`). Where the encoder wrote a
reference of the application, the decoder may find any entry (`Given`).

### VineyardStore, MCVineyardStore, VineyardStoreProofs

Several pipeline stages, each with its `_resolved_refs`, share one daemon. Actions:
`EncodeOwn`, `EncodeReused` (the key is in the table), `EncodeCopied`, `Decode`, `Delete`,
`Restart`, and the views an application takes of a decoded array (`Transpose`, `Slice`).
The daemon may give the memory of a deleted object to the next one, so that old keys meet
new arrays. Addresses, ids and shapes are small sets; the item type and size are fixed. The
daemon is external: only what `_vineyard.py` uses of it is modelled.

### MappingLifetime, MappingCache, MCMappingCache, MappingCacheProofs

`MappingLifetime` is the abstract specification: a mapping is attached once, is used by
some users, may be closed only when it loses its last user, and gains no user after that.
`MappingCache` has the steps a thread takes, one per critical section: `CacheHit`,
`CacheMiss`, `Request`, `CachePut`, `Acquire`, `CloseBegin`, `CloseEnd`, `ClearCache`,
`Delete`, `Purge`, `Close`, `Shut` and the ways to fail. The refinement maps the users of
a mapping to its live `SharedObject`s and, if it is cached, the cache; `LifetimeSpec` says
that the cache implements the abstract specification.

### Registry, MCRegistry, RegistryProofs

The registry's methods under its lock are single steps. What the daemon does outside the
lock is split at every system call: `memfd_create` and registration; reading `self.fd` and
`os.dup`; sending and closing the copy; unregistering, `os.close` and `self.fd = -1`. The
kernel hands out the lowest free number, so a number read before a delete may be another
object's memory when it is duplicated. `Clock` moves `time.time()` in either direction.
Deadlines are numbers or the `NaN` a request may ask for: no comparison holds of it
(`Before`, `Expired`), and `min` keeps it if it comes first (`Deadline`).

### ControlChannel, MCControlChannel, ControlChannelProofs

Threads of a process and of a child forked from it call `_request`: read the lock, take
it, look at the pid, connect if needed, send, receive. Connections carry frames without
numbers; workers of the daemon read, execute and answer; the daemon may stop. Reads time
out, sends fail, arguments may be unserializable, a signal handler may raise during a read,
and the process may fork with the lock held. `AfterFork` is what the first thread of the
child to enter does, in one step: close the inherited connection, note the pid, replace the
lock it holds.

### ServerLifecycle, MCServerLifecycle, ServerLifecycleProofs

Runs of `serve_forever` (`Daemons`) that share one `unix://` path. Each goes through
`Unlink`, `Bind`, `Chmod`, `Listen` (`make_socket_listener`), `Publish` (the listener
becomes known to `shutdown` and `_cleanup`), the accept loop (`Loop`, `Accept`,
`AcceptRaises`, `Register`, `Spawn`), and `_cleanup` in its steps (`Cleanup1` the listener,
`Cleanup2` the connections and then the registry, `Cleanup3` the path, `Join`). `accept` may
raise for want of descriptors (`AcceptFails`) and a thread may not start (`SpawnFails`);
either ends the loop.
`shutdown` runs in another thread, step by step (`Shutdown`, `ShutListener`,
`ShutConnections`), or after the `KeyboardInterrupt` that the command line catches
(`Interrupt`). A daemon may crash with its socket left on the path. Clients connect to
whatever the path names and may leave at any time; a connection waits in the backlog until
it is accepted or its listener is closed. The worker of a connection is reduced to its loop:
reading, handling, ending. What a request does is in `Registry`, what it answers in
`ControlChannel`.

### ShmChain, MCShmChain, ShmChainProofs

Producers, the stages and the sink of the mutable pipeline, with the PUSH socket of each
sender (`pipe`), the PULL socket of each receiver (`arrived`) and the bytes of each
producer's array (`image`). A stage's read, write and send are separate steps. Processes
crash anywhere and are started again; a token expires; ZeroMQ drops what a dead process
held and what outlives its linger (`lost` remembers those frames). ZeroMQ and mstore are
reduced to what the pipeline sees of them; the mstore client's own races are in
`MappingCache` and `ControlChannel`.

### SampleStream, MCSampleStream, SampleStreamProofs

Publisher and subscriber of the iceoryx2 example. The publisher loans a chunk, encodes into
it in two steps (between them it holds no container), sends it, and goes on; a new sample
replaces one that waits in the buffer. The subscriber receives, decodes views into the
chunk, checks and counts the sample, and drops it, after which the chunk may be loaned
again. Either may start at any time; the publisher may be killed. Of iceoryx2 the model has
what the example configures: one publisher, one subscriber, a buffer of one, one borrowed
sample, one on loan, no history. Chunks are a pool of at least three.

### What PROJECT.json's map shows

Every definition that models code is listed there with the lines it stands for. Operators
named only by a mutant (for example `NoGap`, `OldHead`, `KeepOld`, `Retry`) stand next to
the definition they would replace and are used by no action.

## 3. The runs

| Run | Question | Bounds |
|---|---|---|
| `codec` | Do finished containers decode (`RoundTrip`, `EncodedIsAccepted`), hold nothing stale (`NoStaleByte`), have disjoint aligned arrays (`ArraysDisjoint`); are the bytes behind a container, and a refused buffer, untouched (`SlackUntouched`); does a failed call never mix old and new (`FailureNeverMixes`)? On any container: do views stay inside the data (`ViewsInside`), is a store asked only for what it should be (`StoreAskedRightly`)? | frames of 4 bytes, alignment 2, header 2, `U32` = 5; 2 calls; models of up to 3 leaves; buffers of 12 and 17 bytes; containers with every header field around its limits, or with every manifest of up to 2 leaves |
| `vineyard` | Does a reference keep naming the array that was encoded (`SameArray`), and is a decoded array sent as its own object (`SentAsItself`)? | 2 stages, 2 ids, 2 addresses, 2 contents, all shapes |
| `mapping_cache` | Do live objects keep their mapping (`LeaseSafety`), are counts exact (`LeaseCount`), do flags and dict agree (`CacheAgrees`), is nothing forgotten (`NoOrphan`), is the abstract lifetime implemented (`LifetimeSpec`)? | 2 threads, 2 objects, 3 mappings, 2 handles, a cache of 1, views |
| `registry` | Do chains of grants only narrow, but for a NaN (`DelegationBounded`), do tokens go with their object (`TokensHaveObjects`), is a registered object's descriptor its own memory (`OwnDescriptor`), is no descriptor leaked (`NoDescriptorLeak`), does an answer carry its object's memory (`AnswersOwnMemory`), is memory released in the end (`MemoryReleased`)? | 2 workers, 2 objects, 3 tokens, 3 descriptors, times 0..1 |
| `lifecycle` | Is a daemon alone on its path the one clients reach (`ReachableAlone`), does stopping or failing leave no connection open but what an interrupt caught between two statements (`NoConnectionLeft`) and no new request after the registry is closed (`NoRequestAfterClose`); does a started daemon serve (`StartServes`), a client get a worker or an end (`NoClientForgotten`), a stopped daemon end (`StopEnds`)? | 2 runs of `serve_forever`, 1 connection |
| `stream` | Does a chunk keep what the views in use were decoded from (`SampleStable`), does iceoryx2 refuse nothing (`NeverRefused`), are samples measured in order (`MeasuredInOrder`), does the subscriber end (`SubscriberEnds`)? | 3 chunks, 1 warm-up sample, 4 measured, 3 wanted |
| `channel` | Does a thread meet only its own response (`OwnAnswer`), is a request executed at most once (`ExecutedOnce`), is the parent's connection used by one of its threads at a time and by no child (`StreamsApart`); do calls return (`CallReturns`) and workers end (`WorkersEnd`)? | 2 threads and 1 of a child, 2 requests, 2 connections |
| `chain` | Does each byte hold what the stages added, also where the sink checks it (`SlotHoldsItsStages`), is each frame in one place (`OneCopy`), does no send wait (`SendNeverWaits`), does every frame arrive that was not lost with a process or a socket (`AllArrive`)? | 2 producers of 2 and 1 frames, 2 stages, bytes modulo 3, 2 crashes or expiries |
| `mapping_spurious`, `vineyard_transposed`, `channel_interrupt`, `channel_fork_close` | one disagreement each, see section 6 | |

Why the bounds are enough to be interesting.

* Codec: a frame of 4 makes manifests that exactly fill a frame, leave a gap, or need a
  second one; arrays of 0, 1, 2 and 3 bytes exercise the alignment gap. Two calls on one
  buffer are needed and enough for stale content: a call sees only what the one before it
  left. The array views lie ahead of, at and behind the place they are copied to. The
  containers from elsewhere take every header field to both sides of each comparison, and
  every pair of leaves that are accepted or fail one check each.
* Vineyard: two ids and two addresses let an id be deleted and its memory be given to the
  other, with an old view in another stage's table. Stages, addresses and contents are
  interchangeable (`SameStages`); ids are not, since `FreshId` takes them in order.
* Mapping cache: a cache of one entry and two objects evict each other on every open; a
  third mapping lets a thread hold one that was evicted while another opens the same object
  again. `SameThreads` is sound because no definition chooses a thread; `LifetimeSpec`
  has no liveness part.
* Registry: a worker that reads a number, a worker that deletes and then creates, and the
  closing of the daemon give a number that names another object's memory when it is
  duplicated. Three tokens make a chain of grants of length two; time 0..1 has a before
  and an after, and the clock may go back.
* Lifecycle: the second daemon is a second start after a crash, a second start after an
  orderly end, or a rival on the path. Each connection is independent of the others but for
  the loop, which has one in hand at a time, so one is enough for every interleaving of a
  connection with the steps of the daemons.
* Stream: with three chunks one is on loan, one in the buffer, one borrowed: the tightest
  pool that works. One warm-up sample separates the two numberings; four measured samples
  where three are wanted let one be replaced.
* Channel: two requests suffice for a response to meet the wrong one, and two threads with
  a forked one for a lock to matter. `MaxRequests`, `MaxLinks` are bounds on histories.
* Chain: two frames of one array and two producers put different frames in every socket at
  once; a `Loop` of 3 lets a stage end by itself. Bytes wrap (modulo 3) so that the mask
  matters. `MinHwm` is 1 where the code has 4:
  with 4, no small run would reach a high-water mark.

`CHECK_DEADLOCK FALSE` is in every configuration because every system here may really
stop: bounded calls are used up, tokens and ids are drawn, processes have ended.

The type invariant of a module is checked as a conjunct of one property of its run
(`OneCopy`, `SameArray`, `StreamsApart`, `NoConnectionLeft`, `CacheAgrees`,
`NoDescriptorLeak`, `SampleStable`).

Every property of a passing run has a mutant of a mapped definition under which TLC finds
it violated.

## 4. Fairness

Safety runs use none. The others assume:

* `MemoryReleased`: weak fairness of `Closer` (the thread in `Registry.close`) and of
  `Finish(w)`, the steps of a worker that cannot block (`Register`, `CloseFd`, `ClearFd`).
  Nothing is assumed of clients: they need not send requests or read answers.
* `CallReturns`, `WorkersEnd`: weak fairness of a thread inside a request, whose reads
  either return or time out because the socket has a timeout, and of `Handle` and
  `WorkerEnds` (a worker notices the end of file on a connection that was shut). Answering
  is not fair: a daemon may hang. The lock needs no strong fairness, because the number
  of requests is bounded.
* `AllArrive`: weak fairness of each process, starting it included (the user starts each,
  and starts a stage again), and of delivery by ZeroMQ's I/O threads. Linger never has to
  expire, nothing has to crash.
* `StartServes`, `NoClientForgotten`, `StopEnds`: weak fairness of the thread that runs
  `serve_forever` (`accept` and `join` have time-outs), of the thread inside `shutdown`, of
  main after an interrupt, and of a worker's steps that cannot block. A worker that waits
  for a request is not fair: its client need not send one. No daemon has to be started or
  stopped.
* `SubscriberEnds`: weak fairness of each of the two programs. Nothing has to be killed.

`CallReturns` excepts calls on a lock that a fork copied while another thread held it (the
holder `Ghost`): in the child such a call does wait for ever.

## 5. The theorems

Every invariant a passing run checks is also a theorem, and so are the action property
`NoRequestAfterClose` and the refinement `LifetimeSpec`. All are checked by TLAPS down to
their leaves, for every value of the constants that meets the named assumptions
(`ContainerAssumption`, `CodecAssumption`, `EncodeDecodeAssumption`, `VineyardAssumption`,
`MappingCacheAssumption`, `RegistryAssumption`, `SampleStreamAssumption`,
`LifecycleAssumption`, `ChannelAssumption`, `ShmChainAssumption`). One theorem,
`AnswersItsRequest`, also has the hypothesis `OneChild`: a forked child has one thread. With
more, two threads of the child may meet on its connection, see section 6.

* **CodecProofs**, the encoder. It starts with facts about `align_up` and the layout
  (`AlignUpFacts`, `LayoutFacts`). `TypeCorrect` strengthens `TypeOK` with "the model is one
  of `Models`" and "views lie in the buffer". `DisjointArrays` adds how `cursor` and
  `prevEnd` bound the arrays walked and copied (`LayoutInv`). `NoStaleBytes`,
  `SlackIsUntouched` and `FailureMixesNothing` come from `BufferInv`: at each step of the call,
  which prefix of the buffer is already as in the finished container (`Front`, `GapsZero`,
  `Copied`), that the rest is untouched, and which header fields are written. The
  strengthening is needed because the properties only speak of finished or failed calls.
  `FinishedDecodes` (`RoundTrip`) adds what the walk makes of each leaf (`ManifestInv`): the
  place of an array in the container, an object of the store with the contents the leaf had,
  or a plain entry. It joins this with `Copied`, which says, for models whose views lie
  ahead of their places, that the bytes of an array are those the leaf had.
* **CodecProofs**, the decoder. `ViewsStayInside`, `StoreIsAskedRightly` and
  `TypedDecodeIsComplete` hold for any buffer. They rest on what has been checked by the
  time of each step (`Checked`), and on one lemma of arithmetic: an accepted reference of an
  accepted header ends in its data section (`AcceptedIsInside`).
* **CodecProofs**, both. `OwnContainersDecode` (`EncodedIsAccepted`) goes through the checks
  of a decode of the encoder's own buffer; every entry is one `FinishedIsAccepted`
  describes or comes from the application, and what was left unresolved had no store
  (`OwnInv`). `PairDecodes` shows
  that the decoder in `EncodeDecode` implements `DecodeSpec`, so the theorems about the
  decoder hold in the composition the run checks.
* **VineyardStoreProofs**. `ReferenceNamesTheArray` needs that an object in circulation
  was stored with one shape (`Named`), that a view comes from such an object (`Decoded`),
  and that a key of `_resolved_refs` leads to a reference in circulation that has its shape
  and, as long as the object exists, its address (`Keyed`). An entry of a deleted object may
  still match a view of a new one; the reference it gives names an object that is gone, of
  which `SameArray` says nothing.
  `DecodedIsSentAsItself` is a part of the same invariant.
* **MappingCacheProofs**. `LiveObjectsAreMapped` and `LeasesAreCounted` are proved
  together: a mapping closes at count zero, and zero means "no live object" only while the
  count is exact; exactness needs that an object inside `close()` is live and has one closer
  (`Closing`). `CacheAndFlagsAgree` needs that the dict holds no mapping twice and one per
  object, also after an eviction: filtering a sequence keeps its order (`Increasing`).
  `NoMappingIsOrphaned` needs that a mapping on its way into the cache is open and in one
  thread's hand (`InHand`). `CacheImplementsLifetime` is the refinement: each action of `MappingCache`
  changes the users of its mappings, and attaches or closes them, as `Change` and
  `Attach` of `MappingLifetime` allow, or stutters.
* **RegistryProofs**. `GrantsNarrow` needs that the ancestry of a token is issued and
  bounds it, where a NaN among the grants in between ends what is known of the deadline;
  the two memory theorems need who owns a descriptor at each moment (`Names`: an id is
  drawn once; `Stages`: an object is on its way out in one place only; `Memory`,
  `Answers`: numbers of registered objects and of answers are distinct).
  `DescriptorsHaveOwners` turns this round (`Owned`): an open descriptor is that of the
  object in `table`, and this object is registered, on its way in or out, or an answer's.
* **ServerLifecycleProofs**. `AloneIsReachable` needs that two runs of `serve_forever` that
  overlap have met, and that one which met no other owns the path from `bind` on (`Alone`).
  `CleanupClosesConnections` and `ClosedRegistryGetsNoRequest` need where a connection is at
  any step (`Links`, `InHand`): one that waits has a listener, an open one is listed or in
  the hand of the loop, which has one at most and has not given it a worker. What an
  interrupt takes out of reach is named (`CaughtBetween`).
* **SampleStreamProofs**. `ViewsAreStable` and `PoolSuffices` come from who uses a chunk
  (`Users`: the loan, the buffer and the subscriber have one each, never the same),
  `MeasuredOnceInOrder` from the order of the runs that are counted, in hand, in the buffer
  and still to come (`Order`).
* **ControlChannelProofs**. `OneInTheStream` rests on who holds which lock in the parent
  (`Holders`), on what a connection in use is (`InUse`), and on no child using or keeping
  the parent's (`Apart`). It holds for any number of threads in the child.
  `AnswersItsRequest` rests on what is on a connection a client may use (`Stream`):
  nothing, or one request, its response, or the worker that has it, and then one thread of
  that client waits for it. It needs that no two processes use one connection (`Owners`):
  a connection inherited by fork is dropped before it is used. `CarriedOutOnce` counts
  where a request is (`Once`): in one frame at most, and not carried out as long as it is
  in one; this too for any number of threads in the child.
* **ShmChainProofs**. `ChainInv` says which messages a socket and a process may hold
  (`Sorted`), where the processes are and how many frames they have left (`Control`), that
  what is in a socket and what its sender may still send fit below the high-water mark
  (`Room`), and that every frame has one home, a socket, a process, gone, or yet to come,
  with the byte that belongs there (`Housed`). `SendsNeverWait` follows from the room, the
  other two from the home: a frame of which a crashed stage had changed the byte is lost,
  and no stage meets it again.

Out of the prover's reach and only model-checked: `MemoryReleased`, `CallReturns`,
`WorkersEnd`, `AllArrive`, `StartServes`, `NoClientForgotten`, `StopEnds` and
`SubscriberEnds`, which are liveness under fairness.

## 6. Where code and text disagree

Shown by a run that finds the violation:

* `channel_interrupt`: a `KeyboardInterrupt` or another exception raised by a signal
  handler between send and receive is none of those `_request` catches; the connection
  stays in use with a response on its way, and the next request returns it as its own
  (`client.py:250`, against "strict request/response stream", `client.py:243`).
* `channel_fork_close`: the first request of a forked child closes the connection it
  inherited, which shuts down the socket it shares with its parent (`client.py:217`,
  `transport.py:39`, against `client.py:212-213`). `Client.close` in a child does the same
  (`client.py:482`); the property leaves that out, as the comment is about requests.
* `mapping_spurious`: `open` takes its lease after the cache lock is released; an
  eviction in between makes it fail with "shared-memory mapping is closed"
  (`client.py:417`, against the promise of thread safety, `client.py:243-244`).
* `vineyard_transposed`: the key of `_resolved_refs` has no strides, so the transpose of a
  decoded square array is sent as the array that is not transposed (`_vineyard.py:103`,
  against "Exact ndarray views", `_vineyard.py:62`).

Met while modelling, visible in the models as the exception a property names, without a
run of their own:

* A dict whose only key is `$blob` or `$bin` is encoded as it is and may be refused by
  `decode` or read as a reference (`_codec.py:81`), and a `BlobRef` is written without a
  look at its store or its sizes, which `decode` checks (`_codec.py:78-79` against 334-338).
  Both are `GivenLeaves`, excepted in `EncodedIsAccepted`.
* If `np.ascontiguousarray` finds no memory for the copy of a strided array, the buffer has
  the header and the manifest of the new container over data that is not (`_codec.py:297`;
  the third case of `FailureNeverMixes`).
* `encoded_size` with a blob store copies large arrays into it (`_codec.py:61`, against
  "inspected but not copied", `_codec.py:201`); `WalkExternal` does the same.
* A 0-d array comes back with shape `(1,)` (`_vineyard.py:145`; excepted in `SameArray`).
* If `mmap.close` meets an exported view, nothing closes the mapping when the view is gone
  (`client.py:47`; `pinned` in `NoOrphan`).
* In a forked child the lock is replaced while it is held, so a second thread of the child
  may enter (`client.py:220`). `StreamsApart` speaks of the parent's connection only, and
  `AnswersItsRequest` assumes one thread in the child, as the run has.
* `expires_in` may be NaN, which passes the check for positive numbers and survives the
  `min` with the issuer's deadline: the token never expires, whatever its issuer's did
  (`registry.py:149-157`; `Endless` in `DelegationBounded`).
* Revoking a token does not revoke those granted from it (`registry.py:160-168`); no
  property says that it should.
* A daemon that stops unlinks whatever is on its path, also the socket of a daemon that was
  started there meanwhile (`server.py:191`; `met` in `ReachableAlone`).
* A `KeyboardInterrupt` between `accept` and `_register_connection` leaves a connection that
  `_cleanup` and `shutdown` do not know (`server.py:94`), and one between `listen` and the
  assignment of `_socket_listener` a listening socket with what waits there
  (`transport.py:149`, `server.py:90`). Both are `CaughtBetween` in `NoConnectionLeft`; the
  end of the process closes them.
* A worker thread that could not be started stays in `_threads`, and joining it raises
  RuntimeError at the end of `_cleanup` (`server.py:74-76`, 198-199; `SpawnFails`, `Join`).
* An `open` whose object is deleted between `validate` and `os.dup` may be answered with the
  memory that took the number over (`server.py:291`, `backend.py:36`); `AnswersOwnMemory`
  speaks of objects that are still registered.
* A request that is being handled when the daemon stops may register an object after
  `Registry.close` (`registry.py:83`); `NoDescriptorLeak` counts it as registered, and its
  memory stays until the process exits.
* The huge-blob subscriber waits for ever when a faster publisher has replaced too many
  samples (`subscriber.py:87`; the count of `missed` in `SubscriberEnds`).

## 7. Not modelled

* The Windows backend, named pipes and the daemon's loop over them: they depend on the
  Windows pipe server, and have no descriptors to race for.
* `persist` and `release` of the Vineyard store, which act inside the daemon only.
* `schema_identity`: a pure function of a class and its module, of which the codec needs
  that equal classes have equal ids.
* The text of JSON, dtype strings and UUIDs: pure conversions.
* Argument parsing, printing and timing statistics; the benchmark and `basic.py`.
* The descriptors of a client that are lost when a connection ends in the middle of a frame
  (`protocol.py:103`): `ControlChannel` moves whole frames.
* Several threads of a forked child among themselves, and a fork while the cache lock is held
  (`client.py:218`).
* Finalization of a `SharedObject` by a garbage collection inside `_MappingState`'s lock
  (`client.py:32`): it depends on where the interpreter runs its collector.
* A second thread inside `SharedObject.close` of one object (`client.py:155`): nothing
  documents a `SharedObject` as shared between threads.

## 8. Plan

The order was: the codec and the mapping cache, the registry, the control connection, the
two pipelines, then the daemon's life cycle, the huge-blob example and the decoder, each
with its run; then the theorems, one component after the other, until every invariant of a
run had one. What could follow:

* An abstract specification of the control connection (a call returns its own result once,
  or fails) and of the registry (a set of objects, each with its memory), with refinements
  from `ControlChannel` and `Registry` that are proved as `CacheImplementsLifetime` is.
* A specification of a pipeline that sees only frames and where they are, which `ShmChain`
  implements: `Housed` has the refinement mapping.
* A forked child with several threads and with the cache of its client.
