# Verification of biei and ishikari

The repository holds two map servers. *biei* renders static map images and
raster tiles with MapLibre Native, in a cluster whose nodes forward requests to
each other; *ishikari* serves vector tiles out of PMTiles archives in object
storage. This directory holds TLA+ models of the parts that carry their
concurrency: how work is admitted, shared, forwarded, abandoned and given back.
Paths below are relative to `src/`.

## 1. Inventory

| Part | State it keeps | Operations | What makes it hard |
|---|---|---|---|
| Renderer slot pool, `crates/biei-core/src/worker_pool.rs` | queue depth of each slot; predicted style, its generation, use time and sources; a channel per slot | `process`, `reserve_best_available`, `try_reserve`, `mark_loaded`, `clear_loaded*`, drop of a completion, `shutdown` | the scan, the reservation, the prediction and the send are separate steps; callers are cancelled at any await |
| Worker loop, `crates/biei-core/src/worker.rs` | its warm style, its cache of sources, two permits | `worker_loop`, `run_stages`, `acquire_permit` | every stage can fail, time out or panic, and what it leaves must agree with the actor |
| Native renderer, `servers/biei/src/renderer/actor/backend.rs`, `protocol.rs` | active renderer, loaded document and revision | `load_profile`, `render`, `reset_loaded_state` | a second record of what the worker records too |
| Renderer actors, `renderer/actor/protocol.rs`, `supervisor.rs`, `renderer/maplibre.rs` | threads, an atomic status per thread, orphan counts, availability | spawn, abandon, replace, retire, drop, thread exit | a native call cannot be interrupted; slot and thread race for the status |
| Output cache, `crates/biei-core/src/render_cache.rs` | entries with their required namespaces, a sharded map of flights | `lookup_or_join`, `recheck`, `insert_from_outcome`, drop of a leader | two lookups around a lock, check-then-insert without one, wake-ups |
| Node, `crates/biei-core/src/node.rs`, `servers/biei/src/http/internal.rs` | the calls in progress | `handle_incoming`, `handle_forwarded`, `process_local_route`, `forward_with_failover` | lost answers, deadlines, peers that go on rendering |
| Dispatcher, `crates/biei-core/src/dispatcher.rs`, `hrw.rs` | none | ranking of candidates into tiers | stale views; every node has to come to the same order |
| Gossip, `node.rs` (publisher), `types.rs` (pairs), `crates/mmpf-cluster` | what was sent last, versioned pairs, a readiness gate | publish, encode, decode, drain, observe | a state arrives pair by pair; the publisher is aborted at its awaits; probes race for the gate |
| View cache and membership, `node/view_cache.rs`, `servers/*/src/membership.rs`, `storage/peer.rs`, `crates/mmpf-cluster` | a cached view with an epoch, a peer snapshot, an address table, a loading flag for each | load, wait, expire | a loader dropped at its await; epochs that move during a load |
| Drain, `servers/biei/src/drain.rs` | an accepting flag and a count, two atomics | acquire, drop, begin, wait | memory order between the two; a signal that stores nothing |
| Process shutdown, `servers/biei/src/runtime/run.rs`, `http/adapter.rs`, `crates/mmpf-http/src/serve.rs` | a deadline, a stop flag, the coordinator's task | signal, drain, stop listeners, finish, close | renders outlive their clients; three graces race |
| Chunk fetches, `crates/ishikari-core/src/storage/chunked_store/coordinator.rs` | pending and in-flight chunks, waiters, fetch count, a Notify | `fetch_chunks`, `run_scheduler`, `complete_group`, removal | overlapping groups, a scheduler that stops and starts, throttling |
| Peers, resolver and archive reader, `crates/ishikari-core/src/storage/peer.rs`, `resolver.rs`, `pmtiles/reader.rs`, `cache.rs` | tile, archive and absence caches, a flight per archive, back-offs | routed reads with fallback, bootstrap from peers | flights of two nodes that wait for each other; absence that is cached; different views |
| Auth registries, `crates/mmpf-auth` | snapshots, installed revisions, cool-downs | `snapshot`, `refresh`, `defer_failed_refresh` | revision checked and installed in two critical sections |
| File source, `crates/mmpf-mln-filesource` | shared and negative cache, flights, lanes, retries, provider evidence | database lookup, fetch, retry, join, abort | a reference count decides whether a result is published; a leader is dropped at any await |
| Provider cache, `servers/ishikari/src/server/upstream.rs`, `upstream/fetch.rs` | entries with two windows, failed revalidations, flights | get, put, revalidate, fetch | what was observed before an election is stale after it; cool-downs are read and removed in two steps |
| PMTiles directories, `crates/mmpf-pmtiles` | none | decode, search, walk | untrusted numbers, leaves that lead back |
| Single flight, `crates/mmpf-common` | a map of watch channels | begin, wait, drop | success is the absence of a value |
| Terrain, HTTP parsing, overlays, options, metrics, simulators | sequential or write-only | | not concurrent |

How they interact: an HTTP request becomes a task of the node. It looks its key
up in the output cache (1) and hits, follows a flight, or leads one. A leader is
routed (2): to the local pool or, as a forwarded call over HTTP, to a peer,
where the same happens once more with forwarding switched off. The pool (3)
reserves a slot and sends a command; the worker (4) sets the style up and
renders by calls to its actor (5), a thread around the native renderer; when a
reply misses its deadline the slot abandons the thread and gets another one.
Resources that the renderer asks for come through the file source (6), whose
tiles ishikari serves: there a tile is read from the node's cache, from the peer
that ranks first for it or from the archive (7), whose index nodes pass to each
other, and what the archive reader lacks it asks of the chunk coordinator (8).
Every request is authorized against a registry (9) first, and routed over a
snapshot of the cluster (10). The process around all this admits requests under
a drain controller and closes down in order (11).

PROJECT.json lists the components with what is modelled of each, and the
hazards, each at its line.

## 2. Modules

| Module | Models | Built on |
|---|---|---|
| `RustOption` | `NoVal`, the absent value | |
| `WorkerPick` | `pick_score` and the choice of a slot, as operators | |
| `RunContract` | what one run of a worker may do to its warm style | |
| `WorkerPool` | the pool with its slots' loops; a run is any outcome of `RunContract` | `WorkerPick`, `RunContract` |
| `RendererBackend` | what a load and a render do to the native renderer, as operators | |
| `Worker` | the stages of a run, permits, deadlines, the actor's replies | `RendererBackend`, `RunContract` |
| `RendererSlot` | threads, status, orphans, replacement, availability, drop | |
| `OutputCache` | entries, grants and authorization, as operators | |
| `FlightContract` | abstract specification: lookup and election in one step | `OutputCache` |
| `RenderFlight` | the cache as coded | `OutputCache`, `FlightContract` |
| `Forwarding` | a cluster of nodes over `FlightContract` | `FlightContract` |
| `ChunkRanges` | `contiguous_chunk_ranges`, as an operator | |
| `ChunkFetch` | the coordinator of one tileset | a plan, `ChunkRanges` in its run |
| `SnapshotCache` | cluster view, peer snapshot and address table: one scheme of three caches | |
| `NodeLifecycle` | drain controller, shutdown coordinator, listeners, main task | |
| `AuthRefresh` | the registries of `mmpf-auth`: snapshots, revisions, flights | |
| `FileSource` | database and network file source for one resource | |
| `TileRead` | one tile of one archive, read through a cluster | |
| `ProviderCache` | the tile server's cache of styles, glyphs and sprites, for one resource | |
| `DirectoryWalk` | decoding of PMTiles directories, search and walk, as operators, and what a read promises | |
| `Dispatcher` | the tiers, the ranking and the eviction order, as operators of a view and a task, and what a decision promises | |
| `WorkerPoolProofs`, `WorkerProofs`, `RenderFlightProofs`, `SnapshotCacheProofs`, `AuthRefreshProofs` | theorems about the module they are named for | |
| `NodeProofs` | theorems about a node, as a process and as a member of a cluster | `NodeLifecycle`, `Forwarding` |
| `RendererProofs` | theorems about two independent parts of the renderer | `RendererSlot`, `FileSource` |
| `TileServerProofs` | theorems about three independent parts of the tile server | `ChunkFetch`, `ProviderCache`, `TileRead` |
| `MC...` | instances for TLC; `MCProcess` runs three parts of a node side by side | `SnapshotCache`, `RendererSlot`, `NodeLifecycle` |

Composition is by contract. `WorkerPool` takes the runs of its workers from
`RunContract`, and the runs of `Worker` are shown to keep it
(`KeepsRunContract`). `Forwarding` takes the caches of its nodes from
`FlightContract`, and `RenderFlight` is shown to implement it
(`KeepsFlightContract`, model-checked and proved). `Forwarding` takes any plan that
has the shape `Dispatcher.PlansAsForwarded` states, and the plans of `Dispatcher` are
checked to have it.

Definitions named `X_...` under a comment that begins with *Faulty* are
plausible bugs of the definition `X` below them. PROJECT.json says which
property each one breaks; nothing else uses them.

### How state and actions correspond to the code

An action is what happens between two points where another task or thread may
run: up to an await, a lock, or an access to an atomic that others access. What
is under one mutex is one step.

* **WorkerPool.** A call goes `Submit`, `Scan`, `TryReserve`, `Mark`, `Send`,
  `Answer`: the phases of `process`. Cancellation between any two is
  `CancelBeforeSend` and `CancelAfterSend`. A `WorkerCompletion` is *outstanding*
  from its reservation until it is dropped, by the caller, the worker
  (`Release`) or the channel (`DropQueued`). `shutdown` is a record that goes
  slot by slot. The variable `reordered` is auxiliary: it says that two commands
  of a slot were sent in another order than they were marked.
* **Worker.** The program counter `at` names the stages of `run_stages`.
  `native` is the actor's record, `current_profile` the worker's; a reply that
  never comes is `ReplyTimeout`, after which the actor is replaced. A document is a
  revision for a partition of the credentials. `warmed` and `lost` are auxiliary: the
  keys for which the loaded profile was set up, and the error that last emptied
  the actor under a worker that counts as warm.
* **RendererSlot.** Every access to the status, the supervisor's map and its
  counters is a step. Thread identities are used again once a thread has gone.
  Counters are taken modulo `UsizeModulus`, as `usize` wraps.
* **RenderFlight.** The phases `get`, `lock`, `elect` are the two lookups
  and the election under the shard's lock; `check` and `insert` the two steps of
  `insert_from_outcome`; `remove` and `signal` those of the leader's drop. The
  lock is per key, not per shard: keys of one shard only wait for each other.
* **Forwarding.** A request `i` is the call `<<i, 0>>` where it enters, and the
  call `<<i, n>>` at the peer of its `n`-th attempt. Forwarded calls are tasks of
  their own, as in the HTTP handler: the origin's timeout does not stop them.
  `Route` takes any decision `materialize_candidates` can take. Deadlines are
  three levels: ample, short of the forward budget, over.
* **ChunkFetch.** `channel` is the receiver's side of the oneshots, `waiters` the
  sender's. `Settle` is the end of each critical section that may remove the
  state. `Stop`, `Throttle` and `Dispatch` are the three outcomes of a
  pass. Reservation of a backend permit may succeed or fail at any time, since
  all tilesets compete for them.
* **SnapshotCache.** `cache` says which of the caches a behaviour is about; they
  differ in what is usable, in the epoch test and in the deadline. Storing the
  snapshot and clearing `loading` is one critical section, notifying another
  step. "plain" is a bus whose `view_epoch` is the default, constantly zero: that
  of production. A view is then only as fresh as its TTL, which is what
  `ViewsCurrent` leaves out.
* **NodeLifecycle.** Every access to the two atomics is a step. The coordinator's
  store of `accepting` becomes visible at `StoreVisible`, at the latest with the
  next read-modify-write of its thread. A request is its handler until the render
  is spawned, and then the render; `client` is the connection, a task of its own that
  outlives the server future. The main task is `run` from the listeners on.
* **AuthRefresh.** `installed` is `installed_revisions`, compared and written in
  two critical sections; a document is a revision with a body. `floor` is
  auxiliary: what was given out before a call began.
* **FileSource.** The request goes through the database lookup, the deferral of a
  fresh entry, the negative cache and the flight; a leader through attempts,
  headers, body, back-off and completion, each under its permits. A flight is an
  allocation whose reference count `strong_count` reads off `holds`. Freshness,
  the retry window and slowness are flags and counts in place of times.
* **TileRead.** A request is a stack of frames, the innermost first, across nodes;
  a call to a peer pushes a frame there. What is one critical section or one
  moka operation is one step, except that `put` and the drop of the leader's guard
  are one: between them a caller finds the archive cached, and does not look at
  the flight. The frames of a call that was given up end with it; a handler that
  went on would only fill the caches of its node, as another request does.
* **ProviderCache.** A request goes `Lookup`, `Elect`, `Recheck`, `FetchEnds`,
  `CloseFlight`; a stale hit returns what it has found and goes through
  `spawn_stale_revalidation` first, where reading a cool-down and removing it are
  two steps. The spawned `task` holds the flight in the place of the request and
  cannot be dropped. The answer and its storing are one step, since only the holder
  of the flight stores. `confirmed` is auxiliary: when the origin really said
  what an entry holds. `origin` is fixed: over HTTP an answer's age counts the
  transfer, from an object store no time under way is counted at all (`fetch.rs:342`,
  `fetch.rs:408`), so that an answer may have been confirmed up to
  `PROVIDER_FETCH_TIMEOUT` before its lifetime starts. One key: the pool of fetches,
  which other keys share, is one more way for a fetch to fail.
* **DirectoryWalk.** A directory is its four columns of varints. Where the binary search
  may meet any of several equal ids, the result is a set. Integers have the scaled-down
  limits `U64_MAX` and `U32_MAX`. The cache of decoded leaves is left out: an
  archive's identity includes its generation, so a leaf does not change.
* **Dispatcher.** `decide_view` gives the decisions that may be made for a view, the own
  pool and a task. A random draw is any draw; rendezvous weights are a given function,
  with ties; the order in which a HashMap is walked is an argument.

### Assumptions about what is underneath

Channels of tokio are FIFO, a dropped sender wakes its receiver, `watch` keeps
the last value and `Notify` one permit; semaphores are never closed. A `u64`
generation does not wrap. A mutex section is atomic; so is the scan of a pool,
which only orders candidates. Times are compared through a logical clock.
A panic of `reset` in the actor is not considered. Style failures remembered by
the catalogue are covered by `PrepareProfile` failing at any time. An HTTP answer
that cannot be read, a timeout and a peer whose task panicked are all a lost
answer.

## 3. Runs

| Run | States | Shows |
|---|---|---|
| `pool` | 205 990 | two calls in every interleaving with cancellation and shutdown, and a crowd of five for four places: exact admission, predictions, a drained shutdown, everything ends |
| `worker` | 198 335 | one worker through all orders of styles, modes, credentials and sources with every failure, or two for one render and one native permit |
| `worker_credentials` | violated | the same requests: is a completed request drawn in the document of its own credentials? |
| `worker_records` | violated | the same requests: does a worker that stays warm after a failure have a loaded actor? |
| `process` | 292 159 | three parts that share no state, one moving at a time: a slot through time-outs, replacements, failed spawns and its drop; two callers of each of the caches of the cluster, with three changes, expiries, deadlines or drops; three requests against a shutdown, a failing listener and every grace |
| `flight` | 80 164 | two callers of every grant for one key, with the contract and wake-ups |
| `forwarding_failover` | 446 833 | one request, two nodes, two candidates, every failure; before it, `RoutingSound`: the dispatcher on every small view |
| `chunk_fetch` | 27 965 | two reads over four chunks and two slots |
| `auth_refresh` | 218 112 | two callers over two registries with one load permit, documents of two revisions and two bodies |
| `file_source` | 321 066 | two requests for one resource through every failure, drop and expiry |
| `tile_read` | 274 257 | two requests at two nodes that rank differently for the tile and the archive; before it, `ArchivesRead`: reads of every small archive |
| `provider_cache` | 526 713 | two requests and a revalidation of one provider resource, either kind of origin, any answer of it, drops, evictions, a clock |

**Bounds, and why they are enough.** *Pool:* two slots of two places; the mode
`Pair` takes two calls through every interleaving, the mode `Crowd` fills all
places and lets two calls race for the last. Any number of calls, slots and places
is proved. *Worker:* its state depends on the
last set-up and on the next request, so two styles, two modes, two credentials
and three sources against a cache of two include every kind of switch. *Slot:*
the orphan budget of a slot is one, four thread identities allow an orphan, the
current actor and one thread on its way out of each. *Flight:* a leader and a
follower; the grants are none, one namespace and every namespace; any number of
callers and grants is proved. *Forwarding:* two candidates are what the dispatcher
gives by default, so that a failover, a failing failover and local overflow all
occur. *Chunks:* chunks 1, 2, 3 can be covered by one range across a gap and 6
cannot, so one read overlaps the other's group, and with two slots it is also
throttled. *Snapshots:* a loader and a waiter; three turns are a change during a
load, a drop, and a change during the load that replaces it. *Lifecycle:* two
requests hold the ingress permits and a third meets the full limit or the place
that is freed while the node drains. *Auth:* one load permit for two registries, so
that the permit is refused; two turns make a rollback after an eviction, or a
drop and a republication. *File source:* a leader and a waiter, each permit pool
at its limit with one user, a retry window of two attempts, so that one failure is
retried and two end the sequence. *Tiles:* two nodes, of which each ranks first for
one of the two resources, so that each may lead and ask the other; one turn on
top of any number of failures and time-outs. More turns only repeat the cases.
*Provider cache:* a leader and a follower, or two stale hits; an answer and the one
that replaces it; policies with a stale window, with a lifetime nobody declared, and
no-store; a clock of two, long enough for both windows and a cool-down within them, and a
transfer that takes as long as a window.
*Directories* (`ArchivesRead`): roots of up to three entries and leaves of one, with runs of
zero, one and more, equal ids, implied offsets, entries that end past their section,
sums past `U64_MAX`, and leaves that name themselves; two levels of leaves.
*Dispatcher* (`RoutingSound`, some 40 000 cases): three nodes, this one with two workers, two of equal weight; a limit of
two candidates cuts the third.
*File source* runs in the mode in which all
caches are used: networkOnly and volatile requests go the same way and skip them.

`RoutingSound`, `ArchivesRead` and `RangesSound` (in `chunk_fetch`) are assumptions that
TLC evaluates when their run starts: functions without state, against a reference that
says what they promise. Changing `Dispatcher` or `DirectoryWalk` at a limit, a
tie-break, a comparison or a filter makes them false.

`CHECK_DEADLOCK FALSE` is given where requests end for good (pool,
forwarding, auth, file source, tiles, provider cache).

**Fairness.** A spawned task is polled until it ends: weak fairness of the steps
of a worker, an actor's thread, a scheduler, a leader's drop. Locks are fair and
the operating system does not refuse threads for ever: strong fairness of
`SecondGet`, `RemoveFlight` and `SpawnReplacement`. A native call is assumed to return for the slot of `process` and not
in `worker`, where only the deadline ends it. A deadline comes. Nobody is
obliged to cancel, to shut down, or to submit. A follower of a flight is *not*
assumed to reach its deadline. In `chunk_fetch` a fetch ends (it has a timeout).
In the shutdown of `process` synchronous code runs, the coordinator is polled and its timers fire,
while renders may hang and clients may stay. In `auth_refresh`, `file_source` and
`tile_read` the store, the provider and object storage answer or fail, because each
operation carries a timeout, and in `tile_read` `internal_peer_request_timeout`
ends a call to a peer. Each part of `process` is owed the fairness of its module, and only
while it is the part that moves. In `provider_cache` a fetch ends, because one deadline of 15 s
covers it.

Two liveness facts are weaker than one would wish, because the code is. In
`chunk_fetch`, `ReadsEnd` assumes that at some time no new reads come: while all
slots of a tileset are taken and reads of lower chunks keep coming, a higher
chunk is not selected, since ranges are taken in order. In `flight`, a woken
follower may find a new leader each time, so that it is woken but not served;
its deadline bounds that.

## 4. Theorems

Every invariant and every action property that a passing run checks is also proved, for every
value of the constants under the named assumptions of the modules. Those say that sets of
calls, slots and requests are finite where something counts them, that limits are at
least one, that `NoVal` and the other markers are outside the sets they are used beside,
that a profile is a pair, and that names of outcomes differ; a plan of chunks consists of ranges
(`PlanAssumption`), a ranking contains every node (`TileReadAssumption`), and counters
of the supervisor do not wrap within twice the number of slots (`SlotAssumption`). The bounds on
turns, answers, drops and time are constants like the others, so that what is proved
holds for any of them. Each proof has an inductive invariant, and TLC has checked that
invariant on the run before it was proved.

**WorkerPoolProofs.** `TypeCorrect`, `DepthExact`, `NoOvercommit`,
`ChannelNeverFull`, `CountsExact`, `LatestStands`. None is inductive alone. The
inductive invariant, `Accounting`, says where each outstanding call is (`CommandsPlaced`): a call that has sent is
in exactly one of the queue of its slot, `running` or `releasing`, and in the queue
once. From that, dropping a completion removes one element of `Outstanding`, so
that the counter follows its cardinality and cannot go below zero; the channel
holds distinct outstanding calls and at most one Retire (`RetiredOnce`); and a dispatch with
the slot's last generation is the only one with it (`GenerationsDistinct`), so that only its own end
withdraws its prediction. On top of it, `CompleteShutdown` (`CompleteShutdownIsDrained`)
adds that the slots a shutdown has passed over without detaching a worker have ended
with an empty channel (`Joined`), and `PredictionsComeTrue` (`OrderedPredictionHolds`) that, as long as
no two commands of a slot have overtaken each other, the channel is in the order of the generations and the
slot's prediction is that of its last command, or of the worker once none is left
(`Ordered`). The second needs what the code never says: a withdrawn prediction must have
belonged to the last dispatch, or a later one has replaced it.

**WorkerProofs.** `NoPermitLost`, `RunsKeepContract` and `WarmStateCorrect`, for any number of workers,
permits and sources, and any requests. The invariant is one of each worker (`Sound`): before its style is set up
the worker's record is that of the run's beginning and afterwards that of its request, so
that the end of a run is among `RunResults` (`StageOK`); the cache of sources has
no source twice and stays within its capacity (`CacheOK`); and the
actor's record of revision, renderer and document agree with each other and with the
worker's, which an actor without anything loaded can only have lost with a RenderFailed (`WarmOK`). What
is drawn is a document of one of the keys in `warmed`: the proof is of what the code does, and that the
key is the request's own is refuted by `worker_credentials`. A step of one worker moves nothing of
the others but the permits, which are counted by stage.

**RenderFlightProofs.** `TypeCorrect`, `OneFlightPerKey`, `RendersOnlyMisses`,
`RequirementStays`, `EveryFollowerLed`, `HitsAuthorized` and `FlightRefines`. The
key of the argument is that a flight excludes insertion by anyone else: an
entry appears only by a leader's `Insert`, there is one leader to a key, and it
was elected under the lock after a lookup that missed (`ElectionSafe`, `InsertionSafe`). So a leader's key keeps
missing until its own insertion; a resident entry is replaced only by one of
its requirement, although check and insertion are two steps; and a follower's
leader is in the map until it signals. `FlightRefines` maps the three lookup phases
to one, the entries to what they require and the signal to the removal of
the flight, and shows every step to be a step of `FlightContract` or a stutter.

**NodeProofs.** Of the process: `DrainCountExact`, `DrainStaysExact` (`DrainExact`) and
`WorkersClosedDrained` (`ClosesDrained`), for any number of requests and permits. `in_flight` is the number of requests
between their count and the end of it (`CountExact`); the coordinator's store of the flag is under way or visible from its
read-modify-write on and visible once the fence is passed (`FlagDown`); an outcome
is there exactly when the coordinator has ended (`OutcomeExact`). Of the cluster:
`WorkIsNotRepeated` (`WorkNotRepeated`), for any number of nodes, requests and candidates. `renders` is the number
of calls of a request that reached the native renderer, and `losses` that of exchanges
whose answer was lost (`RendersCounted`). The attempts of a request are made one
after the other, and before anything else is tried each of them is refused, lost, or
done without a render (`RequestSound`, `Settled`): so every call that renders except one
accounts for a loss of its own.

**SnapshotCacheProofs.** `NoCallerStranded` (`NobodyStranded`) and `ViewsStayCurrent` (`ViewsCurrent`), for any number of callers
and changes. Currency needs that tags are from the past: a call began, and a loader read
its tag, no later than the bus now is (`CallsArePast`, `LoadsArePast`); and a tag is read
before the state, so that what is stored under it is at least as new.

**AuthRefreshProofs.** `FlightsStayLed` (`FlightsLed`), `RegistriesOnlyAdvance` (`RegistriesAdvance`) and `InstalledOnlyAdvances`,
which no run checks: what is installed is never forgotten, and is replaced only by the
same document or one of a later revision. A registry has one leader, and while it is between its two critical sections
what it compared with is still installed (`Prepared`); the cache is behind what is
installed only while that leader is about to insert (`CacheCurrent`); and nothing that can
still be given out is behind what any request was given before it (`Ahead`).

**RendererProofs.** Of the slots: `OrphansStayBudgeted` (`OrphansBudgeted`) and `AvailabilityStaysExact` (`AvailabilityExact`), for any
number of slots and threads. The status of a thread says whether the slot owns it
(`ThreadsSound`), and the map of the supervisor counts the orphan that there is or the one
that is reserved, never both (`Counted`); only a slot that retires its thread tells it to stop (`StopSound`). Of the file
source: `NobodyIsStranded`, `GuardsStayExact` and `ErrorsArePatient`, for any number of requests, permits and
attempts. A request refers to a flight exactly while it leads or follows one, which makes the
reference count mean what `strong_count` is used for; a flight has one leader, its state
follows the leader's stage, and the map names its key (`FlightsInv`). What is handed out
counts its attempts (`AnswersInv`), and what the health tracker counts is late
(`LateSound`).

**TileServerProofs.** Of the chunks: `TypeCorrect`, `SlotsExact`, `EveryWaitServed` and
`ThrottleHasEnd`, for any plan of non-empty ranges (`PlanAssumption`). `NobodyStranded` is
not inductive: that a chunk belongs to an active group does not say that a group
which ends releases only its own waiters. The invariant goes through the marks:
whoever waits for a chunk has it queued or marked (`Served`), and a mark belongs
to an active group (`Marked`). A group that ends clears its marks and its waiters
together, also those an overlapping group shares. When the state is removed, the
exact count says that no group is left, so there are no marks and no waiters,
and nobody's sender is dropped. Of the provider cache: `ProviderAskedWhenNeeded`
(`AsksOnlyWhenNeeded`) and `ProviderAnswersCurrent` (`AnswersCurrent`), for any policies, either kind of origin and any
transfer time; its second half is of what is served from the cache, not of the answer that a flight hands to its own
leader and followers. The flight
has one holder, the request or the task (`FlightHeld`), so that only it stores; therefore the cached entry
is the last answer applied (`EntrySound`), and whoever holds the flight has that or an error (`Heard`). Of
the tile reads: `FlightsStaySound` (`FlightsSound`), `AbsenceStaysOut` (`AbsenceNotInvented`) and `FlightsWaitUpwards`, for any
number of nodes and readers and any ranking. A stack is sound (`StackSound`) when each frame is in a phase of its kind and was called by the one
below it; then only the two innermost frames can lead flights, and of different nodes (`TwoAtMost`), so
that dropping frames gives up exactly the flights they led. One lemma (`FlightStep`) then covers
every step: it says which flights it gives up and takes. That flights do not wait for each other comes from the
candidates: a node that sees itself, and is never backed off from itself (`NoSelfBackoff`), is in its own list, so whoever it
asks before it comes to itself ranks above it (`RouteGroupSound`, `Rising`); ranking above is an order (`AboveOrders`), so
chains of any length do not close either, of which the run only checks pairs. An absence can
come back only from the "not found" of object storage, and that is in a
reader's hands before it is noted (`RetSound`).

The runs check some of the invariants of these proofs in groups, and each group is a
theorem of its own: `AdmissionCorrect` and `PredictionsCorrect` for the pool,
`FlightsCorrect` for the output cache, `SlotsCorrect` for the chunks.

**Only model-checked.** The liveness properties, one or two of every run, which are out of the
prover's reach like ENABLED. What the functions of `Dispatcher`, `DirectoryWalk` and
`ChunkRanges` compute: they recur over their data, and induction over data is out of
reach too, so assumptions check them on small inputs (`RoutingSound`, `ArchivesRead`,
`RangesSound`). Nothing is proved of how good the slot is that `WorkerPick` ranks first.

## 5. What the checks say about the code

Admission is exact: no cancellation, failure or shutdown leaks a place of a
slot or gives one back twice. Predictions of warm styles are right as long as
the commands of a slot are sent in the order in which they were recorded;
`process` records under the mutex and sends after it, and two calls that
overtake each other leave a prediction that does not hold, until the slot's
next dispatch. It costs a style load, no correctness. A request is not rendered
twice unless an answer was lost. The supervisor's counts are exact while a slot
is in service. In the chunk coordinator a range that bridges a gap fetches
chunks again that another group is fetching, and the first of the two to end
releases the waiters of both, also with an error.

The caches of the cluster never strand a waiter: a dropped loader hands over,
and subscribing before the second look closes the race with a completion. With
a bus that counts epochs a view is never older than the call that gets it.

The drain is right, but by its surroundings: Release and Acquire on two atomics
allow the store of `accepting` to pass the load of `in_flight`, and then a node
that was found idle would still grant a permit. What prevents it are the locks
taken in between, of the gossip state and of the watch channel (`StopHttp`); a
drain controller used without them would not have the property. The mutant
`StopHttp_unfenced` shows the difference.

In `AuthRefresh` the two critical sections of a refresh are safe only because a
registry has one flight at a time. In `TileRead` flights of two nodes never wait
for each other while every node is among its own candidates, since a node only
asks nodes that rank above it; a node that drains drops out of its own view and
then may, until the timeout of the call.

Two runs show the code at odds with its specification. *Credentials*
(`worker_credentials`): `specs/biei-spec.md:590` says that native style state is
partitioned by credentials, "so identical style revisions prepared for different credentials
cannot remain warm across one another". The worker does set up again when only the
partition changes (`worker.rs:197`), but the backend then keeps the loaded document while the
revision is the same (`backend.rs:131`), and the request is drawn in the document prepared for
the credentials before. `DrawsOwnProfile` states what remains: revision, mode and scale are its own, and
the document was prepared for credentials that set up this same profile since the actor last had to load
another or lost it. *Records* (`worker_records`): `specs/biei-spec.md:230` says that errors which
invalidate native state "use one shared predicate so worker and actor state cannot disagree". The
actor also clears its state after a panic (`protocol.rs:340`), which is a RenderFailed, and the
worker keeps its record on RenderFailed (`worker.rs:192`): it goes on as warm with an empty actor, its next
request skips the set-up and fails with StyleNotReady, and that clears the record. `RecordsAgree` states
what remains: a loaded actor has what the record says, document included, and only a
RenderFailed leaves a record without one.

In the provider cache the re-checks after an election are what keeps an older
observation from undoing a newer answer, and a `no-store` answer does remove the body
before it. What it serves keeps to the windows of its policy but for time that the code
charges to nothing: how long an answer of an object store was under way, and the age of an HTTP
answer whose lifetime is the server's own. A PMTiles directory cannot lead a reader out of its sections or round in
circles. The dispatcher rejects only when nobody has a place, and its order does not
depend on how a map is walked, so that nodes with equal views agree.

## 6. Differences from documents and comments

Met while modelling and not kept as runs; what holds in spite of them is stated by
the properties:

* `NetworkFileSource::request` puts a request off whenever the shared cache holds a fresh
  entry, and in the end answers notModified without a body, because "The render already
  received this fresh body from Database." (`crates/mmpf-mln-filesource/src/source.rs:913`). The
  entry may be younger than the render's own database lookup. Then the render never got a
  body, waits for as long as the entry is fresh, at most the deferral's limit, and is told
  that nothing has changed;
* "so a partial gossip view simply yields fewer workers."
  (`crates/biei-core/src/types.rs:744`). That is so while pairs are missing. When a loaded slot
  changes its profile, a peer that has received the new mode and still holds the old style
  decodes a complete worker with a profile the slot never had, and routes by it until
  the rest arrives;
* a failed revalidation is installed "before completing the flight so the next stale hit
  cannot race the guard release and immediately retry."
  (`servers/ishikari/src/server/upstream.rs:739`). A stale hit that found the previous cool-down
  over, and was overtaken between `Allowed` and `Clear` of `ProviderCache`, removes the new
  one; the next revalidation starts at once. It costs one fetch of the origin;
* "Age accounting is only meaningful against an upstream-declared lifetime"
  (`servers/ishikari/src/server/upstream/fetch.rs:263`). A 200 is treated so, a 304 is not:
  `revalidated_provider_resource` charges its Age in any case. A body under the default
  lifetime with `stale-while-revalidate` alone, confirmed by a 304 with a large Age, is
  removed instead of renewed;
* when a slot is dropped, a thread may release its orphan count before it is
  reserved (`protocol.rs:277`); the total wraps or stays too high, against
  `specs/biei-spec.md:498`. `OrphansBudgeted` is about slots in service;
* two requests for one key may each lead at one node and follow at the other until
  their deadlines (`node.rs:507`), against the comment at
  `crates/biei-core/src/node.rs:44`;
* in the file source, a caller that joins a flight late is given the leader's
  transient error before its own retry window has passed (`PatientErrors` is about
  the flight's window); and `prior_response_with_cache` (`response.rs:138`) may put
  the etag of the request beside the body of the cache.

## 7. Not modelled, and the plan

Left out for good: drawing, cameras, encoding, terrain and binary formats, which
are functions of one input, most of them over floating point; HTTP parsing,
response headers and start-up, which have no state; metrics, which nothing reads;
simulators; the gossip protocol, which is a library. Left out so far are the publisher of a
node's gossip state with the encoding of worker states, and the readiness gate of a node
that starts. ishikari's own drain is one flag. `TileRead` has a fixed ranking;
leaf directories are part of its `ReadTile`, its archives are well-formed, and provider and derived
resources, which take the same path through peers, are left out.

What is mapped is a small part, below a tenth, of the lines of the repository. About a
third of its Rust lines are tests, many in the same files, and the largest parts
of the rest are those just named; the models go where state is shared.

What proofs could still add: that `WorkerPool` with its runs taken from `RunContract` and the
loops of `Worker` fit together as one refinement (`RunsKeepContract` is the half that
speaks of results); the same for the plans `Forwarding` assumes and those of
`Dispatcher`; and the ranges of `ChunkRanges` as a recursive function, for the parts of
`PlanAssumption` that need no induction.
