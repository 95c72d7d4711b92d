# Verification of the tile streaming, the compute graph and the render graph of Alpine Maps

TLA+ modules, TLC configurations and TLAPS proofs for the part of this repository that carries its
own concurrent logic: the streaming of map tiles from the network, over memory and disk, onto the
GPU (`src/nucleus/tile`, with the layers in `src/gl_engine` and `src/webgpu/engine` that consume it),
the graph of compute nodes (`src/webgpu/compute`), and the render graph (`src/webgpu/base/RenderGraph.cpp`)
with the pools of GPU objects that it keeps from frame to frame.

    tlc -workers 2 -config Scheduler.cfg MCScheduler.tla     # one of the runs below
    tlapm SchedulerProofs.tla                                # one of the proof modules below

`PROJECT.json` lists the runs, the source lines of every definition, the hazards and the theorems.
A comment "Mutant of X" marks a variant of the definition X that follows it, with a plausible bug;
nothing uses it except to test that the properties notice.

## 1. Inventory

The program shows a globe as a quad tree of tiles. A camera defines which quads (a quad is the four
children of a tree node) are wanted; a scheduler per data source (geometry, ortho photo, surface
shading, labels, avalanche reports, clouds) brings them onto the GPU. Everything is Qt: objects with
slots, signals, and threads with event loops. Schedulers and loaders live in one scheduler thread,
renderers in the main or render thread.

| Component | State | Operations | Interaction |
|---|---|---|---|
| `tile::Scheduler` | camera, memory cache, GPU cache, limits, enabled, network, three single-shot timers | `update_camera`, `receive_quad`, `set_network_reachability`, `set_enabled`, timeouts (update, purge, persist), `clear_full_cache`, limits | emits `quads_requested` to the SlotLimiter and `gpu_tiles_updated` to the renderer's layers |
| `tile::Cache` | tiles with the time they were created and visited; what is cached on disk | `insert`, `visit`, `purge`, `write_to_disk`, `read_from_disk` | owned by the Scheduler; memory cache also read by other threads (DataQuerier, label scheduler) |
| `SlotLimiter` | limit, quads in flight, waiting list | `set_limit`, `request_quads`, `deliver_quad` | Scheduler -> here -> RateLimiter; QuadAssembler -> here -> Scheduler |
| `RateLimiter` | rate, period, times of sends, waiting list, timer | `set_limit`, `request_quad`, timeout | -> QuadAssembler |
| `QuadAssembler` | quads that are incomplete | `load`, `deliver_tile` | asks TileLoadService for four tiles per quad |
| `TileLoadService` | none but the network replies that are open | `load` | a reply always ends, at the latest by its transfer timeout, and is reported with a status |
| `Texture-`, `Geometry-`, `Texture3DScheduler` | as Scheduler | `transform_and_emit` | turn quads into textures and emit `gpu_tiles_updated` |
| `GpuArrayHelper`, layers | tile -> layer, free layers | `set_tile_limit`, `add_tile`, `remove_tile`, `update_gpu_tiles` | driven by `gpu_tiles_updated`, queued if the threads differ |
| `map_label::Scheduler`, `Filter` | as Scheduler; filter definitions, tiles to filter | `is_ready_to_ship`, `update_filter`, `update_quads` | ships a label quad only when its geometry is in another scheduler's memory |
| `PickerManager` | tiles shown, features by id | `update_quads`, `eval_pick` | reads a pixel of the GPU asynchronously |
| Avalanche reports | ids by region, latest report | `load_from_network`, id interning | network |
| `DrawListGenerator` | tiles on the GPU | `add_tile`, `remove_tile`, `generate_for` | decides what is drawn while tiles are missing |
| WebGPU compute graph | per node: enabled, running, run context, runs that wait | `run`, `rerun`, `complete_run`, `fail_run`, `set_enabled`, `set_settings` | run_completed of a node runs the next; RequestTilesNode has a TileLoadService of its own |
| WebGPU render graph | in a frame: resources, passes and their accesses; over frames: a pool of persistent objects, a pool of transient objects, a ring of read-back buffers | `create_*`, `import_*`, `add_pass`, `initialize`; `compile`, `execute`, `collect_gpu_timings`, `end_frame` | recorded by App each frame; one thread, but the map callbacks of the profiler come at any time |
| `CloudRenderer` | tile infos beside a texture array | `update_gpu_tiles` | as the layers |
| Camera, renderers, parsers, user interface | continuous or purely functional | | |

What is hard in this code: single-shot timers that must not be forgotten; lists that are replaced
while their elements are in flight; a purge that must keep a tree connected although it judges each
quad alone, by a time stamp; updates that are applied in another thread, later than they were
decided; a loader that must answer each quad exactly once; a disk cache that is rewritten in place
and may be interrupted or fail anywhere; a render graph that decides at compile time, from what the pool
holds, which passes need not run, and changes the pool only later. `PROJECT.json` "hazards" gives each
at its line.

What makes each component correct:

* Scheduler: what is on the GPU is a tree without gaps; the view is shown if memory allows; nothing
  is forgotten between two updates; a camera at rest leads to a complete view.
* Cache: a purge removes what was least recently visited and never a parent before its children;
  what was reported as persisted is what a restart reads.
* Loader: a bounded number of loads, none doubled, each answered exactly once; no slot is lost.
* GPU array: no layer is shared or lost; it shows what the scheduler believes it shows.
* Labels (not modelled): no label is shipped whose geometry is missing; a filter that changes is applied
  to every tile.
* Picker (not modelled): a pick never refers to a tile that is gone.
* Compute graph: each run ends, once and in order, although several are under way; a node that waits
  for tiles has answers coming.
* Render graph: a pass sees in each resource what the passes before it wrote, however passes are
  dropped and moved and resources put on shared objects; what is baked is there when it is read; `.prev`
  is the last frame's `.curr`; the pools come to rest when the frames do; no timing is lost.
* Draw list (not modelled): the drawn tiles cover the view without overlap.

## 2. Modules

| Module | Models | Correspondence |
|---|---|---|
| `SlotLimiter` | `SlotLimiter.cpp` | one action per slot. A request list follows the traversal of the tree and names no quad twice, so it is a set with a `Rank`. `admit_limit` is history |
| `RateLimiter` | `RateLimiter.cpp` | one action per slot and one for the timer. A stored clock reading is its age. `recent` is history |
| `Limiters` | the two, wired by `setup.h` | extends both: what gets a slot goes to the rate limiter in the same step (`InOrder(Admitted(ids))`), and only what was passed on comes back. Both limits change at any time |
| `QuadAssembler` | `QuadAssembler.cpp`, `NetworkInfo::join` | `load` and `deliver_tile`; the service is the number of answers it owes for each tile |
| `TilePipeline` | `setup.h`, `TileLoadService.cpp` | composes the three by INSTANCE. All connections are direct and in one thread, so one event runs through all of them in one step, including the load that starts while a completed quad is still being handled |
| `QuadService` | the abstract loader | what `TilePipeline` implements, `outstanding` being the slots in use |
| `TileCache` | `Cache.h` in memory | `insert`, `visit`, `purge` as operators on a function from ids to records |
| `Scheduler` | `Scheduler.cpp` | one action per slot and timer; `UpdateTimeout` is `send_quad_requests` and `update_gpu_quads`, `PurgeTimeout` is `purge_ram_cache`. `ReadDiskCache` fills memory with what an earlier session can have persisted. What is emitted is an operator (`Missing`, `NewTiles`, `DeletedTiles`) |
| `SchedulerLoop` | Scheduler and SlotLimiter wired by `setup.h` | a request list goes to the limiter in the same step; a delivered quad goes through the limiter to `receive_quad`. `failed` and `purged`, what was refused or purged since it was last asked for, and `arrived`, whether any quad has come back, are history |
| `GpuArray` | `GpuArrayHelper.cpp`, `TextureLayer::update_gpu_tiles` and its like in `TileMeshRenderer.cpp` | one action, `UpdateTiles`: an update is removed and added in one call |
| `SchedulerView` | Scheduler, the event queue and the array | extends both; `gpu_tiles_updated` waits in `updates`, `ApplyUpdate` is its delivery. `After(i)` is what the array will hold once i of them are applied |
| `NodeGraph` | `Node.cpp`, `NodeGraph.cpp`, `RequestTilesNode.cpp` | one action per call from outside (a run of the graph, a repeated node, a switch, new settings, an answer, the end of GPU work). Signals are delivered at once, so an action takes a run as far as the next node that has to wait (`Forward`). Nodes that end within `run_impl` are part of the connection behind the node before them and can only lose a run |
| `DiskCache` | `write_to_disk`, `read_from_disk`, `persist_tiles`, `read_disk_cache` | one action per file operation, since the process can die between any two |
| `Recording` | the `create_*`, `import_*` and `PassBuilder` calls of `RenderGraph.cpp` | operators of the names of the calls that return what the call appends: nodes to a graph, accesses to a pass. `Legal` is what their assertions ask for |
| `PersistentPool` | `PersistentResourcePool`, the two loops over pooled resources in `realize_graph` | `PoolExecute` is what one graph does to the pool: touch all, widen all, realize until an error, and the stamps of the passes that ran; `PoolEndFrame` evicts. What the objects hold (`content`, `shown`) is history |
| `TransientPool` | `TransientResourcePool` | `acquire` as `Claims` and `Served` of a list of requests, `end_frame` |
| `GpuProfiler` | `GpuProfiler`, the profiling part of `execute`, `collect_gpu_timings` | one action per call and one for the callback |
| `RenderGraph` | `compile` | pure operators, one per phase: `Skipped`, `Edges` and `OrderOf`, `Rejects`, `AliasSlots`. The search for the order is `PostOrder`, a recursive function: all edges lead to earlier passes, so the order of visits is a list of what a pass needs, without what came before. Likewise the sizes relative to others, and the slots as they are filled |
| `Lists` | | sequences by positions and counts, in a form that can be proved about |
| `FrameLoop` | `execute`, `realize_graph` and a frame of `App::render` | composes the five above. A session is what an application may record, one graph or several in a frame, in turn or in any order |
| `MC*` | | model values and constants for TLC |
| `*Proofs` | | theorems, see 5 |

Abstractions that a reader should know of:

* The camera is the set of quads it wants refined, any set without gaps. `should_refine` decides for
  each node; traversals only reach those whose ancestors are wanted, and so does the model.
* Timers are active or not and may fire at once or at any later time; how long they run is left out
  except in `RateLimiter`, where the interval matters.
* A handler reads the clock once. Time counts from the oldest visit that is remembered on disk, so a
  scheduler starts at any time. The clock never steps back (it is the system clock, see hazards).
* `read_disk_cache` is one step of the scheduler (its file operations are in `DiskCache`). It is the first
  call a scheduler gets (`src/app/RenderingContext.cpp:121`), so it finds memory empty and the scheduler
  disabled. It leaves any set of quads: a persist can run before the purge that is due, a purge can leave
  gaps, and the limit can have been another one. The other application does not call it.
* The native build is modelled, not the branch of `receive_quad` for emscripten.
* `is_ready_to_ship` is the base class's. That of label quads belongs to a component not modelled yet.
* A tile's payload is left out, but for its status (QuadAssembler; Scheduler keeps it only for the
  zoom levels at which the code looks at it) or its version
  (DiskCache). No quad is inserted twice within the same millisecond with a persist between.
* The handler of a persist runs in the thread that changes the memory cache, which therefore does not
  change while it runs. `remove_all` is one step.
* A geometry quad becomes four tiles of the array, handled alike; the array is modelled with one.
* In the render graph an access is to the whole of a resource, and an extent is one number; mips,
  layers, aspects, byte ranges, views and bind groups are left out, and with them `validate_cube_views`
  and `validate_access_ranges`, which only reject. The clock of the pools is kept as ages. The identity
  of a transient is the address of its interned name; the model has the name. That profiling has no
  effect on the passes is taken from the code. The graph is executed before the next one is recorded,
  as the application does; the builder would allow another order.
* `SelectTilesNode` returns without ending its run when no tile is selected (`SelectTilesNode.cpp:62-66`), and the
  runs of the graph would then wait for ever. This cannot happen: a region is a rectangle from one tile to another
  and contains at least these (`RectangularTileRegion.cpp:27-28` asserts min <= max in both directions).
  `NodeGraph` assumes so (`{} \notin Regions`).
* The limit of the GPU cache is set before a scheduler is enabled; that of the memory is also changed
  by the user later. Both is how the applications call them.

## 3. Runs

All finish in about two minutes or less with two workers; the largest, `view`, has two million states.

| Run | Instance | What it shows |
|---|---|---|
| `limiters` | 3 quads, slot limits 1 to 3, rates 1 in 2 ms and 2 in 10 ms | any order of lists, deliveries, timers and changes of both limits: `NeverWaitsInFlight`, `WorkConserving`, `GrowsWithinLimit`; `RateHolds` as a sliding window, `WakeUpPending`; `QueueDrains`. With three quads one can be under way while another waits for the rate and a third for a slot; the two settings have a timer interval of one millisecond and of two, so requests fall between two wake-ups |
| `pipeline` | 3 quads, 2 slots, 1 request in a millisecond, tiles that are good or fail | `SlotsAccountedFor`, and of the assembler within it `TilesAccountedFor` and `EntriesConsistent`; `ServiceSpec`: the wired loader implements `QuadService`, with its liveness: each quad that is taken up comes back, once, with four tiles and a status. The rate is below the number of slots, so quads wait in both limiters; two quads are assembled at once, with their tiles in any order |
| `scheduler` | a root, two children, a grandchild that must be Good to be shown and may retire; 3 quads on the GPU, 1 or 2 in memory; 2 milliseconds | all handlers in any order: `GpuTopDown`, `ViewIsShown`, `ViewStaysInMemory`. The limits are below the number of quads, so both caches purge, with ties and without, before and after visits, also what was read from disk, with stamps of before; `SlackDivisor` 2 makes the slack matter for limits this small |
| `view` | 3 quads, limits 1 and 2, array of 2, at most 2 waiting updates | `ArrayMirrorsGpu`, `UpdatesApply`, `ArrayTopDown`, `LayersPartitioned`. Two updates that wait are the fewest that can be in conflict with each other and with the array |
| `view_ui_thread` | the same, `UiSpec` | fails: see 6 |
| `loop` | a chain of three quads, the last of which must be Good and one of which may retire; 2 or 3 quads in memory; 1 slot | `ViewIsRequested`, `LoadsOnlyMissing`, `PurgeIsScheduled`, `Converges`, with failing loads, a network that goes and returns, caches that are cleared, a scheduler that is enabled late (applications never disable one) and whose memory was read from disk, with up to three quads where the limit and its slack are two, and stamps that are older than the session (`MaxTime` 1; a session itself takes no time). With one slot quads wait for each other; two quads in memory are fewer than the view may ask for |
| `graph` | 2 nodes, 2 runs, 2 tiles | `RunsAccountedFor`, `RunsInOrder`, `IdleHasNoQueue`, `FetchIsAnswered`, `EveryRunEnds`, with tiles and nodes that fail, nodes that are run again or switched while they work, tiles that are selected anew. Two runs and a repeated one make three contexts at a node, one that runs and two that wait, the fewest whose order can go wrong |
| `graph_settings` | the same, `UiSpec` | fails: see 6 |
| `frames` | sessions of up to six recordings with up to 11 resources, 2 graphs in a frame, both retentions and the ring 2 | see below: `ReadsSeeTheirWriters`, `NoObjectTwiceInAPass`, `BakeIsThere`, `PoolSane`, `HistoryCarries`, `FillsAccountedFor`, `Settles` |
| `stale_bakes` | the same | fails: see 6 |
| `disk` | 3 quads, 4 insertions | `ReadableUnlessFlawed`, `NeverOlderThanMeta`, with crashes, files that cannot be opened and writes that end early. Four insertions are enough for a quad to be persisted, replaced, persisted again and to have company |
| `disk_after_failure` | the same, only failing opens | fails: see 6 |

The sessions of `frames`: all recordings of three small passes (each reads one resource or none and
writes another, new or on top of what is there) and one that draws, over three transients of one signature and the screen,
the smallest in which a pass can be dropped, a write can overtake a read and two transients can share
an object in different ways; bakes with two hashes and sizes, unread, forced, of two targets, and with
uses that the pool's object does not have yet, in frames of one graph and of two; histories that are written,
only read, resized, invalidated, baked or given up, as textures and buffers; frames that take turns; one
with something of everything, with and without aliasing; two profiled graphs; and recordings for
each error of `compile`; resources that change what they are, and one read where it was written. Ordered sessions are played over and over, and `Settles` is about these; the others are
played in any order. The code retains for 4 frames and has a ring of 3; with 2 an entry can still be
idle for a frame, come back, or be evicted, and both buffers of the ring can be in flight.

`CHECK_DEADLOCK` is nowhere switched off.

Fairness. `Limiters`: time passes and a timer that has run out fires; both are the event loop's
doing. `TilePipeline`: also every open reply ends, which TileLoadService's transfer timeout ensures;
nothing is assumed about the scheduler's requests. `SchedulerLoop`: the update timer fires, and every
quad in flight comes back, which is what `ServiceSpec` shows of the loader behind it; no fairness for
the camera, the network, the purge or the persist timer. `QuadService` states the fairness it
promises. `NodeGraph`: every tile is answered (the transfer timeout again) and work on the GPU ends;
none for the user. `FrameLoop`: the application executes a graph again and again and ends each frame,
as its render loop does; none for the profiler's callbacks. The other modules are checked for safety only.

`Converges` is stated for a user and a network that come to rest and excludes quads that could not be
loaded since they were last asked for: the code asks for them again only at the next update. It speaks
of views that fit into memory, and its run of a tree without siblings: a purge breaks ties of time
stamps in any order, so after a tie it may take a quad of a view that fits, and nobody asks for that one
again before the next update. `ViewIsRequested` holds of all views and trees; it names the quads that were
purged as an exception of their own.

## 4. Order of the modules

Each module is parameterised by CONSTANTS with named assumptions and has one action per operation. Leaves
first (`SlotLimiter`, `RateLimiter`, `QuadAssembler`, `TileCache`, `GpuArray`; `Recording`,
`PersistentPool`, `TransientPool`, `GpuProfiler`), then `Scheduler` and `RenderGraph`, then what composes
them. Recursion is written as recursive functions, so that every module can be proved about; the pool and
the profiler are modules of their own. `Scheduler` has the names of its own
module only, so that `SchedulerView` extends it and the array, and the theorems about each part can
be used for the whole.

## 5. Theorems

Checked by tlapm for every value of the constants that satisfies the modules' assumptions. These are, in
short: finite sets of quads and tiles in trees whose ancestors are closed, positive limits and settings, a
rank that follows the tree, an array that is no smaller than any limit of the GPU cache, and zoom levels
below 100, for which a time stamp has room.

* `LimitersProofs`. Of the slot limiter: `TypeCorrect`, `NeverWaits`, `SlotsStayBusy` and
  `LoadsStayWithinLimit`. The inductive invariant adds to the type that the limit of the last request list
  bounds the slots from below while anything waits; the arithmetic is in lemmas on `Admitted` (the smaller
  of what is fresh and what is free) and `FirstOf` (empty only if nothing waits). Of the rate limiter:
  `RateIsKept` and `NoneIsForgotten`. That a window holds is not inductive, since `m_in_flight` keeps only
  what the code looked at; the invariant (`RateInv`) adds that ages in it descend and that what was sent
  within the period is a suffix of it, of which `recent` counts the elements, so what
  `process_request_queue` counts is at least them. Both speak of the sends since the settings last changed:
  `set_limit` does not look at what was sent under the old ones. Of the two as wired:
  `WiredLimitersKeepPromises` and `WiredLoadsStayWithinLimit`, since every step of `Limiters` is one of each,
  or a stutter, and what gets a slot is a sequence of quads for the rate limiter (`InOrder`).
* `TilePipelineProofs`: `LoaderImplementsService`: each step of the wired loader is one of `QuadService`
  or changes nothing the scheduler sees. With it `NoSlotLeaks`, `NoTileLost`, `EntriesAreTheirOwn` and
  `PipelineTypeCorrect`. None of these is inductive alone: that a tile counts to four needs that load is never
  called for a quad that is already there, which needs that a slot is given only to quads that hold none, which
  needs that what waits for a slot holds none; the invariant is their conjunction (`PipelineInv`). What the slot
  limiter emits is a sequence, so lemmas say that `InOrder` lists each quad once (positions are an
  injection into 0..n-1, hence a surjection) and that what the rate limiter sends and keeps is a partition
  of what it had (`CutInTwo`, `PutTogether`). The theorems of the parts are about their own specifications
  and are not used: under this wiring the parts need less.
* `SchedulerProofs`: `GpuStaysTopDown`, `TypeCorrect`, `ViewStaysShown` and `PurgeSparesView`. That the
  quads on the GPU have no gaps is not inductive, since a purge looks at time stamps alone. `GpuInv` adds that
  an ancestor on the GPU always carries a later stamp than its descendants and that none is in the future. The
  first makes a purge take descendants before ancestors whichever way ties are broken; the second makes a visit,
  which stamps from the root down as far as it gets, preserve it. What a purge spares needs more: that every
  stamp was made by a visit at some time that has been (`StampInv`), so that a quad that outlives one visited now
  was visited now itself (`PurgeSpares`). What is shown and what is in memory follow from this lemma.
* `SchedulerLoopProofs`: `NothingForgotten`, `NothingLoadedTwice`, `PurgeComes`. The invariant (`LoopInv`)
  adds that no quad both holds a slot and waits for one, and that only a scheduler that is enabled has asked for
  anything or received it: otherwise a quad could be delivered to one that does not schedule a purge, and the
  disk could be read after a quad has come back (`ReadKeeps`). One lemma per handler.
* `SchedulerProofs`, of `SchedulerView`: first `LayersStayPartitioned`, of the array and any updates, also such as overlap or
  do not fit. Then of the array that a scheduler drives: `ArrayFollowsScheduler`, `UpdatesFit`,
  `ArrayStaysTopDown` and `ViewLayersPartitioned`. The invariant is `SchedulerInv` with `ViewInv`, which says
  of the array after each of the updates that wait (`After(i)`) what the properties say of it now: that it
  fits, is top-down, and is such that the next update neither removes what is absent nor adds what is there.
  Applying an update moves these by one, a new update adds one at the end (`OutcomeOfTail`,
  `OutcomeOfPrefix`). `Outcome` is a closed form (a tile is there if the last update about it added it), since
  a fold could not be reasoned about. `GpuStaysTopDown` is used for the end of the queue.
* `DiskCacheProofs`: `TypeCorrect`, `NothingOldIsRead`, `SavedIsReadable`. The invariant (`DiskInv`) says, for each
  phase of the process, what the files hold of what the cache believes: while a persist runs, files of other
  versions go before the first is written, and what it has passed or will skip is there. One lemma for each
  file operation and for what can cut it short.
* `NodeGraphProofs`. `NothingLeftBehind`: `IdleHasNoQueue`, inductive with the shape of the two functions.
  `FetchStaysAnswered`: `FetchIsAnswered`; the invariant (`FetchInv`) adds that the sets are among those that
  can be selected, none of which is empty, so a request always owes an answer. `RunsStayInOrder` and
  `EveryRunHasItsPlace`: `LineInv` looks at the contexts of all nodes as one line, from the last node back to
  the first; lemmas about such a line alone say that adding a run at its end, moving the first contexts of a node
  on to the next that holds any (`MoveKeepsLine`), losing some and giving a node up keep its order and its
  elements, and each handler is one or two of these moves. That the contexts which survive on the way
  keep their order is proved from the least index with enough survivors up to it (`Least`,
  `SurvivingKeepsOrder`), as `Stop`, the node where they come to rest, is the least that is busy or enabled
  (`StopIsAhead`). `GraphTypeCorrect` follows with `CountInv`. The first and the two about the line hold under
  `UiSpec`, so also while finding 3 bites: a node whose loader was replaced hangs for good (`HungStays`) and
  what waits behind it stays in order. `FetchIsAnswered` fails then, and is proved of `Spec`.
* `RenderGraphProofs`, of `compile` for any recording: `ConflictsKeepTheirOrder`, `EffectsRunOnce` and
  `SharersTakeTurns`. The search lists what a pass needs before the pass (`Closed`); that an edge of the sweep
  leads only to the last writer and its readers is enough: the last writer is needed itself and is in conflict with
  what came before it (`NeededBefore`, by the least pass that would run before one it is in conflict with). The slots are
  sound after each resource that was added (`SlotsSound`): their members are of the slot's kind and signature and disjoint, and taken by first use, so a new
  one starts after `freeFrom`, the last use of all that are there. The prover has no induction over data;
  a recursive function is reasoned about by the least argument at which something is false of it (`Least`, from
  the well-foundedness of the natural numbers).
* `FrameLoopProofs`. Of the parts: `EntriesTrustworthy` and `HistoriesCarry`, for any names, usages, hashes,
  retention, graphs and number of graphs in a frame, whether or not they succeed. `Sane` is about one entry
  and inductive with its type; that "its pooled usage shrank", an internal error, is never reported is part of
  it. `Carried` relates an entry to what was shown when the last frame ended, before and after this frame
  turns its layers. One lemma for each step of the code that changes an entry. `NoFillIsLost`, for a ring of
  any size; inductive with the types.

  Of the whole, for any set of legal sessions: `LoopTypes`, `ReadersSeeWriters`, `ObjectsOnceInAPass`,
  `SkippedBakesAreThere` and `LoopStateTrustworthy`. The invariant (`LoopInv`) says of the graph that it is the
  error state or that its order and its slots are sound as above (`GraphOf`), and of a graph that waits to be
  executed that it skips what the pool, which nothing has changed since, lets it skip. Of the objects the passes
  got it says that two resources have the same only if they share a slot (`BoundApart` in `RunInv`); that the requests
  to the transient pool claim different objects is a lemma about `Claims`. A resource is then its own memory or
  takes turns with its slot mates, whose first access leaves nothing of what was there, and what a pass finds
  there is by induction over the order what `Written` says (`ReadsSee`). Of the pools it has the invariants of the parts,
  and that each entry whose name no internal error has left behind was created with all the usage it counts
  (`UsageMade`): without that, realize might create an entry anew which phase 0 took to be up to date. What
  `FrameLoop` passes to the pool has the types that `PoolNext` quantifies over (`UsesType`), so each
  step of it that changes the pool is one of the pool's.

  Excepted by name in the properties, because the code does not foresee it, are histories left with one object
  and entries that are recast (see 6).

Only model-checked: liveness (`QueueDrains`, `Converges`, `EveryRunEnds`, `Settles`, and the fairness
of `QuadService`, hence that every quad that is taken up comes back), for which the prover has no rule, and what
the runs that are expected to fail show. Every invariant and every action property of the other runs is stated by a
theorem. What a recursive definition computes for every input is out of the prover's reach in general; the proofs
above need only what a recursive function keeps from one argument to the next.

## 6. Where the code and its promises disagree

1. `src/apps/webgpu_app/ui/AppPanel.cpp:70` and `:86` call `clear_full_cache` in the main thread, on
   schedulers that live in another. `gpu_tiles_updated` is then delivered at once and overtakes updates
   that still wait for the main thread. Those put tiles on the array that the scheduler believes to be
   gone, and adds again later, against the assertion in `GpuArrayHelper::add_tile`. RenderingContext
   does the same through the scheduler's event loop, and run `view` shows that this is sound. Run
   `view_ui_thread`.
2. When a persist fails, `persist_tiles` deletes the directory, but the cache still lists in
   `m_disk_cached` what it had come to. The next persist skips these and reports success, with meta data
   for files that are not there; the next start then finds the cache unreadable and deletes it. The
   unit test of `persist_tiles` takes success to mean that the quads can be read. Run
   `disk_after_failure`; a restart in between heals it (`ReadableUnlessFlawed` in run `disk`).
3. `RequestTilesNode::set_settings` replaces the tile loader. When the user picks another source while
   tiles are fetched, the answers that are outstanding never come: the run neither completes nor fails,
   against the comment on `Node::run_impl`, and all later runs wait behind it. Run `graph_settings`;
   if the source is only changed while the node is idle, every run ends (run `graph`).

4. `compile()` culls a bake that is not up to date if nobody reads its target in this frame: persistent
   resources are no sinks, on purpose as a comment says (`src/webgpu/base/RenderGraph.cpp:1872`). `docs/rendergraph.md`
   recommends `initialize()`, beside `force_keep()`, to keep just that ("a bake nobody reads this frame", lines 564
   and 578), and says that the pass runs on the first frame. Run `stale_bakes`.

Seen on the way, without a promise in the code to hold it against: `set_ram_quad_limit` schedules no
purge, so a lowered limit takes effect when the next quad arrives; likewise `read_disk_cache` schedules
none, so what is read from disk stays above the limit, however far, until a quad arrives, and as long
as the view is in memory none does (`PurgeIsScheduled` therefore speaks of the time once a quad has
come back); a load that is in flight when the caches are cleared for another source still delivers a
tile of the old one; a quad that is fetched again because it was too old does not replace the one on
the GPU; a RequestTilesNode whose load failed fails again at once when it is asked for the same tiles,
without asking for them; `SlotLimiter::deliver_quad` hands a slot on although the limit was lowered
below what is in flight, so the loads stay above it as long as quads wait (`GrowsWithinLimit` says only
that they do not become more); when several runs are under way, a node may find at its inputs what a
later run has put there.

Of the disk cache: one file that cannot be read makes all of it unreadable; a quad that is inserted twice
within a millisecond, with a persist between, stays old on disk; a persist that failed is not tried
again before another quad arrives; a write that ends early is not noticed.

Of the render graph, in the model and visible in traces:

* A second graph that uses a persistent resource in a new way in the frame that created it ends in an
  internal error ("would be recreated twice in one frame"). The usage is already widened then; `compile` of the
  next frame does not foresee that the object is created anew, skips the bake, and its readers see an
  empty object for a frame. `BakeIsThere` excepts such resources, by name, until they are next used without an error.
* `touch` destroys an entry that comes back as another kind or with another number of layers (line 139).
  Phase 0 looks at the signature, the usage and the hash of a history only, although its comment has it that "the
  prediction cannot drift from the decision": the bake is skipped and its readers find the new object blank.
  `BakeIsThere` excepts these names (`Recast`).
* `touch` returns early if the name was touched in this frame (line 137). A graph that declares as a history what an earlier
  graph of the frame used as a persistent resource gets an entry with one object, so that `.prev` and `.curr` are the
  same. `ReadsSeeTheirWriters` and `NoObjectTwiceInAPass` except it (`OneObject`).
* Two passes that `initialize()` one target with different hashes take turns: each frame runs the one that the other
  has made stale, since only two targets of one pass are checked for that.
* A pass that declares a write before a read of the same resource reads what it has written itself.
  `ReadsSeeTheirWriters` is about passes that read first (`ReadsFirst`).
* A bake into `.curr` of a history turns into `.prev` a frame later, but `baked` and `initHash` are the
  entry's: the bake is skipped while `.curr` holds something else. `BakeIsThere` is about persistent targets.
* `history_valid` is true after a frame that used the history and did not write `.curr`; `docs/rendergraph.md:340` has
  it that the last frame wrote it. `HistoryCarries` says what does hold.
* A bake that also writes a transient leaves its readers without a producer when it is skipped: the
  graph works in its first frame and is rejected in the second.
* A pass that is dropped counts for the usage that phase 0 expects, but not for what realize creates:
  if it uses a target in a new way the bake runs in every frame.
* Of two graphs of one frame that give a history different hashes only the first counts.

And outside the model: a depth attachment that is cleared counts as defined although its stencil may be
loaded; `App.cpp:260` maps the read-back buffer before the commands that fill it are submitted, at a call
for which profiling is off.

## 7. Not modelled, and the plan

In this order:

1. Labels: the label scheduler with the memory of the geometry scheduler, which another thread
   changes, and the `Filter` with its debounce timer; whether a label that was held back is ever shipped.
2. Versions and sources: the epoch of a source in `SchedulerLoop` for loads in flight across
   `clear_full_cache`, and versions of quads in `SchedulerView`.
3. The compute graph: which run's data a node finds at its inputs, the computation of the topological
   order as a function, adding and removing nodes; an abstract "each run ends once" it implements.
4. `PickerManager`, `DrawListGenerator`, `CloudRenderer` and `UIntIdManager`: bookkeeping against the
   set of tiles on the GPU; the coverage of the draw list as an operator against its definition.
5. The render graph: sub-resources, for which an access would be a range, and the two validators of
   them; several graphs that are compiled before the first is executed.
6. Proofs: what an application can rely on in the whole chain, from the wired loader through `SchedulerLoop`
   to the array, as one composition of the theorems; that `FrameLoop` implements an abstract render graph which
   runs every pass in the order of declaration on objects of its own.

Not planned: the camera, shading and drawing, the parsers for tracks and vector tiles, the user interface
(which is more than half of the code: panels, inspectors, QML bindings) and the unit tests. They are
continuous, sequential or pure input and output. The map therefore covers a small share of the
lines of this repository, and most of those that decide in which order things happen.
