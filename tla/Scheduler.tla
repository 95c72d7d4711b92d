----------------------------- MODULE Scheduler -----------------------------
(***************************************************************************)
(* nucleus::tile::Scheduler: decides which quads are loaded, kept in       *)
(* memory and put on the GPU.  Its handlers run in one thread, one at a    *)
(* time, triggered by the camera, by quads that arrive, by the state of    *)
(* the network and by three single-shot timers.                            *)
(*                                                                         *)
(* The camera is abstracted to the quads it wants refined: should_refine   *)
(* decides for each, and the traversals only see those they reach from the *)
(* root.  A timer is either active or not and fires at any later time,     *)
(* even in the millisecond it was started in (a timeout may be 0), so the  *)
(* setters of the timeouts have nothing to change.  Time counts from the   *)
(* oldest visit remembered on disk.  A handler reads the clock once.  What *)
(* a handler emits is an operator, for the modules that compose the        *)
(* system.                                                                 *)
(***************************************************************************)
EXTENDS TileCache

CONSTANTS
  Deep,          \* the quads of a zoom level above 8
  GpuLimits,     \* the values of gpu_quad_limit
  RamLimits,     \* the values of ram_quad_limit
  SlackDivisor,  \* a purge waits until the limit is exceeded by limit / SlackDivisor: 20
  Retiring,      \* bound: the quads that can grow older than the retirement age
  MaxTime        \* bound: the last millisecond

ASSUME SchedulerType ==
  /\ Deep \subseteq Quads
  /\ \A q \in Quads : Ancestors[q] = {} => q \notin Deep
  /\ GpuLimits \subseteq Nat \ {0} /\ RamLimits \subseteq Nat \ {0}
  /\ SlackDivisor \in Nat \ {0}
  /\ Retiring \subseteq Quads
  /\ MaxTime \in Nat

(* max_zoom_level is 18 or 20; a time stamp has room for 99 levels.        *)
ASSUME ZoomFits == \A q \in Quads : Zoom(q) < 100

VARIABLES
  camera,          \* m_current_camera: the quads it wants
  ram,             \* m_ram_cache
  gpu,             \* m_gpu_cached
  ram_quad_limit,  \* m.ram_quad_limit
  gpu_quad_limit,  \* m.gpu_quad_limit
  enabled,         \* m_enabled
  network,         \* m_network_requests_enabled
  update_timer,    \* whether m_update_timer is active
  purge_timer,     \* whether m_purge_timer is active
  persist_timer,   \* whether m_persist_timer is active
  now              \* time_since_epoch, in milliseconds

limits == <<ram_quad_limit, gpu_quad_limit>>
switches == <<enabled, network>>
timers == <<update_timer, purge_timer, persist_timer>>
vars == <<camera, ram, gpu, limits, switches, timers, now>>

-----------------------------------------------------------------------------
Good == 0
NotFound == 1
NetworkError == 2
Status == {Good, NotFound, NetworkError}

(* What is kept of a status in memory: below zoom level 9 nobody looks.    *)
KeptStatus(q, status) == IF q \in Deep THEN status ELSE Good

Cameras == {S \in SUBSET Quads : TopDown(S)}

(* Mutant of Missing: what is in memory is not left out.                   *)
MissingOrNot == camera

(* quads_requested: the quads of the view that are not in memory or are    *)
(* too old.                                                                *)
Missing == {q \in camera : q \notin DOMAIN ram \/ ram[q].retired}

(* The quads in memory that the view wants and that may be shown.          *)
Presentable == {q \in DOMAIN ram \cap camera : q \in Deep => ram[q].status = Good}
(* Mutant of Showable: also without ancestors.                             *)
ShowableAnywhere == Presentable

Showable == Reached(Presentable)

Candidates == Showable \ DOMAIN gpu

(* Mutant of GpuFilled: the view is not visited.                           *)
GpuFilledUnvisited ==
  Inserted(gpu, Candidates, [q \in Quads |-> [visited |-> VisitStamp(q, now)]])

(* m_gpu_cached before it is purged.                                       *)
GpuFilled ==
  Visited(Inserted(gpu, Candidates, [q \in Quads |-> [visited |-> VisitStamp(q, now)]]),
          camera, now)

(* Mutants of NewTiles and DeletedTiles: double entries stay.              *)
NewTilesDouble(superfluous) == Candidates
DeletedTilesDouble(superfluous) == superfluous

(* gpu_tiles_updated, when superfluous is what the purge removed.  A quad  *)
(* that came and went in one update is neither new nor deleted.            *)
NewTiles(superfluous) == Candidates \ superfluous
DeletedTiles(superfluous) == superfluous \ Candidates

Tolerated == ram_quad_limit + ram_quad_limit \div SlackDivisor

-----------------------------------------------------------------------------
Init ==
  /\ camera \in Cameras
  /\ ram = Empty
  /\ gpu = Empty
  /\ ram_quad_limit \in RamLimits
  /\ gpu_quad_limit \in GpuLimits
  /\ enabled = FALSE
  /\ network = TRUE
  /\ update_timer = FALSE
  /\ purge_timer = FALSE
  /\ persist_timer = FALSE
  /\ now \in 0..MaxTime

(* Memory as read_from_disk fills it: with the quads S, last visited at    *)
(* the times at; not all were found and some are old.                      *)
Remembered(S, at, absent, old) ==
  [q \in S |-> [visited |-> VisitStamp(q, at[q]),
               status |-> IF q \in absent THEN NotFound ELSE Good,
               retired |-> q \in old]]

(* read_disk_cache, posted before anything else: memory becomes what an    *)
(* earlier session persisted, which can be any quads, above the limit and  *)
(* with gaps, or nothing when the files cannot be read.  No timer is       *)
(* started.                                                                *)
ReadDiskCache ==
  /\ ~enabled /\ ram = Empty
  /\ \E S \in SUBSET Quads :
       \E at \in [S -> 0..now], absent \in SUBSET (S \cap Deep), old \in SUBSET (S \cap Retiring) :
         ram' = Remembered(S, at, absent, old)
  /\ UNCHANGED <<camera, gpu, limits, switches, timers, now>>

ScheduleUpdate == update_timer' = (update_timer \/ enabled)
(* Mutant of SchedulePurge: an active timer is all there is.               *)
SchedulePurgeNever == UNCHANGED purge_timer

SchedulePurge == purge_timer' = (purge_timer \/ enabled)
SchedulePersist == persist_timer' = TRUE

UpdateCamera(view) ==
  /\ camera' = view
  /\ ScheduleUpdate
  /\ UNCHANGED <<ram, gpu, limits, switches, purge_timer, persist_timer, now>>

(* Mutant of ReceiveQuad: the status is not looked at.                     *)
ReceiveQuadAny(q, status) ==
  /\ ram' = Inserted(ram, {q},
               [p \in {q} |->
                 [visited |-> VisitStamp(q, now), status |-> KeptStatus(q, status),
                  retired |-> FALSE]])
  /\ SchedulePurge
  /\ ScheduleUpdate
  /\ SchedulePersist
  /\ UNCHANGED <<camera, gpu, limits, switches, now>>

(* A quad that could not be loaded is dropped: nothing asks for it again   *)
(* until the next update.                                                  *)
ReceiveQuad(q, status) ==
  /\ IF status = NetworkError
     THEN UNCHANGED <<ram, timers>>
     ELSE /\ ram' = Inserted(ram, {q},
               [p \in {q} |->
                 [visited |-> VisitStamp(q, now), status |-> KeptStatus(q, status),
                  retired |-> FALSE]])
          /\ SchedulePurge
          /\ ScheduleUpdate
          /\ SchedulePersist
  /\ UNCHANGED <<camera, gpu, limits, switches, now>>

(* Mutant of SetNetworkReachability: no update when the network is back.   *)
SetNetworkReachabilityOnly(reachable) ==
  /\ network' = reachable
  /\ UNCHANGED <<camera, ram, gpu, limits, enabled, timers, now>>

SetNetworkReachability(reachable) ==
  /\ network' = reachable
  /\ IF reachable THEN ScheduleUpdate ELSE UNCHANGED update_timer
  /\ UNCHANGED <<camera, ram, gpu, limits, enabled, purge_timer, persist_timer, now>>

(* Mutant of SetEnabled: no update when the scheduler is enabled.          *)
SetEnabledOnly(new_enabled) ==
  /\ enabled' = new_enabled
  /\ UNCHANGED <<camera, ram, gpu, limits, network, timers, now>>

SetEnabled(new_enabled) ==
  /\ enabled' = new_enabled
  /\ update_timer' = (update_timer \/ new_enabled)
  /\ UNCHANGED <<camera, ram, gpu, limits, network, purge_timer, persist_timer, now>>

(* The update timer: send_quad_requests, which only emits, and then        *)
(* update_gpu_quads.                                                       *)
UpdateTimeout(superfluous) ==
  /\ update_timer
  /\ update_timer' = FALSE
  /\ superfluous \in Purges(GpuFilled, gpu_quad_limit)
  /\ gpu' = Without(GpuFilled, superfluous)
  /\ ram' = Visited(ram, Presentable, now)
  /\ UNCHANGED <<camera, limits, switches, purge_timer, persist_timer, now>>

(* Mutant of PurgeTimeout: the view is not visited before the purge.       *)
PurgeTimeoutUnvisited ==
  /\ purge_timer
  /\ purge_timer' = FALSE
  /\ IF Cardinality(DOMAIN ram) <= Tolerated
     THEN UNCHANGED ram
     ELSE \E P \in Purges(ram, ram_quad_limit) : ram' = Without(ram, P)
  /\ UNCHANGED <<camera, gpu, limits, switches, update_timer, persist_timer, now>>

(* The purge timer: purge_ram_cache.                                       *)
PurgeTimeout ==
  /\ purge_timer
  /\ purge_timer' = FALSE
  /\ IF Cardinality(DOMAIN ram) <= Tolerated
     THEN UNCHANGED ram
     ELSE \E P \in Purges(Visited(ram, camera, now), ram_quad_limit) :
            ram' = Without(Visited(ram, camera, now), P)
  /\ UNCHANGED <<camera, gpu, limits, switches, update_timer, persist_timer, now>>

(* The persist timer; what persist_tiles writes is in module DiskCache.    *)
PersistTimeout ==
  /\ persist_timer
  /\ persist_timer' = FALSE
  /\ UNCHANGED <<camera, ram, gpu, limits, switches, update_timer, purge_timer, now>>

(* update_gpu_quads and purge_ram_cache with limits that are 0 meanwhile:  *)
(* DeletedTiles is then all that was on the GPU and NewTiles is empty.  No *)
(* update is scheduled.                                                    *)
ClearFullCache ==
  /\ ram' = Empty
  /\ gpu' = Empty
  /\ UNCHANGED <<camera, limits, switches, timers, now>>

(* The limits of a scheduler are set before it is enabled.                 *)
SetGpuQuadLimit(n) ==
  /\ ~enabled
  /\ gpu_quad_limit' = n
  /\ UNCHANGED <<camera, ram, gpu, ram_quad_limit, switches, timers, now>>

(* The user may change the size of the memory cache at any time.           *)
SetRamQuadLimit(n) ==
  /\ ram_quad_limit' = n
  /\ UNCHANGED <<camera, ram, gpu, gpu_quad_limit, switches, timers, now>>

(* External: time passes.                                                  *)
Tick ==
  /\ now < MaxTime
  /\ now' = now + 1
  /\ UNCHANGED <<camera, ram, gpu, limits, switches, timers>>

Retire(q) ==
  /\ q \in DOMAIN ram \cap Retiring
  /\ ram' = [ram EXCEPT ![q].retired = TRUE]
  /\ UNCHANGED <<camera, gpu, limits, switches, timers, now>>

Next ==
  \/ ReadDiskCache
  \/ \E view \in Cameras : UpdateCamera(view)
  \/ \E q \in Quads, s \in Status : ReceiveQuad(q, s)
  \/ \E b \in BOOLEAN : SetNetworkReachability(b)
  \/ \E b \in BOOLEAN : SetEnabled(b)
  \/ \E P \in SUBSET Quads : UpdateTimeout(P)
  \/ PurgeTimeout
  \/ PersistTimeout
  \/ ClearFullCache
  \/ \E n \in GpuLimits : SetGpuQuadLimit(n)
  \/ \E n \in RamLimits : SetRamQuadLimit(n)
  \/ Tick
  \/ \E q \in Quads : Retire(q)

Spec == Init /\ [][Next]_vars

-----------------------------------------------------------------------------
Stamps == -Cardinality(Quads)..MaxTime * 100

(* The caches hold quads with the stamp of their last visit; only answers  *)
(* that are worth keeping are in memory.                                   *)
TypeOK ==
  /\ camera \in Cameras
  /\ DOMAIN ram \subseteq Quads
  /\ \A q \in DOMAIN ram :
       ram[q] \in [visited : Stamps, status : {Good, NotFound}, retired : BOOLEAN]
  /\ DOMAIN gpu \subseteq Quads
  /\ \A q \in DOMAIN gpu : gpu[q] \in [visited : Stamps]
  /\ ram_quad_limit \in RamLimits /\ gpu_quad_limit \in GpuLimits
  /\ enabled \in BOOLEAN /\ network \in BOOLEAN
  /\ update_timer \in BOOLEAN /\ purge_timer \in BOOLEAN /\ persist_timer \in BOOLEAN
  /\ now \in 0..MaxTime

(* The millisecond of the last visit.                                      *)
VisitedAt(cache, q) == (cache[q].visited + Zoom(q)) \div 100

(* Every quad on the GPU can be reached from the root over quads that are  *)
(* on the GPU, whatever the purges removed: otherwise it could neither be  *)
(* visited nor stand in for its descendants.                               *)
GpuTopDown == TopDown(DOMAIN gpu)

(* Nothing is forgotten between two updates: when no update is scheduled,  *)
(* a quad that could be shown is on the GPU, or a full GPU holds only the  *)
(* view and quads that were shown in the same millisecond as the root.     *)
ViewIsShown ==
  enabled /\ ~update_timer /\ ~(Showable \subseteq DOMAIN gpu) =>
    /\ Cardinality(DOMAIN gpu) = gpu_quad_limit
    /\ \A q \in DOMAIN gpu \ camera, r \in DOMAIN gpu :
         Ancestors[r] = {} => VisitedAt(gpu, q) = VisitedAt(gpu, r)

(* Memory is not purged of the view while it keeps anything older: a quad  *)
(* of the view that the view reaches leaves only if all that stays is in   *)
(* the view, or was used in this very millisecond; and then something of   *)
(* the latter kind stays, unless the view does not fit or all is cleared.  *)
ViewStaysInMemory ==
  [][LET view == Reached(DOMAIN ram \cap camera) IN
     ~(view \subseteq DOMAIN ram') =>
       /\ \A q \in DOMAIN ram' \ view : VisitedAt(ram', q) = now
       /\ DOMAIN ram' \subseteq view =>
            DOMAIN ram' = {} \/ Cardinality(view) > ram_quad_limit]_vars
=============================================================================
