--------------------------- MODULE SchedulerLoop ---------------------------
(***************************************************************************)
(* The Scheduler and its loader as a closed loop: quads_requested goes to  *)
(* SlotLimiter::request_quads, quad_delivered comes back to                *)
(* Scheduler::receive_quad.  Both live in one thread and are connected     *)
(* directly, so a handler of one runs inside the handler of the other.     *)
(* What is behind the SlotLimiter answers each quad exactly once in the    *)
(* end, which TilePipeline shows (QuadService).                            *)
(***************************************************************************)
EXTENDS Integers, FiniteSets

CONSTANTS
  Quads, Ancestors,                                          \* see TileCache
  Deep, GpuLimits, RamLimits, SlackDivisor, Retiring, MaxTime, \* see Scheduler
  Rank, Limit                                                \* see SlotLimiter

(* The traversal visits a node before its children.                        *)
ASSUME RankFollowsTree == \A q \in Quads : \A p \in Ancestors[q] : Rank[p] < Rank[q]

(* The limits, as Scheduler has them.                                      *)
ASSUME LimitsType ==
  /\ IsFiniteSet(Quads)
  /\ RamLimits \subseteq Nat \ {0}
  /\ SlackDivisor \in Nat \ {0}

VARIABLES
  camera, ram, gpu, ram_quad_limit, gpu_quad_limit, enabled, network,
  update_timer, purge_timer, persist_timer, now,            \* Scheduler
  slot_limit, in_flight, request_queue, slot_admit_limit,   \* SlotLimiter
  failed,  \* history: the quads that came back as NetworkError since the last request
  purged,  \* history: the quads that were purged from memory since then
  arrived  \* history: whether a quad came back and was put into memory

scheduler_vars ==
  <<camera, ram, gpu, ram_quad_limit, gpu_quad_limit, enabled, network,
    update_timer, purge_timer, persist_timer, now>>
slot_vars == <<slot_limit, in_flight, request_queue, slot_admit_limit>>
history == <<failed, purged, arrived>>
vars == <<scheduler_vars, slot_vars, history>>

Sched == INSTANCE Scheduler
Slots == INSTANCE SlotLimiter WITH
  Limits <- {Limit}, DefaultLimit <- Limit, limit <- slot_limit, admit_limit <- slot_admit_limit

-----------------------------------------------------------------------------
Init ==
  /\ Sched!Init
  /\ Slots!Init
  /\ failed = {}
  /\ purged = {}
  /\ arrived = FALSE

(* send_quad_requests looks at the memory before update_gpu_quads.         *)
UpdateTimeout(superfluous) ==
  /\ Sched!UpdateTimeout(superfluous)
  /\ IF network
     THEN /\ Slots!RequestQuads(Sched!Missing)
          /\ failed' = {}
          /\ purged' = {}
          /\ UNCHANGED arrived
     ELSE UNCHANGED <<slot_vars, history>>

(* A quad comes back: deliver_quad passes it on to receive_quad.           *)
QuadDelivered(q, status) ==
  /\ Slots!DeliverQuad(q)
  /\ Sched!ReceiveQuad(q, status)
  /\ failed' = IF status = Sched!NetworkError THEN failed \cup {q} ELSE failed
  /\ arrived' = (arrived \/ status # Sched!NetworkError)
  /\ UNCHANGED purged

(* RenderingContext, when the tiles are to come from another source:       *)
(* clear_full_cache and set_enabled(true) in one call.                     *)
ClearAndEnable ==
  /\ ram' = Sched!Empty
  /\ gpu' = Sched!Empty
  /\ enabled' = TRUE
  /\ update_timer' = TRUE
  /\ UNCHANGED <<camera, ram_quad_limit, gpu_quad_limit, network, purge_timer, persist_timer,
                 now, slot_vars, history>>

PurgeTimeout ==
  /\ Sched!PurgeTimeout
  /\ purged' = purged \cup (DOMAIN ram \ DOMAIN ram')
  /\ UNCHANGED <<slot_vars, failed, arrived>>

Apart == UNCHANGED <<slot_vars, history>>

ReadDiskCache == Sched!ReadDiskCache /\ Apart
UpdateCamera(view) == Sched!UpdateCamera(view) /\ Apart
SetNetworkReachability(b) == Sched!SetNetworkReachability(b) /\ Apart
(* No application calls it with false.                                     *)
SetEnabled == Sched!SetEnabled(TRUE) /\ Apart
PersistTimeout == Sched!PersistTimeout /\ Apart
Retire(q) == Sched!Retire(q) /\ Apart

(* What the user, the network and time do.                                 *)
Disturbance ==
  \/ \E view \in Sched!Cameras : UpdateCamera(view)
  \/ \E b \in BOOLEAN : SetNetworkReachability(b)
  \/ SetEnabled
  \/ ClearAndEnable
  \/ \E q \in Retiring : Retire(q)

Answer(q) == \E s \in Sched!Status : QuadDelivered(q, s)

Update == \E P \in SUBSET Quads : UpdateTimeout(P)

Next ==
  \/ ReadDiskCache
  \/ Disturbance
  \/ \E P \in SUBSET Quads : UpdateTimeout(P)
  \/ \E q \in Quads, s \in Sched!Status : QuadDelivered(q, s)
  \/ PurgeTimeout
  \/ PersistTimeout

(* The event loop gets around to every timer that has run out, and every   *)
(* load ends.                                                              *)
Fairness ==
  /\ WF_vars(Update)
  /\ \A q \in Quads : WF_vars(Answer(q))

Spec == Init /\ [][Next]_vars /\ Fairness

-----------------------------------------------------------------------------
(* Between two updates of a scheduler that is enabled and online, every    *)
(* quad of the view is in memory, being loaded, waiting for a slot, or it  *)
(* could not be loaded, or was purged, since it was last asked for.  What  *)
(* of the view a purge may take says Scheduler!ViewStaysInMemory.          *)
ViewIsRequested ==
  enabled /\ network /\ ~update_timer =>
    camera \subseteq DOMAIN ram \cup in_flight \cup request_queue \cup failed \cup purged

(* Nothing is loaded, or waits to be, that is in memory and up to date.    *)
LoadsOnlyMissing ==
  \A q \in (in_flight \cup request_queue) \cap DOMAIN ram : ram[q].retired

(* Once a quad has come back, memory that is over its limit by more than   *)
(* the slack has a purge coming, also if it was read from disk that full.  *)
(* Until then what read_disk_cache found stays as it is.                   *)
PurgeIsScheduled ==
  arrived /\ Cardinality(DOMAIN ram) > Sched!Tolerated => purge_timer

(* What keeps a quad of the view from being shown for good: it or an       *)
(* ancestor of it could not be loaded.                                     *)
Unavailable(q) ==
  \E p \in Ancestors[q] \cup {q} :
    \/ p \in failed
    \/ p \in Deep \cap DOMAIN ram /\ ram[p].status # Sched!Good

ViewFits == Cardinality(camera) <= ram_quad_limit

ViewComplete == \A q \in camera : q \in DOMAIN gpu \/ Unavailable(q)

(* Once the camera rests on a view that fits into memory, an enabled       *)
(* scheduler that is online brings the whole view onto the GPU, except for *)
(* what the network would not deliver, and keeps it there, although quads  *)
(* that were requested earlier still arrive and purge others from memory.  *)
(* That is of a memory in which time stamps are never tied, as in a tree   *)
(* without siblings: a tie lets a purge take a quad of the view, and       *)
(* nothing asks for that before the next update.                           *)
Converges ==
  \/ []<><<Disturbance>>_vars
  \/ []<>~(enabled /\ network)
  \/ []<>~ViewFits
  \/ <>[]ViewComplete
=============================================================================
