----------------------------- MODULE GpuProfiler -----------------------------
(***************************************************************************)
(* webgpu::rg::GpuProfiler: the timings of a profiled graph are staged     *)
(* into a free buffer of a ring, which collect_gpu_timings() then maps;    *)
(* the callback of the map reads the buffer and frees it, some frames on.  *)
(***************************************************************************)
EXTENDS Integers

CONSTANT
  Ring   \* kRing

ASSUME RingType == Ring \in Nat \ {0}

VARIABLES
  pending,      \* Slot::pending: the buffers whose map is in flight
  pendingSlot,  \* the buffer that is staged and not yet mapped, NoSlot if none
  unread        \* history: how often a buffer was staged and not yet read

profiler_vars == <<pending, pendingSlot, unread>>

-----------------------------------------------------------------------------
Slots == 1..Ring
NoSlot == 0

FreeSlots == Slots \ pending

(* free_slot()                                                             *)
FirstFree(slot) == slot \in FreeSlots /\ \A s \in FreeSlots : slot <= s

ProfilerInit ==
  /\ pending = {}
  /\ pendingSlot = NoSlot
  /\ unread = [s \in Slots |-> 0]

(* Mutant of CanProfile: a second graph of a frame is profiled as well.    *)
CanProfileAgain == FreeSlots # {}

CanProfile == pendingSlot = NoSlot /\ FreeSlots # {}

(* The profiling part of execute(): an earlier graph whose timings wait to *)
(* be collected, or a ring without a free buffer, lets it run unprofiled.  *)
Stage ==
  IF CanProfile
  THEN \E slot \in Slots :
         /\ FirstFree(slot)
         /\ pendingSlot' = slot
         /\ unread' = [unread EXCEPT ![slot] = @ + 1]
         /\ UNCHANGED pending
  ELSE UNCHANGED profiler_vars

CollectGpuTimings ==
  /\ pendingSlot # NoSlot
  /\ pending' = pending \cup {pendingSlot}
  /\ pendingSlot' = NoSlot
  /\ UNCHANGED unread

(* The callback of wgpuBufferMapAsync, spontaneous and in any order.       *)
MapCallback(slot) ==
  /\ slot \in pending
  /\ pending' = pending \ {slot}
  /\ unread' = [unread EXCEPT ![slot] = 0]
  /\ UNCHANGED pendingSlot

ProfilerNext ==
  \/ Stage
  \/ CollectGpuTimings
  \/ \E slot \in Slots : MapCallback(slot)

ProfilerSpec == ProfilerInit /\ [][ProfilerNext]_profiler_vars

-----------------------------------------------------------------------------
(* Each staged fill is read exactly once: a buffer is never staged while   *)
(* an earlier fill of it waits or is being mapped, so no timing is lost    *)
(* and no buffer is written that WebGPU has mapped.                        *)
FillsAccountedFor ==
  /\ pendingSlot \notin pending
  /\ \A s \in Slots : unread[s] = IF s \in pending \/ s = pendingSlot THEN 1 ELSE 0
=============================================================================
