--------------------------- MODULE SchedulerView ---------------------------
(***************************************************************************)
(* A Scheduler and the texture array that shows its quads.  The scheduler  *)
(* lives in a thread of its own and gpu_tiles_updated is connected to the  *)
(* layer in the main thread, so the updates it emits wait in the event     *)
(* queue of that thread and are applied in order.                          *)
(*                                                                         *)
(* clear_full_cache is posted to the scheduler's thread by                 *)
(* RenderingContext (ViewSpec), but called from the main thread by AppPanel    *)
(* (UiSpec).  A signal emitted in the thread of the receiver is delivered  *)
(* at once: the deletions then overtake the updates that wait.             *)
(***************************************************************************)
EXTENDS Scheduler, GpuArray, Sequences

CONSTANT
  MaxPending  \* bound: no update is emitted while this many wait

ASSUME ArrayFits ==
  /\ Quads \subseteq Tiles
  /\ \A n \in GpuLimits : n <= ArraySize
  /\ MaxPending \in Nat \ {0}

VARIABLE
  updates  \* gpu_tiles_updated on its way to the main thread

view_vars == <<vars, updates, array_vars>>

-----------------------------------------------------------------------------
ViewInit ==
  /\ Init
  /\ updates = <<>>
  /\ ArrayInit

Post(deleted, new) ==
  /\ Len(updates) < MaxPending
  /\ updates' = Append(updates, [deleted |-> deleted, new |-> new])
  /\ UNCHANGED array_vars

PostUpdate(superfluous) ==
  /\ UpdateTimeout(superfluous)
  /\ Post(DeletedTiles(superfluous), NewTiles(superfluous))

PostClear ==
  /\ ClearFullCache
  /\ Post(DOMAIN gpu, {})

(* The same call from the main thread.                                     *)
ClearFromUi ==
  /\ ClearFullCache
  /\ UpdateTiles(DOMAIN gpu, {})
  /\ UNCHANGED updates

(* update_gpu_tiles in the main thread.                                    *)
ApplyUpdate ==
  /\ updates # <<>>
  /\ UpdateTiles(Head(updates).deleted, Head(updates).new)
  /\ updates' = Tail(updates)
  /\ UNCHANGED vars

(* The handlers that emit nothing the layer receives.                      *)
Silent ==
  /\ \/ ReadDiskCache
     \/ \E view \in Cameras : UpdateCamera(view)
     \/ \E q \in Quads, s \in Status : ReceiveQuad(q, s)
     \/ \E b \in BOOLEAN : SetNetworkReachability(b)
     \/ \E b \in BOOLEAN : SetEnabled(b)
     \/ PurgeTimeout
     \/ PersistTimeout
     \/ \E n \in GpuLimits : SetGpuQuadLimit(n)
     \/ \E n \in RamLimits : SetRamQuadLimit(n)
     \/ Tick
     \/ \E q \in Quads : Retire(q)
  /\ UNCHANGED <<updates, array_vars>>

ViewNext ==
  \/ Silent
  \/ \E P \in SUBSET Quads : PostUpdate(P)
  \/ PostClear
  \/ ApplyUpdate

ViewSpec == ViewInit /\ [][ViewNext]_view_vars

UiNext == ViewNext \/ ClearFromUi

UiSpec == ViewInit /\ [][UiNext]_view_vars

-----------------------------------------------------------------------------
(* None of the waiting updates m..n takes the tile away.                   *)
Stays(tile, us, m, n) == \A i \in m..n : tile \notin us[i].deleted

(* What the updates 1..n of us leave of the given tiles and of those they  *)
(* bring, if none is dropped.                                              *)
Outcome(tiles, us, n) ==
  {t \in tiles : Stays(t, us, 1, n)}
    \cup {t \in Quads : \E i \in 1..n : t \in us[i].new /\ Stays(t, us, i + 1, n)}

(* The tiles on the array once the first n waiting updates are applied.    *)
After(n) == Outcome(DOMAIN id_to_layer, updates, n)

(* With the updates that wait, the array shows what the scheduler believes *)
(* to be on the GPU.                                                       *)
ArrayMirrorsGpu == After(Len(updates)) = DOMAIN gpu

(* What GpuArrayHelper asserts will hold for every update that waits: only *)
(* tiles that are there are removed, only tiles that are not there are     *)
(* added, and there is a free layer for each of them.                      *)
UpdatesApply ==
  \A i \in DOMAIN updates :
    /\ updates[i].deleted \subseteq After(i - 1)
    /\ updates[i].new \cap After(i - 1) = {}
    /\ Cardinality(After(i)) <= ArraySize

(* At every moment the tiles on the array have their ancestors on it, so   *)
(* GpuArrayHelper::layer finds a tile to stand in for one that is missing. *)
ArrayTopDown == TopDown(DOMAIN id_to_layer)
=============================================================================
