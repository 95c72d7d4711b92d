------------------------------ MODULE GpuArray ------------------------------
(***************************************************************************)
(* nucleus::tile::GpuArrayHelper, which gives each tile on the GPU a layer *)
(* of a texture array, and the consumers of gpu_tiles_updated that drive   *)
(* it (gl_engine::TextureLayer::update_gpu_tiles and the layers written    *)
(* like it): remove the deleted tiles, then add the new ones while there   *)
(* is room.                                                                *)
(*                                                                         *)
(* The deleted ids come from a hash set, so the order in which layers are  *)
(* freed, and with it the layer a new tile gets, is any.                   *)
(***************************************************************************)
EXTENDS Integers, FiniteSets

CONSTANTS
  Tiles,      \* the tiles that can be shown
  ArraySize   \* m_size, the tile limit the array was created with

ASSUME ArraySizeType == ArraySize \in Nat

VARIABLES
  id_to_layer,  \* m_id_to_layer
  free_layers   \* m_free_layers, as a set

array_vars == <<id_to_layer, free_layers>>

-----------------------------------------------------------------------------
Layers == 0..ArraySize - 1

ArrayInit ==
  /\ id_to_layer = [t \in {} |-> 0]
  /\ free_layers = Layers

(* Mutant of Kept: a removed tile keeps the layer that is freed.           *)
KeptAll(deleted) == id_to_layer

(* What is left on the array when the deleted tiles are removed; removing  *)
(* a tile that is not there does nothing in a release build.               *)
Kept(deleted) == [t \in DOMAIN id_to_layer \ deleted |-> id_to_layer[t]]

FreeAfter(deleted) ==
  free_layers \cup {id_to_layer[t] : t \in deleted \cap DOMAIN id_to_layer}

(* The new tiles that get a layer: those that have none yet, or as many of *)
(* them as there are free layers; the loop ends when the array is full.    *)
AddedSets(deleted, new) ==
  LET absent == new \ DOMAIN Kept(deleted)
      room == Cardinality(FreeAfter(deleted))
  IN  {S \in SUBSET absent :
         Cardinality(S) = IF Cardinality(absent) <= room THEN Cardinality(absent) ELSE room}

UpdateTiles(deleted, new) ==
  \E added \in AddedSets(deleted, new) :
    \E place \in [added -> FreeAfter(deleted)] :
      /\ \A s, t \in added : place[s] = place[t] => s = t
      /\ id_to_layer' = [t \in DOMAIN Kept(deleted) \cup added |->
                           IF t \in added THEN place[t] ELSE Kept(deleted)[t]]
      /\ free_layers' = FreeAfter(deleted) \ {place[t] : t \in added}

ArrayNext == \E deleted, new \in SUBSET Tiles : UpdateTiles(deleted, new)

ArraySpec == ArrayInit /\ [][ArrayNext]_array_vars

-----------------------------------------------------------------------------
(* The array holds tiles at its layers.                                    *)
ArrayTypeOK ==
  /\ DOMAIN id_to_layer \subseteq Tiles
  /\ \A t \in DOMAIN id_to_layer : id_to_layer[t] \in Layers
  /\ free_layers \subseteq Layers

(* No layer is shared by two tiles, given out while it is free, or lost.   *)
LayersPartitioned ==
  /\ \A s, t \in DOMAIN id_to_layer : id_to_layer[s] = id_to_layer[t] => s = t
  /\ free_layers = Layers \ {id_to_layer[t] : t \in DOMAIN id_to_layer}
=============================================================================
