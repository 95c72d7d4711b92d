--------------------------- MODULE QuadAssembler ---------------------------
(***************************************************************************)
(* nucleus::tile::QuadAssembler: asks the tile service for the four        *)
(* children of a quad and collects the answers into one DataQuad, in the   *)
(* order they arrive.  An entry is found through the parent of the tile    *)
(* that arrives, and is removed through the id stored by load; the two are *)
(* the same only if every tile that arrives was asked for by a load.       *)
(*                                                                         *)
(* The tiles of an entry are abstracted to how many there are, which       *)
(* children they are and the worst of their network statuses               *)
(* (NetworkInfo::join), which decides what the scheduler does.             *)
(***************************************************************************)
EXTENDS Integers, FiniteSets

CONSTANTS
  Quads,  \* the quads that can be loaded
  NoId    \* the id of a default-constructed DataQuad; not a quad

VARIABLES
  quads,    \* m_quads
  loading   \* external: how many answers the tile service owes for each tile

-----------------------------------------------------------------------------
Children == 1..4                 \* Id::children()
Tiles == Quads \X Children       \* a child, with its parent
Parent(t) == t[1]

(* NetworkInfo::Status; a larger value is a worse status.                  *)
Good == 0
NotFound == 1
NetworkError == 2
Status == {Good, NotFound, NetworkError}

(* Mutant of Worse: statuses are added up.                                 *)
WorseAsSum(a, b) == a + b

Worse(a, b) == IF a > b THEN a ELSE b

NewEntry == [id |-> NoId, n_tiles |-> 0, tiles |-> {}, status |-> Good]

Entry(q) == IF q \in DOMAIN quads THEN quads[q] ELSE NewEntry

Put(qs, q, e) == [p \in DOMAIN qs \cup {q} |-> IF p = q THEN e ELSE qs[p]]

(* Mutant of Loaded: the new entry does not get its id.                    *)
LoadedWithoutId(qs, ids) ==
  [p \in DOMAIN qs \cup ids |-> IF p \in DOMAIN qs THEN qs[p] ELSE NewEntry]

(* m_quads with the entries load(q) for the elements of ids leaves.        *)
Loaded(qs, ids) ==
  [p \in DOMAIN qs \cup ids |->
     IF p \notin ids THEN qs[p]
     ELSE IF p \in DOMAIN qs THEN [qs[p] EXCEPT !.id = p] ELSE [NewEntry EXCEPT !.id = p]]

Erased(qs, q) == [p \in DOMAIN qs \ {q} |-> qs[p]]

(* Mutant of WithTile: the tile is counted, but not kept.                  *)
WithTileCounted(t, status) ==
  LET e == Entry(Parent(t))
  IN  [e EXCEPT !.n_tiles = @ + 1, !.status = Worse(@, status)]

WithTile(t, status) ==
  LET e == Entry(Parent(t))
  IN  [e EXCEPT !.n_tiles = @ + 1, !.tiles = @ \cup {t[2]}, !.status = Worse(@, status)]

(* What deliver_tile emits as quad_loaded: one quad or none.               *)
Completed(t, status) ==
  IF WithTile(t, status).n_tiles = 4 THEN {WithTile(t, status)} ELSE {}

Requested(ld, ids) ==
  [t \in Tiles |-> IF Parent(t) \in ids THEN ld[t] + 1 ELSE ld[t]]

Answered(t) == [loading EXCEPT ![t] = @ - 1]

-----------------------------------------------------------------------------
Init ==
  /\ quads = [q \in {} |-> NewEntry]
  /\ loading = [t \in Tiles |-> 0]

(* load, for each element of ids.                                          *)
Load(ids) ==
  /\ quads' = Loaded(quads, ids)
  /\ loading' = Requested(loading, ids)

(* deliver_tile.  ids are the quads that load is called for while          *)
(* quad_loaded is being handled, before the entry is erased.               *)
DeliverTile(t, status, ids) ==
  /\ loading[t] > 0
  /\ LET with == Loaded(Put(quads, Parent(t), WithTile(t, status)), ids)
     IN  quads' = IF Completed(t, status) = {} THEN with
                  ELSE Erased(with, WithTile(t, status).id)
  /\ loading' = Requested(Answered(t), ids)

-----------------------------------------------------------------------------
(* Entries are of quads, with at most four tiles, and the service owes no  *)
(* negative number of answers.                                             *)
TypeOK ==
  /\ DOMAIN quads \subseteq Quads
  /\ \A q \in DOMAIN quads :
       quads[q] \in [id : Quads \cup {NoId}, n_tiles : 0..4, tiles : SUBSET Children, status : Status]
  /\ loading \in [Tiles -> Nat]

(* Each child of a quad that is being assembled has either arrived or is   *)
(* asked for exactly once; nothing is asked for on behalf of another quad. *)
TilesAccountedFor ==
  \A t \in Tiles :
    loading[t] = IF Parent(t) \in DOMAIN quads /\ t[2] \notin quads[Parent(t)].tiles
                 THEN 1 ELSE 0

(* An entry counts what it holds, holds less than a complete quad, and can *)
(* be removed through its own id.                                          *)
EntriesConsistent ==
  \A q \in DOMAIN quads :
    /\ quads[q].id = q
    /\ quads[q].n_tiles = Cardinality(quads[q].tiles)
    /\ quads[q].n_tiles < 4
=============================================================================
