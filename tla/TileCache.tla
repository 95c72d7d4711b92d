----------------------------- MODULE TileCache -----------------------------
(***************************************************************************)
(* nucleus::tile::Cache<T> in memory, as operators on its value: a         *)
(* function from the cached ids to what is stored, a record with at least  *)
(* the field visited.  Ids are the nodes of the quad tree; the place of an *)
(* id in the tree is given by its ancestors.                               *)
(***************************************************************************)
EXTENDS Integers, FiniteSets

CONSTANTS
  Quads,      \* the nodes of the quad tree
  Ancestors   \* the proper ancestors of each node, up to the root

ASSUME TreeType ==
  /\ IsFiniteSet(Quads)
  /\ Ancestors \in [Quads -> SUBSET Quads]
  /\ \A q \in Quads : q \notin Ancestors[q]
  /\ \A q \in Quads : \A p \in Ancestors[q] : Ancestors[p] \subseteq Ancestors[q]
  /\ \A q \in Quads : \A p, r \in Ancestors[q] :
       p = r \/ p \in Ancestors[r] \/ r \in Ancestors[p]
  /\ \A p, q \in Quads : Ancestors[p] = {} /\ Ancestors[q] = {} => p = q

Zoom(q) == Cardinality(Ancestors[q])

(* The subset of S that a traversal from the root through members of S     *)
(* arrives at.                                                             *)
Reached(S) == {q \in S : Ancestors[q] \subseteq S}

(* A set of nodes without gaps: every node has its parent.                 *)
TopDown(S) == Reached(S) = S

(* Mutant of VisitStamp: the zoom level is left out.                       *)
VisitStampFlat(q, now) == now * 100

(* The time of the last visit, made so that a parent counts as more        *)
(* recently visited than its children.                                     *)
VisitStamp(q, now) == now * 100 - Zoom(q)

-----------------------------------------------------------------------------
Empty == [q \in {} |-> 0]

(* insert, for each quad of S; data gives the remaining fields.            *)
Inserted(cache, S, data) ==
  [q \in DOMAIN cache \cup S |-> IF q \in S THEN data[q] ELSE cache[q]]

(* visit, with a functor that is true for the members of S.                *)
Visited(cache, S, now) ==
  LET hit == Reached(DOMAIN cache \cap S)
  IN  [q \in DOMAIN cache |->
         IF q \in hit THEN [cache[q] EXCEPT !.visited = VisitStamp(q, now)] ELSE cache[q]]

Without(cache, S) == [q \in DOMAIN cache \ S |-> cache[q]]

(* What purge(n) may remove: all but n ids, none of which was visited more *)
(* recently than one that stays.  nth_element breaks ties arbitrarily.     *)
Purges(cache, n) ==
  IF n >= Cardinality(DOMAIN cache) THEN {{}}
  ELSE {P \in SUBSET DOMAIN cache :
          /\ Cardinality(DOMAIN cache \ P) = n
          /\ \A p \in P, q \in DOMAIN cache \ P : cache[p].visited <= cache[q].visited}
=============================================================================
