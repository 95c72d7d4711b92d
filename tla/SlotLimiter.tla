---------------------------- MODULE SlotLimiter ----------------------------
(***************************************************************************)
(* nucleus::tile::SlotLimiter: bounds how many quads are being loaded at   *)
(* once.  A camera update replaces the list of quads that are waiting; a   *)
(* delivered quad hands its slot to the first quad that waits.             *)
(*                                                                         *)
(* The lists the Scheduler sends name each quad once and follow one fixed  *)
(* order, the traversal of the quad tree.  A list is therefore a set, and  *)
(* "first" means least in Rank.  What a handler emits is an operator, so   *)
(* that a module that composes the pipeline can pass it on in the same     *)
(* step.                                                                   *)
(***************************************************************************)
EXTENDS Integers, FiniteSets

CONSTANTS
  Quads,        \* the quads that can be requested
  Rank,         \* position of a quad in the traversal of the quad tree
  Limits,       \* the values set_limit is called with
  DefaultLimit  \* m_limit of a new SlotLimiter

ASSUME QuadsFinite == IsFiniteSet(Quads)
ASSUME RankType ==
  /\ Rank \in [Quads -> Nat]
  /\ \A p, q \in Quads : Rank[p] = Rank[q] => p = q
ASSUME LimitsType == Limits \subseteq Nat \ {0} /\ DefaultLimit \in Limits

VARIABLES
  limit,          \* m_limit
  in_flight,      \* m_in_flight
  request_queue,  \* m_request_queue, as the set of its elements
  admit_limit     \* history: the limit the last request_quads worked with

vars == <<limit, in_flight, request_queue, admit_limit>>

-----------------------------------------------------------------------------
Before(q, S) == {p \in S : Rank[p] < Rank[q]}

(* The first element of S in traversal order: a singleton, or {} if S is.  *)
FirstOf(S) == {q \in S : Before(q, S) = {}}

(* The elements of S as the sequence of their emission.                    *)
InOrder(S) ==
  [i \in 1..Cardinality(S) |-> CHOOSE q \in S : Cardinality(Before(q, S)) = i - 1]

(* Mutant of Fresh: quads that are in flight are not filtered out.         *)
FreshUnfiltered(ids) == ids

Fresh(ids) == ids \ in_flight

(* Mutant of Admitted: one quad too many.                                  *)
AdmittedOneMore(ids) ==
  {q \in Fresh(ids) : Cardinality(Before(q, Fresh(ids))) <= limit - Cardinality(in_flight)}

(* The loop of request_quads: a quad gets a slot while slots are free.     *)
Admitted(ids) ==
  {q \in Fresh(ids) : Cardinality(Before(q, Fresh(ids))) < limit - Cardinality(in_flight)}

-----------------------------------------------------------------------------
Init ==
  /\ limit = DefaultLimit
  /\ in_flight = {}
  /\ request_queue = {}
  /\ admit_limit = DefaultLimit

SetLimit(new_limit) ==
  /\ limit' = new_limit
  /\ UNCHANGED <<in_flight, request_queue, admit_limit>>

RequestQuads(ids) ==
  /\ in_flight' = in_flight \cup Admitted(ids)
  /\ request_queue' = Fresh(ids) \ Admitted(ids)
  /\ admit_limit' = limit
  /\ UNCHANGED limit

(* Mutant of DeliverQuad: the slot is freed, but nobody is let in.         *)
DeliverQuadOnly(id) ==
  /\ id \in in_flight
  /\ in_flight' = in_flight \ {id}
  /\ UNCHANGED <<limit, request_queue, admit_limit>>

(* A quad comes back, loaded or failed.  The limit is not looked at: the   *)
(* slot goes to the first waiting quad.                                    *)
DeliverQuad(id) ==
  /\ id \in in_flight
  /\ in_flight' = (in_flight \ {id}) \cup FirstOf(request_queue)
  /\ request_queue' = request_queue \ FirstOf(request_queue)
  /\ UNCHANGED <<limit, admit_limit>>

Next ==
  \/ \E n \in Limits : SetLimit(n)
  \/ \E ids \in SUBSET Quads : RequestQuads(ids)
  \/ \E id \in Quads : DeliverQuad(id)

Spec == Init /\ [][Next]_vars

-----------------------------------------------------------------------------
(* Quads are in flight or wait, under a limit that set_limit was given.    *)
TypeOK ==
  /\ limit \in Limits
  /\ in_flight \subseteq Quads
  /\ request_queue \subseteq Quads
  /\ admit_limit \in Limits

(* A quad that is being loaded never waits as well: it would be loaded a   *)
(* second time as soon as a slot is free.                                  *)
NeverWaitsInFlight == in_flight \cap request_queue = {}

(* Quads wait only while all the slots that were there when they were      *)
(* requested are taken, through any number of deliveries.                  *)
WorkConserving ==
  request_queue # {} => Cardinality(in_flight) >= admit_limit

(* The load never grows past the limit in force, and a limit that was      *)
(* lowered is reached from above: no step adds a load while at or over it. *)
GrowsWithinLimit ==
  [][Cardinality(in_flight') > Cardinality(in_flight)
       => Cardinality(in_flight') <= limit]_vars
=============================================================================
