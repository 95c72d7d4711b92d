---------------------------- MODULE QuadService ----------------------------
(***************************************************************************)
(* What the loader promises the scheduler: a quad is loaded at most once   *)
(* at a time, at most Limit quads are being loaded, and each of them comes *)
(* back, with its four children and the worst of their statuses, exactly   *)
(* once for each time it was taken up.                                     *)
(***************************************************************************)
EXTENDS Integers, FiniteSets

CONSTANTS Quads, Limit, NoId

VARIABLES
  outstanding,  \* the quads being loaded
  delivered     \* the quad that came back last

vars == <<outstanding, delivered>>

Quad(q) == [id : {q}, n_tiles : {4}, tiles : {1..4}, status : 0..2]

Init ==
  /\ outstanding = {}
  /\ delivered = [id |-> NoId, n_tiles |-> 0, tiles |-> {}, status |-> 0]

TakeUp(S) ==
  /\ S # {}
  /\ S \cap outstanding = {}
  /\ Cardinality(outstanding \cup S) <= Limit
  /\ outstanding' = outstanding \cup S
  /\ UNCHANGED delivered

(* A quad comes back and may make room for one that waits.                 *)
Deliver(q) ==
  /\ q \in outstanding
  /\ delivered' \in Quad(q)
  /\ \E S \in SUBSET (Quads \ outstanding) :
       /\ Cardinality(S) <= 1
       /\ outstanding' = (outstanding \ {q}) \cup S

Next ==
  \/ \E S \in SUBSET Quads : TakeUp(S)
  \/ \E q \in Quads : Deliver(q)

Spec ==
  /\ Init /\ [][Next]_vars
  /\ \A q \in Quads : WF_vars(Deliver(q))
=============================================================================
