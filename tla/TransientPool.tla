---------------------------- MODULE TransientPool ----------------------------
(***************************************************************************)
(* webgpu::rg::TransientResourcePool: the GPU objects of transient         *)
(* resources, which the graph of a later frame may claim again.  Claims    *)
(* are released when the execute() that made them ends, so they are only   *)
(* known while one list of requests is served.                             *)
(***************************************************************************)
EXTENDS SequencesExt, Lists

CONSTANT
  IdleFrames   \* kRetain

ASSUME IdleFramesType == IdleFrames \in Nat \ {0}

VARIABLE
  transient    \* entries, the newest first

-----------------------------------------------------------------------------
(* A usage flag that must agree exactly: the object has no memory.         *)
Memoryless == "TransientAttachment"

(* transient_usage_satisfies                                               *)
Satisfies(have, want) ==
  /\ want \subseteq have
  /\ Memoryless \in have <=> Memoryless \in want

Serves(e, req) ==
  e.kind = req.kind /\ e.sig = req.sig /\ Satisfies(e.usage, req.usage)

(* acquire: each request claims the newest entry that fits, or 0, a new    *)
(* one.  An entry that is new serves no other request of the list.         *)
Claims(requests) ==
  LET claim[k \in DOMAIN requests] ==
        LET claimed == {claim[j] : j \in 1..(k - 1)}
            fits == {i \in DOMAIN transient :
                       i \notin claimed /\ Serves(transient[i], requests[k])}
        IN  IF fits = {} THEN 0 ELSE Min(fits)
  IN  claim

(* An object is known by its place in the list, counted from the oldest.   *)
ObjectClaimed(claims, k) ==
  IF claims[k] # 0 THEN Len(transient) - claims[k]
  ELSE Len(transient) + Cardinality({j \in 1..(k - 1) : claims[j] = 0})

Created(req) ==
  [kind |-> req.kind, sig |-> req.sig, usage |-> req.usage, identity |-> req.identity,
   idle |-> 0, fresh |-> TRUE]

(* The entries once the requests are served.                               *)
Served(requests, claims) ==
  LET Claimants(i) == {k \in DOMAIN requests : claims[k] = i}
      created == Picked(requests, {k \in DOMAIN requests : claims[k] = 0})
  IN  Backwards([j \in DOMAIN created |-> Created(created[j])])
        \o [i \in DOMAIN transient |->
              IF Claimants(i) = {} THEN transient[i]
              ELSE [transient[i] EXCEPT !.idle = 0, !.identity = requests[Max(Claimants(i))].identity]]

(* Mutant of SupersededBy: any object of another size will do.             *)
SupersededByAny(e, s) ==
  /\ e.kind = s.kind /\ e.idle > 0 /\ s.fresh
  /\ Satisfies(s.usage, e.usage)
  /\ [e.sig EXCEPT !.size = 0] = [s.sig EXCEPT !.size = 0]
  /\ e.sig.size # s.sig.size

(* superseded_by: s was created this frame for what e was last used for,   *)
(* and differs in nothing but its size.                                    *)
SupersededBy(e, s) ==
  /\ e.kind = s.kind /\ e.idle > 0 /\ s.fresh
  /\ e.identity = s.identity
  /\ Satisfies(s.usage, e.usage)
  /\ [e.sig EXCEPT !.size = 0] = [s.sig EXCEPT !.size = 0]
  /\ e.sig.size # s.sig.size

-----------------------------------------------------------------------------
TransientInit == transient = <<>>

(* Mutant of TransientEndFrame: only what is superseded goes.              *)
TransientEndFrameKeeping ==
  LET Stays(e) == \A s \in ToSet(transient) : ~SupersededBy(e, s)
      kept == Picked(transient, {i \in DOMAIN transient : Stays(transient[i])})
  IN  transient' = [i \in DOMAIN kept |-> [kept[i] EXCEPT !.idle = @ + 1, !.fresh = FALSE]]

(* end_frame                                                               *)
TransientEndFrame ==
  LET Stays(e) == /\ e.idle < IdleFrames
                  /\ \A s \in ToSet(transient) : ~SupersededBy(e, s)
      kept == Picked(transient, {i \in DOMAIN transient : Stays(transient[i])})
  IN  transient' = [i \in DOMAIN kept |-> [kept[i] EXCEPT !.idle = @ + 1, !.fresh = FALSE]]
=============================================================================
