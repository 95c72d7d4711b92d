------------------------------ MODULE Limiters ------------------------------
(***************************************************************************)
(* nucleus::tile::SlotLimiter and RateLimiter as setup.h connects them:    *)
(* a quad that gets a slot is requested from the rate limiter in the same  *)
(* step, and comes back at some time after that has passed it on.  The     *)
(* limits of both change at any time.                                      *)
(***************************************************************************)
EXTENDS SlotLimiter, RateLimiter

(* What gets a slot can be requested from the rate limiter.                *)
ASSUME QuadsAreIds == Quads \subseteq Ids

all_vars == <<vars, rate_vars>>

-----------------------------------------------------------------------------
Waiting == {rate_queue[i] : i \in DOMAIN rate_queue}

LimitersInit == Init /\ RateInit

SetSlotLimit(n) == SetLimit(n) /\ UNCHANGED rate_vars
SetRateLimit(s) == SetRate(s) /\ UNCHANGED vars

(* SlotLimiter::request_quads, with the quads it lets in.                  *)
ListArrives(ids) ==
  /\ RequestQuads(ids)
  /\ RateRequests(InOrder(Admitted(ids)))

(* SlotLimiter::deliver_quad; only what was passed on comes back.          *)
QuadReturns(id) ==
  /\ id \notin Waiting
  /\ DeliverQuad(id)
  /\ RateRequests(InOrder(FirstOf(request_queue)))

TimerRings == TimerFires /\ UNCHANGED vars

TimePasses == Tick /\ UNCHANGED vars

LimitersNext ==
  \/ \E n \in Limits : SetSlotLimit(n)
  \/ \E s \in Settings : SetRateLimit(s)
  \/ \E ids \in SUBSET Quads : ListArrives(ids)
  \/ \E id \in Quads : QuadReturns(id)
  \/ TimerRings
  \/ TimePasses

(* A timer rings once its time has come, and time passes.                  *)
Fairness == WF_all_vars(TimePasses) /\ WF_all_vars(TimerRings)

LimitersSpec == LimitersInit /\ [][LimitersNext]_all_vars /\ Fairness

-----------------------------------------------------------------------------
(* What waits for its turn is passed on in the end, with no further        *)
(* request to help, and however often both limits are changed meanwhile.   *)
QueueDrains == \A q \in Quads : q \in Waiting ~> q \notin Waiting
=============================================================================
