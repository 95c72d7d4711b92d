---------------------------- MODULE TilePipeline ----------------------------
(***************************************************************************)
(* The loader that nucleus/tile/setup.h wires together:                    *)
(*                                                                         *)
(*   Scheduler -> SlotLimiter -> RateLimiter -> QuadAssembler -> service   *)
(*   Scheduler <- SlotLimiter <--------------- QuadAssembler <- service    *)
(*                                                                         *)
(* The first four live in one thread and are connected directly, so one    *)
(* event (a request list, a tile that arrives, the rate timer) runs        *)
(* through all of them in a single step.                                   *)
(***************************************************************************)
EXTENDS Integers, Sequences, FiniteSets

CONSTANTS
  Quads, Rank, Limit,        \* see SlotLimiter
  Setting,                   \* see RateLimiter
  NoId,                      \* see QuadAssembler
  Answers                    \* the statuses a network reply can end with

VARIABLES
  slot_limit, slot_in_flight, slot_queue, slot_admit_limit,   \* SlotLimiter
  rate_setting, rate_queue, rate_in_flight, rate_timer, rate_recent, \* RateLimiter
  quads, loading,            \* QuadAssembler and the tile service
  delivered                  \* the quad the scheduler received last

slot_vars == <<slot_limit, slot_in_flight, slot_queue, slot_admit_limit>>
rate_vars == <<rate_setting, rate_queue, rate_in_flight, rate_timer, rate_recent>>
assembler_vars == <<quads, loading>>
vars == <<slot_vars, rate_vars, assembler_vars, delivered>>

Slots == INSTANCE SlotLimiter WITH
  Limits <- {Limit}, DefaultLimit <- Limit, limit <- slot_limit,
  in_flight <- slot_in_flight, request_queue <- slot_queue, admit_limit <- slot_admit_limit

Rate == INSTANCE RateLimiter WITH
  Ids <- Quads, Settings <- {Setting}, DefaultSetting <- Setting,
  setting <- rate_setting, timer <- rate_timer, recent <- rate_recent

Assembler == INSTANCE QuadAssembler

ASSUME QuadsFinite == IsFiniteSet(Quads)
ASSUME RankType ==
  /\ Rank \in [Quads -> Nat]
  /\ \A p, q \in Quads : Rank[p] = Rank[q] => p = q
ASSUME LimitType == Limit \in Nat \ {0}
ASSUME SettingType == Setting.rate \in Nat \ {0} /\ Setting.period \in Nat
ASSUME NoIdType == NoId \notin Quads
ASSUME AnswersType == Answers \subseteq Assembler!Status

Elements(seq) == {seq[i] : i \in DOMAIN seq}

-----------------------------------------------------------------------------
Init ==
  /\ Slots!Init
  /\ Rate!RateInit
  /\ Assembler!Init
  /\ delivered = Assembler!NewEntry

(* Scheduler::quads_requested                                              *)
RequestQuads(ids) ==
  LET admitted == Slots!InOrder(Slots!Admitted(ids)) IN
  /\ Slots!RequestQuads(ids)
  /\ Rate!RateRequests(admitted)
  /\ Assembler!Load(IF admitted = <<>> THEN {} ELSE Elements(Rate!Sent(rate_queue \o admitted)))
  /\ UNCHANGED delivered

(* TileLoadService::load_finished; a fourth tile completes the quad, which *)
(* goes to the scheduler and frees a slot for the next one.                *)
TileArrives(t, status) ==
  /\ Assembler!Completed(t, status) = {}
  /\ Assembler!DeliverTile(t, status, {})
  /\ UNCHANGED <<slot_vars, rate_vars, delivered>>

QuadArrives(t, status) ==
  \E quad \in Assembler!Completed(t, status) :
    LET next == Slots!InOrder(Slots!FirstOf(slot_queue)) IN
    /\ Slots!DeliverQuad(quad.id)
    /\ delivered' = quad
    /\ Rate!RateRequests(next)
    /\ Assembler!DeliverTile(t, status,
         IF next = <<>> THEN {} ELSE Elements(Rate!Sent(rate_queue \o next)))

RateTimerFires ==
  /\ Rate!TimerFires
  /\ Assembler!Load(Elements(Rate!Sent(rate_queue)))
  /\ UNCHANGED <<slot_vars, delivered>>

Tick ==
  /\ Rate!Tick
  /\ UNCHANGED <<slot_vars, assembler_vars, delivered>>

Answer(q) ==
  \E t \in Assembler!Tiles, s \in Answers :
    Assembler!Parent(t) = q /\ (TileArrives(t, s) \/ QuadArrives(t, s))

Next ==
  \/ \E ids \in SUBSET Quads : RequestQuads(ids)
  \/ \E t \in Assembler!Tiles, s \in Answers : TileArrives(t, s)
  \/ \E t \in Assembler!Tiles, s \in Answers : QuadArrives(t, s)
  \/ RateTimerFires
  \/ Tick

(* A reply always finishes: at the latest the transfer timeout ends it.    *)
(* It is enough that, for each quad, one of those that are owed does.      *)
Fairness ==
  /\ WF_vars(Tick)
  /\ WF_vars(RateTimerFires)
  /\ \A q \in Quads : WF_vars(Answer(q))

Spec == Init /\ [][Next]_vars /\ Fairness

-----------------------------------------------------------------------------
(* A quad that holds a slot is in exactly one place: it waits once in the  *)
(* rate limiter, or it is being assembled.  A slot can then neither leak   *)
(* nor be used for two loads of the same quad.                             *)
SlotsAccountedFor ==
  /\ slot_in_flight = Elements(rate_queue) \cup DOMAIN quads
  /\ Elements(rate_queue) \cap DOMAIN quads = {}
  /\ \A i, j \in DOMAIN rate_queue : rate_queue[i] = rate_queue[j] => i = j

(* The assembler's own bookkeeping, under the loads that the limiters let  *)
(* through: each child of a quad that is being assembled has arrived, or   *)
(* is asked for exactly once; nothing is asked for on behalf of another.   *)
TilesAccountedFor == Assembler!TilesAccountedFor

(* An entry counts what it holds, holds less than a complete quad, and is  *)
(* removed through its own id.                                             *)
EntriesConsistent == Assembler!EntriesConsistent

(* Entries of the assembler as in QuadAssembler; the scheduler receives    *)
(* quads, with a status of the network.                                    *)
TypeOK ==
  /\ Assembler!TypeOK
  /\ delivered.id \in Quads \cup {NoId} /\ delivered.status \in Assembler!Status

(* What the scheduler sees of the loader.                                  *)
Service == INSTANCE QuadService WITH outstanding <- slot_in_flight

ServiceSpec == Service!Spec
=============================================================================
