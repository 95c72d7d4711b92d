---------------------------- MODULE RateLimiter ----------------------------
(***************************************************************************)
(* nucleus::tile::RateLimiter: passes quad requests on in order, at most   *)
(* rate of them in any period, and wakes itself by a single-shot timer     *)
(* while requests wait.                                                    *)
(*                                                                         *)
(* Only differences of clock readings matter, so a stored reading is its   *)
(* age: Tick makes every age grow, up to MaxAge, where all settings agree  *)
(* that it is past its period.                                             *)
(***************************************************************************)
EXTENDS Integers, Sequences, FiniteSets

CONSTANTS
  Ids,             \* the quads that can be requested
  Settings,        \* the [rate, period] pairs set_limit is called with
  DefaultSetting   \* m_rate and m_rate_period_msecs of a new RateLimiter

ASSUME SettingsType ==
  /\ Settings \subseteq [rate : Nat \ {0}, period : Nat]
  /\ \E m \in Settings : \A s \in Settings : s.period <= m.period
  /\ DefaultSetting \in Settings

VARIABLES
  setting,         \* m_rate and m_rate_period_msecs
  rate_queue,      \* m_request_queue
  rate_in_flight,  \* m_in_flight: the ages of the sends, oldest first
  timer,           \* milliseconds until m_update_timer fires, NoTimer if inactive
  recent           \* history: the ages of the sends since set_limit that are in the period

rate_vars == <<setting, rate_queue, rate_in_flight, timer, recent>>

-----------------------------------------------------------------------------
NoTimer == -1

MaxAge == 1 + CHOOSE m \in {s.period : s \in Settings} : \A s \in Settings : s.period <= m

TimerInterval == 1 + setting.period \div 10

Older(ages) == [i \in DOMAIN ages |-> IF ages[i] < MaxAge THEN ages[i] + 1 ELSE MaxAge]

(* Mutant of InPeriod: readings that are out of the period stay.           *)
InPeriodForever(ages) == ages

(* erase_if of the readings that are out of the period; ages descend, so   *)
(* they are a prefix.                                                      *)
InPeriod(ages) ==
  SubSeq(ages, 1 + Cardinality({i \in DOMAIN ages : ages[i] > setting.period}), Len(ages))

(* Mutant of SendNow: one request too many.                                *)
SendNowOneMore(n) ==
  LET free == 1 + setting.rate - Len(InPeriod(rate_in_flight))
  IN  IF free <= 0 THEN 0 ELSE IF n < free THEN n ELSE free

(* How many of n waiting requests process_request_queue sends now.         *)
SendNow(n) ==
  LET free == setting.rate - Len(InPeriod(rate_in_flight))
  IN  IF free <= 0 THEN 0 ELSE IF n < free THEN n ELSE free

Sends(n) == [i \in 1..n |-> 0]

(* What process_request_queue emits when its queue is q.                   *)
Sent(q) == SubSeq(q, 1, SendNow(Len(q)))

-----------------------------------------------------------------------------
RateInit ==
  /\ setting = DefaultSetting
  /\ rate_queue = <<>>
  /\ rate_in_flight = <<>>
  /\ timer = NoTimer
  /\ recent = <<>>

SetRate(s) ==
  /\ setting' = s
  /\ recent' = <<>>
  /\ UNCHANGED <<rate_queue, rate_in_flight, timer>>

(* Mutant of Process: no wake-up for what is left.                         *)
ProcessOnce(q, idle_timer) ==
  LET n == SendNow(Len(q)) IN
  /\ rate_in_flight' = InPeriod(rate_in_flight) \o Sends(n)
  /\ recent' = recent \o Sends(n)
  /\ rate_queue' = SubSeq(q, n + 1, Len(q))
  /\ timer' = idle_timer
  /\ UNCHANGED setting

(* process_request_queue with q waiting.  idle_timer is what the timer is  *)
(* when nothing is left to wait for.                                       *)
Process(q, idle_timer) ==
  LET n == SendNow(Len(q)) IN
  /\ rate_in_flight' = InPeriod(rate_in_flight) \o Sends(n)
  /\ recent' = recent \o Sends(n)
  /\ rate_queue' = SubSeq(q, n + 1, Len(q))
  /\ timer' = IF n < Len(q) THEN TimerInterval ELSE idle_timer
  /\ UNCHANGED setting

(* request_quad, once for each element of ids.  The calls of one handler   *)
(* share a clock reading, so processing once at the end is the same.       *)
RateRequests(ids) ==
  IF ids = <<>> THEN UNCHANGED rate_vars ELSE Process(rate_queue \o ids, timer)

TimerFires ==
  /\ timer = 0
  /\ Process(rate_queue, NoTimer)

(* The clock; the timer may fire late but not early.                       *)
Tick ==
  /\ rate_in_flight' = Older(rate_in_flight)
  /\ recent' = InPeriod(Older(recent))
  /\ timer' = IF timer > 0 THEN timer - 1 ELSE timer
  /\ UNCHANGED <<setting, rate_queue>>

RateNext ==
  \/ \E s \in Settings : SetRate(s)
  \/ \E ids \in Seq(Ids) : RateRequests(ids)
  \/ TimerFires
  \/ Tick

RateFairness == WF_rate_vars(Tick) /\ WF_rate_vars(TimerFires)

RateSpec == RateInit /\ [][RateNext]_rate_vars /\ RateFairness

-----------------------------------------------------------------------------
(* Quads wait in a queue, readings have ages, and the timer is inactive or *)
(* has time left.                                                          *)
RateTypeOK ==
  /\ setting \in Settings
  /\ rate_queue \in Seq(Ids)
  /\ rate_in_flight \in Seq(0..MaxAge)
  /\ timer \in Int /\ timer >= NoTimer
  /\ recent \in Seq(0..MaxAge)

(* In no window of one period are more than rate requests passed on, while *)
(* the settings stay the same.                                             *)
RateHolds == Len(recent) <= setting.rate

(* A request waits only while a wake-up is scheduled: none is forgotten.   *)
WakeUpPending == rate_queue # <<>> => timer # NoTimer
=============================================================================
