------------------------- MODULE SchedulerLoopProofs -------------------------
(***************************************************************************)
(* Between two updates nothing of the view is forgotten, nothing is loaded *)
(* twice, and once a quad has come back memory that is over its limit has  *)
(* a purge coming: for every quad tree, any order of traversal, any        *)
(* limits, any number of slots and anything that was found on disk.        *)
(***************************************************************************)
EXTENDS SchedulerLoop, FiniteSetTheorems, TLAPS

(* Each instance brings its own Cardinality, which is the same.            *)
LEMMA SameCardinality ==
  \A S : Sched!Cardinality(S) = Cardinality(S)
BY DEF Sched!Cardinality, Cardinality

(* What is inductive with the three properties.  Only an enabled scheduler *)
(* asks for quads, so what it receives finds it enabled and schedules what *)
(* follows, and the disk is read before any arrives; and a quad has a slot *)
(* or waits for one, but never both.                                       *)
LoopTypeOK ==
  /\ enabled \in BOOLEAN /\ update_timer \in BOOLEAN /\ purge_timer \in BOOLEAN
  /\ arrived \in BOOLEAN
  /\ ram_quad_limit \in RamLimits
  /\ DOMAIN ram \subseteq Quads
  /\ \A q \in DOMAIN ram : "retired" \in DOMAIN ram[q]

OnlyEnabledAsks == update_timer \/ arrived \/ in_flight \cup request_queue # {} => enabled

LoopInv ==
  /\ LoopTypeOK
  /\ OnlyEnabledAsks
  /\ in_flight \cap request_queue = {}
  /\ LoadsOnlyMissing
  /\ PurgeIsScheduled
  /\ ViewIsRequested

-----------------------------------------------------------------------------
(* A visit changes nothing but time stamps.                                *)
LEMMA VisitKeepsRetired ==
  ASSUME NEW S, \A q \in DOMAIN ram : "retired" \in DOMAIN ram[q]
  PROVE  LET after == Sched!Visited(ram, S, now) IN
         /\ DOMAIN after = DOMAIN ram
         /\ \A q \in DOMAIN ram : "retired" \in DOMAIN after[q] /\ after[q].retired = ram[q].retired
<1> DEFINE after == Sched!Visited(ram, S, now)
           hit == Sched!Reached(DOMAIN ram \cap S)
<1>1. /\ DOMAIN after = DOMAIN ram
      /\ \A q \in DOMAIN ram :
           after[q] = IF q \in hit THEN [ram[q] EXCEPT !.visited = Sched!VisitStamp(q, now)]
                      ELSE ram[q]
  BY DEF Sched!Visited
<1> HIDE DEF after, hit
<1>2. \A q \in DOMAIN ram : "retired" \in DOMAIN after[q] /\ after[q].retired = ram[q].retired
  BY <1>1
<1>3. QED BY <1>1, <1>2 DEF after

(* A purge leaves quads as they were, and no more than its limit.          *)
LEMMA PurgeShrinks ==
  ASSUME NEW cache, DOMAIN cache \subseteq Quads, NEW n \in Nat, NEW P \in Sched!Purges(cache, n)
  PROVE  LET left == Sched!Without(cache, P) IN
         /\ DOMAIN left \subseteq DOMAIN cache
         /\ \A q \in DOMAIN left : left[q] = cache[q]
         /\ Cardinality(DOMAIN left) <= n
<1> DEFINE left == Sched!Without(cache, P)
<1>1. DOMAIN left = DOMAIN cache \ P /\ \A q \in DOMAIN left : left[q] = cache[q]
  BY DEF Sched!Without
<1> HIDE DEF left
<1>2. IsFiniteSet(DOMAIN cache) /\ Cardinality(DOMAIN cache) \in Nat
  BY LimitsType, FS_Subset, FS_CardinalityType
<1>3. CASE n >= Cardinality(DOMAIN cache)
  <2>1. P = {}
    BY <1>3, SameCardinality DEF Sched!Purges
  <2>2. QED BY <1>1, <1>3, <2>1 DEF left
<1>4. CASE ~(n >= Cardinality(DOMAIN cache))
  <2>1. Cardinality(DOMAIN cache \ P) = n
    BY <1>4, SameCardinality DEF Sched!Purges
  <2>2. QED BY <1>1, <2>1 DEF left
<1>5. QED BY <1>3, <1>4

(* The slack only adds to the limit.                                       *)
LEMMA ToleratedAbove ==
  ASSUME ram_quad_limit \in RamLimits
  PROVE  Sched!Tolerated \in Nat /\ ram_quad_limit \in Nat /\ ram_quad_limit <= Sched!Tolerated
<1>1. ram_quad_limit \in Nat /\ SlackDivisor \in Nat \ {0}
  BY LimitsType
<1>2. ram_quad_limit \div SlackDivisor \in Nat
  BY <1>1
<1>3. QED BY <1>1, <1>2 DEF Sched!Tolerated

-----------------------------------------------------------------------------
(* The update asks for what is missing, and for nothing else.              *)
LEMMA UpdateKeeps ==
  ASSUME LoopInv, NEW P, UpdateTimeout(P)
  PROVE  LoopInv'
<1>1. /\ update_timer /\ update_timer' = FALSE
      /\ ram' = Sched!Visited(ram, Sched!Presentable, now)
      /\ UNCHANGED <<camera, ram_quad_limit, enabled, network, purge_timer>>
  BY DEF UpdateTimeout, Sched!UpdateTimeout, Sched!limits, Sched!switches
<1>a. UNCHANGED arrived
  BY DEF UpdateTimeout, history
<1>2. /\ DOMAIN ram' = DOMAIN ram
      /\ \A q \in DOMAIN ram : "retired" \in DOMAIN ram'[q] /\ ram'[q].retired = ram[q].retired
  BY <1>1, VisitKeepsRetired DEF LoopInv, LoopTypeOK
<1>3. LoopTypeOK' /\ enabled'
  BY <1>1, <1>a, <1>2 DEF LoopInv, LoopTypeOK, OnlyEnabledAsks
<1>4. PurgeIsScheduled'
  BY <1>1, <1>a, <1>2 DEF LoopInv, PurgeIsScheduled, Sched!Tolerated
<1>5. CASE network
  <2>1. /\ in_flight' = in_flight \cup Slots!Admitted(Sched!Missing)
        /\ request_queue' = Slots!Fresh(Sched!Missing) \ Slots!Admitted(Sched!Missing)
    BY <1>5 DEF UpdateTimeout, Slots!RequestQuads
  <2>2. /\ Slots!Fresh(Sched!Missing) = Sched!Missing \ in_flight
        /\ Slots!Admitted(Sched!Missing) \subseteq Sched!Missing \ in_flight
    BY DEF Slots!Fresh, Slots!Admitted
  <2>3. in_flight' \cap request_queue' = {} /\ in_flight' \cup request_queue' = in_flight \cup Sched!Missing
    BY <2>1, <2>2
  <2>4. LoadsOnlyMissing'
    BY <1>2, <2>3 DEF LoopInv, LoadsOnlyMissing, Sched!Missing
  <2>5. ViewIsRequested'
    BY <1>1, <1>2, <2>3 DEF ViewIsRequested, Sched!Missing
  <2>6. QED BY <1>3, <1>4, <2>3, <2>4, <2>5 DEF LoopInv, OnlyEnabledAsks
<1>6. CASE ~network
  <2>1. UNCHANGED <<in_flight, request_queue>>
    BY <1>6 DEF UpdateTimeout, slot_vars
  <2>2. LoadsOnlyMissing'
    BY <1>2, <2>1 DEF LoopInv, LoadsOnlyMissing
  <2>3. ViewIsRequested'
    BY <1>1, <1>6 DEF ViewIsRequested
  <2>4. QED BY <1>3, <1>4, <2>1, <2>2, <2>3 DEF LoopInv, OnlyEnabledAsks
<1>7. QED BY <1>5, <1>6

(* A quad that comes back leaves the loader and is in memory, or counts as *)
(* failed; its slot goes to one that waits.                                *)
LEMMA DeliverKeeps ==
  ASSUME LoopInv, NEW q \in Quads, NEW status, QuadDelivered(q, status)
  PROVE  LoopInv'
<1>1. /\ q \in in_flight
      /\ in_flight' = (in_flight \ {q}) \cup Slots!FirstOf(request_queue)
      /\ request_queue' = request_queue \ Slots!FirstOf(request_queue)
  BY DEF QuadDelivered, Slots!DeliverQuad
<1>2. Slots!FirstOf(request_queue) \subseteq request_queue
  BY DEF Slots!FirstOf
<1>3. /\ in_flight' \cap request_queue' = {}
      /\ in_flight' \cup request_queue' = (in_flight \cup request_queue) \ {q}
  BY <1>1, <1>2 DEF LoopInv
<1>4. enabled
  BY <1>1 DEF LoopInv, OnlyEnabledAsks
<1>5. UNCHANGED <<camera, ram_quad_limit, enabled, network, purged>>
  BY DEF QuadDelivered, Sched!ReceiveQuad, Sched!limits, Sched!switches
<1>6. CASE status = Sched!NetworkError
  <2>1. /\ UNCHANGED <<ram, update_timer, purge_timer>> /\ failed' = failed \cup {q}
        /\ arrived' = (arrived \/ FALSE)
    BY <1>6 DEF QuadDelivered, Sched!ReceiveQuad, Sched!timers
  <2>2. LoopTypeOK' /\ PurgeIsScheduled'
    BY <1>5, <2>1 DEF LoopInv, LoopTypeOK, PurgeIsScheduled, Sched!Tolerated
  <2>3. LoadsOnlyMissing'
    BY <1>3, <2>1 DEF LoopInv, LoadsOnlyMissing
  <2>4. ViewIsRequested'
    BY <1>3, <1>5, <2>1 DEF LoopInv, ViewIsRequested
  <2>5. QED BY <1>3, <1>4, <1>5, <2>2, <2>3, <2>4 DEF LoopInv, OnlyEnabledAsks
<1>7. CASE status # Sched!NetworkError
  <2> DEFINE e == [visited |-> Sched!VisitStamp(q, now),
                   status |-> Sched!KeptStatus(q, status), retired |-> FALSE]
  <2>1. /\ ram' = Sched!Inserted(ram, {q}, [p \in {q} |-> e])
        /\ purge_timer' = (purge_timer \/ enabled) /\ update_timer' = (update_timer \/ enabled)
    BY <1>7 DEF QuadDelivered, Sched!ReceiveQuad, Sched!SchedulePurge, Sched!ScheduleUpdate
  <2>2. DOMAIN ram' = DOMAIN ram \cup {q} /\ ram'[q] = e /\ \A p \in DOMAIN ram \ {q} : ram'[p] = ram[p]
    BY <2>1 DEF Sched!Inserted
  <2>3. purge_timer' = TRUE /\ update_timer' = TRUE
    BY <1>4, <2>1
  <2>4. LoopTypeOK'
    <3>1. arrived' \in BOOLEAN
      BY DEF QuadDelivered
    <3>2. QED BY <1>5, <2>2, <2>3, <3>1 DEF LoopInv, LoopTypeOK
  <2>5. LoadsOnlyMissing'
    BY <1>3, <2>2 DEF LoopInv, LoadsOnlyMissing
  <2>6. PurgeIsScheduled' /\ ViewIsRequested'
    BY <2>3 DEF PurgeIsScheduled, ViewIsRequested
  <2>7. QED BY <1>3, <1>4, <1>5, <2>4, <2>5, <2>6 DEF LoopInv, OnlyEnabledAsks
<1>8. QED BY <1>6, <1>7

(* A purge brings memory below its limit.                                  *)
LEMMA PurgeKeeps ==
  ASSUME LoopInv, PurgeTimeout
  PROVE  LoopInv'
<1>1. /\ purge_timer' = FALSE
      /\ purged' = purged \cup (DOMAIN ram \ DOMAIN ram')
      /\ UNCHANGED <<camera, ram_quad_limit, enabled, network, update_timer, in_flight,
                     request_queue, failed, arrived>>
  BY DEF PurgeTimeout, Sched!PurgeTimeout, Sched!limits, Sched!switches, slot_vars
<1>2. ram_quad_limit \in RamLimits /\ DOMAIN ram \subseteq Quads
  BY DEF LoopInv, LoopTypeOK
<1>3. Sched!Tolerated \in Nat /\ ram_quad_limit \in Nat /\ ram_quad_limit <= Sched!Tolerated
  BY <1>2, ToleratedAbove
<1>4. Sched!Tolerated' = Sched!Tolerated
  BY <1>1 DEF Sched!Tolerated
<1>5. /\ DOMAIN ram' \subseteq DOMAIN ram
      /\ \A q \in DOMAIN ram' : "retired" \in DOMAIN ram'[q] /\ ram'[q].retired = ram[q].retired
      /\ Cardinality(DOMAIN ram') <= Sched!Tolerated
  <2>1. CASE Cardinality(DOMAIN ram) <= Sched!Tolerated
    BY <2>1, SameCardinality DEF PurgeTimeout, Sched!PurgeTimeout, LoopInv, LoopTypeOK
  <2>2. CASE ~(Cardinality(DOMAIN ram) <= Sched!Tolerated)
    <3> DEFINE cache == Sched!Visited(ram, camera, now)
    <3>1. PICK P \in Sched!Purges(cache, ram_quad_limit) : ram' = Sched!Without(cache, P)
      BY <2>2, SameCardinality DEF PurgeTimeout, Sched!PurgeTimeout
    <3>2. /\ DOMAIN cache = DOMAIN ram
          /\ \A q \in DOMAIN ram : "retired" \in DOMAIN cache[q] /\ cache[q].retired = ram[q].retired
      BY VisitKeepsRetired DEF LoopInv, LoopTypeOK
    <3> HIDE DEF cache
    <3>3. /\ DOMAIN ram' \subseteq DOMAIN cache
          /\ \A q \in DOMAIN ram' : ram'[q] = cache[q]
          /\ Cardinality(DOMAIN ram') <= ram_quad_limit
      BY <1>2, <1>3, <3>1, <3>2, PurgeShrinks
    <3>4. Cardinality(DOMAIN ram') \in Nat
      BY <1>2, <3>2, <3>3, LimitsType, FS_Subset, FS_CardinalityType
    <3>5. QED BY <1>3, <3>2, <3>3, <3>4
  <2>3. QED BY <2>1, <2>2
<1>6. Cardinality(DOMAIN ram') \in Nat
  BY <1>2, <1>5, LimitsType, FS_Subset, FS_CardinalityType
<1>7. PurgeIsScheduled'
  BY <1>3, <1>4, <1>5, <1>6 DEF PurgeIsScheduled
<1>8. LoopTypeOK' /\ OnlyEnabledAsks' /\ (in_flight \cap request_queue = {})'
  BY <1>1, <1>5 DEF LoopInv, LoopTypeOK, OnlyEnabledAsks
<1>9. LoadsOnlyMissing'
  BY <1>1, <1>5 DEF LoopInv, LoadsOnlyMissing
<1>10. ViewIsRequested'
  BY <1>1 DEF LoopInv, ViewIsRequested
<1>11. QED BY <1>7, <1>8, <1>9, <1>10 DEF LoopInv

LEMMA ClearKeeps ==
  ASSUME LoopInv, ClearAndEnable
  PROVE  LoopInv'
<1>1. /\ DOMAIN ram' = {} /\ enabled' = TRUE /\ update_timer' = TRUE
      /\ UNCHANGED <<ram_quad_limit, purge_timer, in_flight, request_queue, arrived>>
  BY DEF ClearAndEnable, Sched!Empty, slot_vars, history
<1>2. ram_quad_limit \in RamLimits
  BY DEF LoopInv, LoopTypeOK
<1>3. Sched!Tolerated' \in Nat
  BY <1>1, <1>2, ToleratedAbove DEF Sched!Tolerated
<1>4. ~(Cardinality(DOMAIN ram') > Sched!Tolerated')
  BY <1>1, <1>3, FS_EmptySet
<1>5. PurgeIsScheduled' /\ ViewIsRequested' /\ LoadsOnlyMissing'
  BY <1>1, <1>4 DEF PurgeIsScheduled, ViewIsRequested, LoadsOnlyMissing
<1>6. QED BY <1>1, <1>5 DEF LoopInv, LoopTypeOK, OnlyEnabledAsks

(* The handlers that change neither what is in memory nor what is loaded,  *)
(* and make the scheduler look at the view again if they change that.      *)
LEMMA ApartKeeps ==
  ASSUME LoopInv, Apart, UNCHANGED <<ram, ram_quad_limit, purge_timer>>,
         enabled' \in BOOLEAN, enabled => enabled', update_timer' \in BOOLEAN,
         update_timer' => enabled',
         \/ UNCHANGED <<camera, enabled, network, update_timer>>
         \/ enabled' /\ network' => update_timer'
  PROVE  LoopInv'
<1>1. UNCHANGED <<in_flight, request_queue, failed, purged, arrived>>
  BY DEF Apart, slot_vars, history
<1>2. LoopTypeOK' /\ OnlyEnabledAsks' /\ (in_flight \cap request_queue = {})'
  BY <1>1 DEF LoopInv, LoopTypeOK, OnlyEnabledAsks
<1>3. LoadsOnlyMissing' /\ PurgeIsScheduled'
  BY <1>1 DEF LoopInv, LoadsOnlyMissing, PurgeIsScheduled, Sched!Tolerated
<1>4. ViewIsRequested'
  BY <1>1 DEF LoopInv, ViewIsRequested
<1>5. QED BY <1>2, <1>3, <1>4 DEF LoopInv

LEMMA RetireKeeps ==
  ASSUME LoopInv, NEW q, Retire(q)
  PROVE  LoopInv'
<1>1. /\ q \in DOMAIN ram /\ ram' = [ram EXCEPT ![q].retired = TRUE]
      /\ UNCHANGED <<camera, ram_quad_limit, enabled, network, update_timer, purge_timer>>
      /\ UNCHANGED <<in_flight, request_queue, failed, purged, arrived>>
  BY DEF Retire, Sched!Retire, Sched!limits, Sched!switches, Sched!timers, Apart, slot_vars, history
<1>2. /\ DOMAIN ram' = DOMAIN ram
      /\ ram'[q] = [ram[q] EXCEPT !.retired = TRUE]
      /\ \A p \in DOMAIN ram \ {q} : ram'[p] = ram[p]
  BY <1>1
<1>3. "retired" \in DOMAIN ram[q]
  BY <1>1 DEF LoopInv, LoopTypeOK
<1>4. "retired" \in DOMAIN ram'[q] /\ ram'[q].retired = TRUE
  BY <1>2, <1>3
<1>5. LoopTypeOK' /\ OnlyEnabledAsks' /\ (in_flight \cap request_queue = {})'
  BY <1>1, <1>2, <1>4 DEF LoopInv, LoopTypeOK, OnlyEnabledAsks
<1>6. LoadsOnlyMissing'
  BY <1>1, <1>2, <1>4 DEF LoopInv, LoadsOnlyMissing
<1>7. PurgeIsScheduled' /\ ViewIsRequested'
  BY <1>1, <1>2 DEF LoopInv, PurgeIsScheduled, ViewIsRequested, Sched!Tolerated
<1>8. QED BY <1>5, <1>6, <1>7 DEF LoopInv

(* What is read from disk is read before anything is asked for.            *)
LEMMA ReadKeeps ==
  ASSUME LoopInv, ReadDiskCache
  PROVE  LoopInv'
<1>1. /\ ~enabled /\ UNCHANGED <<ram_quad_limit, enabled, update_timer, purge_timer>>
      /\ UNCHANGED <<in_flight, request_queue, arrived>>
  BY DEF ReadDiskCache, Sched!ReadDiskCache, Sched!limits, Sched!switches, Sched!timers, Apart,
     slot_vars, history
<1>2. ~update_timer /\ ~arrived /\ in_flight \cup request_queue = {}
  BY <1>1 DEF LoopInv, OnlyEnabledAsks
<1>3. /\ DOMAIN ram' \subseteq Quads
      /\ \A q \in DOMAIN ram' : "retired" \in DOMAIN ram'[q]
  <2>1. PICK S \in SUBSET Quads :
          \E at \in [S -> 0..now], absent \in SUBSET (S \cap Deep), old \in SUBSET (S \cap Retiring) :
            ram' = Sched!Remembered(S, at, absent, old)
    BY DEF ReadDiskCache, Sched!ReadDiskCache
  <2>2. DOMAIN ram' = S /\ \A q \in S : "retired" \in DOMAIN ram'[q]
    BY <2>1 DEF Sched!Remembered
  <2>3. QED BY <2>2
<1>4. LoopTypeOK'
  BY <1>1, <1>3 DEF LoopInv, LoopTypeOK
<1>5. OnlyEnabledAsks' /\ LoadsOnlyMissing' /\ PurgeIsScheduled' /\ ViewIsRequested'
  BY <1>1, <1>2 DEF OnlyEnabledAsks, LoadsOnlyMissing, PurgeIsScheduled, ViewIsRequested
<1>6. QED BY <1>1, <1>4, <1>5 DEF LoopInv

-----------------------------------------------------------------------------
LEMMA LoopInvHolds ==
  ASSUME LoopInv, [Next]_vars
  PROVE  LoopInv'
<1>1. /\ enabled \in BOOLEAN /\ update_timer \in BOOLEAN /\ (update_timer => enabled)
  BY DEF LoopInv, LoopTypeOK, OnlyEnabledAsks
<1>2. CASE UNCHANGED vars
  <2>1. /\ Apart
        /\ UNCHANGED <<ram, ram_quad_limit, purge_timer, camera, enabled, network, update_timer>>
    BY <1>2 DEF vars, scheduler_vars, Apart, history
  <2>2. QED BY <1>1, <2>1, ApartKeeps
<1>3. ASSUME NEW view \in Sched!Cameras, UpdateCamera(view)
      PROVE  LoopInv'
  <2>1. /\ Apart /\ UNCHANGED <<ram, ram_quad_limit, purge_timer, enabled, network>>
        /\ update_timer' = (update_timer \/ enabled)
    BY <1>3 DEF UpdateCamera, Sched!UpdateCamera, Sched!ScheduleUpdate, Sched!limits, Sched!switches
  <2>2. QED BY <1>1, <2>1, ApartKeeps
<1>4. ASSUME NEW b \in BOOLEAN, SetNetworkReachability(b)
      PROVE  LoopInv'
  <2>1. /\ Apart /\ UNCHANGED <<ram, ram_quad_limit, purge_timer, enabled, camera>>
        /\ network' = b
        /\ update_timer' = IF b THEN update_timer \/ enabled ELSE update_timer
    BY <1>4 DEF SetNetworkReachability, Sched!SetNetworkReachability, Sched!ScheduleUpdate, Sched!limits
  <2>2. QED BY <1>1, <2>1, ApartKeeps
<1>5. CASE SetEnabled
  <2>1. /\ Apart /\ UNCHANGED <<ram, ram_quad_limit, purge_timer, network, camera>>
        /\ enabled' = TRUE /\ update_timer' = TRUE
    BY <1>1, <1>5 DEF SetEnabled, Sched!SetEnabled, Sched!limits
  <2>2. QED BY <1>1, <2>1, ApartKeeps
<1>6. CASE PersistTimeout
  <2>1. /\ Apart
        /\ UNCHANGED <<ram, ram_quad_limit, purge_timer, camera, enabled, network, update_timer>>
    BY <1>6 DEF PersistTimeout, Sched!PersistTimeout, Sched!limits, Sched!switches
  <2>2. QED BY <1>1, <2>1, ApartKeeps
<1>7. QED
  BY <1>2, <1>3, <1>4, <1>5, <1>6, ClearKeeps, RetireKeeps, ReadKeeps,
     UpdateKeeps, DeliverKeeps, PurgeKeeps
  DEF Next, Disturbance

LEMMA LoopInvStarts == Init => LoopInv
<1> SUFFICES ASSUME Init PROVE LoopInv
  OBVIOUS
<1>1. /\ DOMAIN ram = {} /\ enabled = FALSE /\ update_timer = FALSE /\ purge_timer = FALSE
      /\ ram_quad_limit \in RamLimits /\ in_flight = {} /\ request_queue = {}
      /\ arrived = FALSE
  BY DEF Init, Sched!Init, Sched!Empty, Slots!Init
<1>2. QED
  BY <1>1 DEF LoopInv, LoopTypeOK, OnlyEnabledAsks, LoadsOnlyMissing, PurgeIsScheduled,
     ViewIsRequested

(* send_quad_requests and what schedules it: between two updates every     *)
(* quad of the view is in memory or on its way, or it failed or was purged *)
(* since it was last asked for.                                            *)
THEOREM NothingForgotten == Spec => []ViewIsRequested
<1>1. LoopInv /\ [Next]_vars => LoopInv'
  BY LoopInvHolds
<1>2. LoopInv => ViewIsRequested
  BY DEF LoopInv
<1>3. QED BY LoopInvStarts, <1>1, <1>2, PTL DEF Spec

(* Nothing is loaded, or waits to be, that is in memory and up to date.    *)
THEOREM NothingLoadedTwice == Spec => []LoadsOnlyMissing
<1>1. LoopInv /\ [Next]_vars => LoopInv'
  BY LoopInvHolds
<1>2. LoopInv => LoadsOnlyMissing
  BY DEF LoopInv
<1>3. QED BY LoopInvStarts, <1>1, <1>2, PTL DEF Spec

(* Once a quad has come back, memory that is over its limit by more than   *)
(* the slack has a purge coming, even if the disk filled it: receive_quad  *)
(* schedules one for all of memory, and as only an enabled scheduler has   *)
(* asked for quads it is not ignored; and the disk is not read again.      *)
THEOREM PurgeComes == Spec => []PurgeIsScheduled
<1>1. LoopInv /\ [Next]_vars => LoopInv'
  BY LoopInvHolds
<1>2. LoopInv => PurgeIsScheduled
  BY DEF LoopInv
<1>3. QED BY LoopInvStarts, <1>1, <1>2, PTL DEF Spec
=============================================================================
