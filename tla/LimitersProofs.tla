--------------------------- MODULE LimitersProofs ---------------------------
(***************************************************************************)
(* The slot limiter keeps the load within its limit and its slots busy,    *)
(* the rate limiter keeps its rate and forgets no request, for any finite  *)
(* set of quads, any limits and any settings; and so do both as they are   *)
(* wired.                                                                  *)
(***************************************************************************)
EXTENDS Limiters, FiniteSetTheorems, SequenceTheorems, WellFoundedInduction, TLAPS

(* Type correctness: the limit in force is one that set_limit was given.   *)
THEOREM TypeCorrect == Spec => []TypeOK
<1>1. Init => TypeOK
  BY LimitsType DEF Init, TypeOK
<1>2. TypeOK /\ [Next]_vars => TypeOK'
  BY DEF TypeOK, Next, vars, SetLimit, RequestQuads, DeliverQuad, Fresh, Admitted, FirstOf
<1>3. QED BY <1>1, <1>2, PTL DEF Spec

(* A quad is never waiting and in flight at once.                          *)
THEOREM NeverWaits == Spec => []NeverWaitsInFlight
<1>1. Init => NeverWaitsInFlight
  BY DEF Init, NeverWaitsInFlight
<1>2. NeverWaitsInFlight /\ [Next]_vars => NeverWaitsInFlight'
  BY DEF NeverWaitsInFlight, Next, vars, SetLimit, RequestQuads, DeliverQuad, Fresh, FirstOf
<1>3. QED BY <1>1, <1>2, PTL DEF Spec

-----------------------------------------------------------------------------
(* A nonempty set of quads has a first element in traversal order.         *)
LEMMA FirstExists ==
  ASSUME NEW S, S \subseteq Quads, S # {}
  PROVE  \E q \in S : Before(q, S) = {}
<1> DEFINE Ranks == {Rank[q] : q \in S}
<1>1. Ranks \subseteq Nat /\ Ranks # {}
  BY RankType
<1>2. PICK m \in Ranks : \A n \in Ranks : ~ (<<n, m>> \in OpToRel(<, Nat))
  BY <1>1, NatLessThanWellFounded, WFMin
<1>3. \A n \in Ranks : ~ (n < m)
  BY <1>1, <1>2 DEF OpToRel
<1>4. PICK q \in S : m = Rank[q]
  OBVIOUS
<1>5. Before(q, S) = {}
  BY <1>3, <1>4 DEF Before
<1>6. QED BY <1>5

(* ... and only one, which is what request_queue.front() returns.          *)
LEMMA FirstUnique ==
  ASSUME NEW S, S \subseteq Quads, S # {}
  PROVE  \E q \in S : FirstOf(S) = {q}
<1>1. PICK q \in S : Before(q, S) = {}
  BY FirstExists
<1>2. \A p \in FirstOf(S) : p = q
  BY <1>1, RankType DEF FirstOf, Before
<1>3. q \in FirstOf(S)
  BY <1>1 DEF FirstOf
<1>4. QED BY <1>2, <1>3

(* Facts about a request that the two counting lemmas share.               *)
LEMMA RequestFacts ==
  ASSUME NEW ids, ids \subseteq Quads, TypeOK
  PROVE  /\ IsFiniteSet(Fresh(ids)) /\ Fresh(ids) \subseteq Quads
         /\ IsFiniteSet(Admitted(ids)) /\ Admitted(ids) \subseteq Fresh(ids)
         /\ IsFiniteSet(in_flight)
         /\ Cardinality(in_flight) \in Nat
         /\ Cardinality(Admitted(ids)) \in Nat
         /\ limit \in Nat
         /\ \A q : /\ IsFiniteSet(Before(q, Fresh(ids)))
                  /\ Cardinality(Before(q, Fresh(ids))) \in Nat
<1>1. Fresh(ids) \subseteq Quads /\ in_flight \subseteq Quads
  BY DEF Fresh, TypeOK
<1>2. IsFiniteSet(Fresh(ids)) /\ IsFiniteSet(in_flight)
  BY <1>1, QuadsFinite, FS_Subset
<1>3. Admitted(ids) \subseteq Fresh(ids)
  BY DEF Admitted
<1>4. IsFiniteSet(Admitted(ids))
  BY <1>2, <1>3, FS_Subset
<1>5. \A q : IsFiniteSet(Before(q, Fresh(ids)))
  BY <1>2, FS_Subset DEF Before
<1>6. limit \in Nat
  BY LimitsType DEF TypeOK
<1>7. QED BY <1>1, <1>2, <1>3, <1>4, <1>5, <1>6, FS_CardinalityType

(* request_quads starts no more loads than there are free slots.           *)
LEMMA AdmittedBound ==
  ASSUME NEW ids, ids \subseteq Quads, TypeOK, Admitted(ids) # {}
  PROVE  Cardinality(Admitted(ids)) <= limit - Cardinality(in_flight)
<1> DEFINE A == Admitted(ids)
           F == Fresh(ids)
           room == limit - Cardinality(in_flight)
           position == [q \in A |-> Cardinality(Before(q, F))]
<1>1. /\ IsFiniteSet(F) /\ F \subseteq Quads /\ A \subseteq F
      /\ room \in Int
      /\ \A q : IsFiniteSet(Before(q, F)) /\ Cardinality(Before(q, F)) \in Nat
  BY RequestFacts
<1>2. \A q \in A : position[q] \in 0..room - 1
  BY <1>1 DEF Admitted
<1>3. \A p, q \in A : Rank[p] < Rank[q] => position[p] # position[q]
  <2>1. SUFFICES ASSUME NEW p \in A, NEW q \in A, Rank[p] < Rank[q]
                 PROVE  position[p] # position[q]
    OBVIOUS
  <2>2. Before(p, F) \subseteq Before(q, F)
    BY <1>1, <2>1, RankType DEF Before
  <2>3. p \in Before(q, F) /\ p \notin Before(p, F)
    BY <1>1, <2>1, RankType DEF Before
  <2>4. Cardinality(Before(p, F)) # Cardinality(Before(q, F))
    BY <1>1, <2>2, <2>3, FS_Subset
  <2>5. QED BY <2>4
<1>4. \A p, q \in A : p # q => Rank[p] < Rank[q] \/ Rank[q] < Rank[p]
  BY <1>1, RankType
<1>5. position \in Injection(A, 0..room - 1)
  BY <1>2, <1>3, <1>4 DEF Injection, IsInjective
<1>6. room > 0
  BY <1>1, <1>2
<1>7. IsFiniteSet(0..room - 1) /\ Cardinality(0..room - 1) = room
  BY <1>1, <1>6, FS_Interval
<1>8. QED BY <1>5, <1>7, FS_Injection

(* ... and fills every free slot before it lets a quad wait.               *)
LEMMA AdmittedFull ==
  ASSUME NEW ids, ids \subseteq Quads, TypeOK, Fresh(ids) \ Admitted(ids) # {}
  PROVE  Cardinality(Admitted(ids)) >= limit - Cardinality(in_flight)
<1> DEFINE A == Admitted(ids)
           F == Fresh(ids)
<1>1. /\ IsFiniteSet(A) /\ F \subseteq Quads
      /\ Cardinality(A) \in Nat /\ limit - Cardinality(in_flight) \in Int
      /\ \A q : IsFiniteSet(Before(q, F)) /\ Cardinality(Before(q, F)) \in Nat
  BY RequestFacts
<1>2. PICK q \in F \ A : Before(q, F \ A) = {}
  BY <1>1, FirstExists
<1>3. Before(q, F) \subseteq A
  BY <1>2 DEF Before
<1>4. Cardinality(Before(q, F)) <= Cardinality(A)
  BY <1>1, <1>3, FS_Subset
<1>5. Cardinality(Before(q, F)) >= limit - Cardinality(in_flight)
  BY <1>1, <1>2 DEF Admitted
<1>6. QED BY <1>1, <1>4, <1>5

-----------------------------------------------------------------------------
(* WorkConserving needs to know that a quad that gets a freed slot did not *)
(* have one already.                                                       *)
IInv == TypeOK /\ NeverWaitsInFlight /\ WorkConserving

LEMMA RequestKeepsWorking ==
  ASSUME IInv, NEW ids \in SUBSET Quads, RequestQuads(ids)
  PROVE  WorkConserving'
<1> DEFINE A == Admitted(ids)
<1>1. SUFFICES ASSUME Fresh(ids) \ A # {}
               PROVE  Cardinality(in_flight \cup A) >= limit
  BY DEF RequestQuads, WorkConserving
<1>2. /\ IsFiniteSet(in_flight) /\ IsFiniteSet(A)
      /\ Cardinality(in_flight) \in Nat /\ Cardinality(A) \in Nat /\ limit \in Nat
  BY RequestFacts DEF IInv
<1>3. in_flight \cap A = {}
  BY DEF Admitted, Fresh
<1>4. Cardinality(in_flight \cup A) = Cardinality(in_flight) + Cardinality(A)
  <2>1. Cardinality(in_flight \cap A) = 0
    BY <1>3, FS_EmptySet
  <2>2. Cardinality(in_flight \cup A)
          = Cardinality(in_flight) + Cardinality(A) - Cardinality(in_flight \cap A)
    <3> HIDE DEF A
    <3>1. QED BY <1>2, FS_Union
  <2>3. QED BY <1>2, <2>1, <2>2
<1>5. Cardinality(A) >= limit - Cardinality(in_flight)
  BY <1>1, AdmittedFull DEF IInv
<1>6. QED BY <1>2, <1>4, <1>5

LEMMA DeliverKeepsWorking ==
  ASSUME IInv, NEW id \in Quads, DeliverQuad(id)
  PROVE  WorkConserving'
<1>1. SUFFICES ASSUME request_queue # {}
               PROVE  Cardinality(in_flight') = Cardinality(in_flight)
  BY DEF IInv, WorkConserving, DeliverQuad, FirstOf
<1>2. PICK q \in request_queue : FirstOf(request_queue) = {q}
  BY <1>1, FirstUnique DEF IInv, TypeOK
<1>3. q \notin in_flight /\ id \in in_flight
  BY <1>2 DEF IInv, NeverWaitsInFlight, DeliverQuad
<1>4. in_flight' = (in_flight \ {id}) \cup {q}
  BY <1>2 DEF DeliverQuad
<1>5. IsFiniteSet(in_flight) /\ Cardinality(in_flight) \in Nat
  BY QuadsFinite, FS_Subset, FS_CardinalityType DEF IInv, TypeOK
<1>6. /\ IsFiniteSet(in_flight \ {id})
      /\ Cardinality(in_flight \ {id}) = Cardinality(in_flight) - 1
  BY <1>3, <1>5, FS_RemoveElement
<1>7. Cardinality((in_flight \ {id}) \cup {q}) = Cardinality(in_flight) - 1 + 1
  BY <1>3, <1>6, FS_AddElement
<1>8. QED BY <1>4, <1>5, <1>7

LEMMA SlotsStart == Init => IInv
BY LimitsType DEF Init, IInv, TypeOK, NeverWaitsInFlight, WorkConserving

LEMMA SlotsStep ==
  ASSUME IInv, [Next]_vars
  PROVE  IInv'
<1>1. TypeOK'
  BY DEF IInv, TypeOK, Next, vars, SetLimit, RequestQuads, DeliverQuad, Fresh, Admitted, FirstOf
<1>2. NeverWaitsInFlight'
  BY DEF IInv, NeverWaitsInFlight, Next, vars, SetLimit, RequestQuads, DeliverQuad, Fresh, FirstOf
<1>3. WorkConserving'
  <2>1. CASE \E n \in Limits : SetLimit(n)
    BY <2>1 DEF IInv, WorkConserving, SetLimit
  <2>2. CASE \E ids \in SUBSET Quads : RequestQuads(ids)
    BY <2>2, RequestKeepsWorking
  <2>3. CASE \E id \in Quads : DeliverQuad(id)
    BY <2>3, DeliverKeepsWorking
  <2>4. CASE UNCHANGED vars
    BY <2>4 DEF IInv, WorkConserving, vars
  <2>5. QED BY <2>1, <2>2, <2>3, <2>4 DEF Next
<1>4. QED BY <1>1, <1>2, <1>3 DEF IInv

(* Quads wait only while every slot the last request could use is taken.   *)
THEOREM SlotsStayBusy == Spec => []WorkConserving
<1>1. IInv /\ [Next]_vars => IInv'
  BY SlotsStep
<1>2. IInv => WorkConserving
  BY DEF IInv
<1>3. QED BY SlotsStart, <1>1, <1>2, PTL DEF Spec

-----------------------------------------------------------------------------
LEMMA RequestGrowsWithinLimit ==
  ASSUME TypeOK, NEW ids \in SUBSET Quads, RequestQuads(ids),
         Cardinality(in_flight') > Cardinality(in_flight)
  PROVE  Cardinality(in_flight') <= limit
<1> DEFINE A == Admitted(ids)
<1>1. in_flight' = in_flight \cup A
  BY DEF RequestQuads
<1>2. /\ IsFiniteSet(in_flight) /\ IsFiniteSet(A)
      /\ Cardinality(in_flight) \in Nat /\ Cardinality(A) \in Nat /\ limit \in Nat
  BY RequestFacts
<1>3. A # {}
  BY <1>1, <1>2
<1>4. Cardinality(A) <= limit - Cardinality(in_flight)
  BY <1>3, AdmittedBound
<1>5. Cardinality(in_flight \cap A) = 0
  BY FS_EmptySet DEF Admitted, Fresh
<1>6. Cardinality(in_flight \cup A)
        = Cardinality(in_flight) + Cardinality(A) - Cardinality(in_flight \cap A)
  <2> HIDE DEF A
  <2>1. QED BY <1>2, FS_Union
<1>7. QED BY <1>1, <1>2, <1>4, <1>5, <1>6

LEMMA DeliverNeverGrows ==
  ASSUME TypeOK, NEW id \in Quads, DeliverQuad(id)
  PROVE  ~ (Cardinality(in_flight') > Cardinality(in_flight))
<1> DEFINE Rest == in_flight \ {id}
<1>1. IsFiniteSet(in_flight) /\ Cardinality(in_flight) \in Nat
  BY QuadsFinite, FS_Subset, FS_CardinalityType DEF TypeOK
<1>2. /\ IsFiniteSet(Rest)
      /\ Cardinality(Rest) = Cardinality(in_flight) - 1
  BY <1>1, FS_RemoveElement DEF DeliverQuad
<1>3. CASE request_queue = {}
  <2>1. in_flight' = Rest
    BY <1>3 DEF DeliverQuad, FirstOf
  <2>2. QED BY <1>1, <1>2, <2>1
<1>4. CASE request_queue # {}
  <2>1. PICK q \in request_queue : FirstOf(request_queue) = {q}
    BY <1>4, FirstUnique DEF TypeOK
  <2>2. in_flight' = Rest \cup {q}
    BY <2>1 DEF DeliverQuad
  <2>3. Cardinality(Rest \cup {q}) = IF q \in Rest THEN Cardinality(Rest) ELSE Cardinality(Rest) + 1
    BY <1>2, FS_AddElement
  <2>4. QED BY <1>1, <1>2, <2>2, <2>3
<1>5. QED BY <1>3, <1>4

Grows == Cardinality(in_flight') > Cardinality(in_flight) => Cardinality(in_flight') <= limit

LEMMA StepGrowsWithinLimit == TypeOK /\ [Next]_vars => [Grows]_vars
<1> SUFFICES ASSUME TypeOK, Next PROVE Grows
  OBVIOUS
<1>1. CASE \E n \in Limits : SetLimit(n)
  <2>1. Cardinality(in_flight) \in Nat
    BY QuadsFinite, FS_Subset, FS_CardinalityType DEF TypeOK
  <2>2. QED BY <1>1, <2>1 DEF SetLimit, Grows
<1>2. CASE \E ids \in SUBSET Quads : RequestQuads(ids)
  BY <1>2, RequestGrowsWithinLimit DEF Grows
<1>3. CASE \E id \in Quads : DeliverQuad(id)
  BY <1>3, DeliverNeverGrows DEF Grows
<1>4. QED BY <1>1, <1>2, <1>3 DEF Next

(* No step starts a load while the limit in force is reached: after        *)
(* set_limit lowered it, the number of loads can only fall.                *)
THEOREM LoadsStayWithinLimit == Spec => GrowsWithinLimit
<1>1. Grows <=> (Cardinality(in_flight') > Cardinality(in_flight)
                    => Cardinality(in_flight') <= limit)
  BY DEF Grows
<1>2. QED BY <1>1, StepGrowsWithinLimit, TypeCorrect, PTL DEF Spec, GrowsWithinLimit

-----------------------------------------------------------------------------
LEMMA PeriodsFit ==
  /\ MaxAge \in Nat
  /\ \A s \in Settings : s.rate \in Nat \ {0} /\ s.period \in Nat /\ s.period < MaxAge
<1> DEFINE periods == {s.period : s \in Settings}
           Bounds(m) == \A s \in Settings : s.period <= m
<1>1. \A s \in Settings : s.rate \in Nat \ {0} /\ s.period \in Nat
  BY SettingsType
<1>2. \E m \in periods : Bounds(m)
  BY SettingsType
<1>3. PICK m \in periods : m = (CHOOSE x \in periods : Bounds(x)) /\ Bounds(m)
  BY <1>2
<1>4. m \in Nat
  BY <1>1, <1>3
<1>5. MaxAge = 1 + m
  BY <1>3 DEF MaxAge
<1>6. \A s \in Settings : s.period <= m
  BY <1>3
<1> HIDE DEF periods, Bounds
<1>7. QED BY <1>1, <1>4, <1>5, <1>6

LEMMA TimerIntervalType ==
  ASSUME setting \in Settings
  PROVE  TimerInterval \in Nat \ {0}
<1>1. setting.period \in Nat
  BY PeriodsFit
<1>2. setting.period \div 10 \in Nat
  BY <1>1
<1>3. QED BY <1>2 DEF TimerInterval

-----------------------------------------------------------------------------
LEMMA IntervalLength ==
  ASSUME NEW m \in Nat, NEW n \in Nat, 1..m = 1..n
  PROVE  m = n
<1>1. Cardinality(1..m) = m
  BY FS_Interval
<1>2. Cardinality(1..n) = n
  BY FS_Interval
<1>3. QED BY <1>1, <1>2

Ages == Seq(0..MaxAge)

Late(ages) == {i \in DOMAIN ages : ages[i] > setting.period}

(* InPeriod drops as many readings as are out of the period.               *)
LEMMA InPeriodDrops ==
  ASSUME NEW ages \in Ages
  PROVE  LET k == Cardinality(Late(ages)) IN
         /\ k \in 0..Len(ages)
         /\ InPeriod(ages) \in Ages
         /\ Len(InPeriod(ages)) = Len(ages) - k
         /\ \A i \in 1..(Len(ages) - k) : InPeriod(ages)[i] = ages[k + i]
<1> DEFINE k == Cardinality(Late(ages))
<1>1. /\ Len(ages) \in Nat
      /\ DOMAIN ages = 1..Len(ages)
      /\ \A i \in 1..Len(ages) : ages[i] \in 0..MaxAge
  BY LenProperties, ElementOfSeq DEF Ages
<1>2. IsFiniteSet(1..Len(ages)) /\ Cardinality(1..Len(ages)) = Len(ages)
  BY <1>1, FS_Interval
<1>3. Late(ages) \in SUBSET (1..Len(ages))
  BY <1>1 DEF Late
<1>4. k \in 0..Len(ages)
  <2>1. IsFiniteSet(Late(ages)) /\ k <= Cardinality(1..Len(ages))
    BY <1>2, <1>3, FS_Subset
  <2>2. k \in Nat
    BY <2>1, FS_CardinalityType
  <2>3. QED BY <1>1, <1>2, <2>1, <2>2
<1> HIDE DEF k
<1>5. \A i \in (1 + k)..Len(ages) : ages[i] \in 0..MaxAge
  BY <1>1, <1>4
<1>6. /\ SubSeq(ages, 1 + k, Len(ages)) \in Seq(0..MaxAge)
      /\ Len(SubSeq(ages, 1 + k, Len(ages))) = IF 1 + k <= Len(ages) THEN Len(ages) - (1 + k) + 1 ELSE 0
      /\ \A i \in 1..(Len(ages) - (1 + k) + 1) :
           SubSeq(ages, 1 + k, Len(ages))[i] = ages[(1 + k) + i - 1]
  <2>1. 1 + k \in Int /\ Len(ages) \in Int
    BY <1>1, <1>4
  <2>2. QED BY <1>5, <2>1, SubSeqProperties
<1>7. InPeriod(ages) = SubSeq(ages, 1 + k, Len(ages))
  BY DEF InPeriod, k, Late
<1>8. Len(ages) - (1 + k) + 1 = Len(ages) - k
  BY <1>1, <1>4
<1>9. \A i \in 1..(Len(ages) - k) : (1 + k) + i - 1 = k + i
  BY <1>1, <1>4
<1>10. QED BY <1>1, <1>4, <1>6, <1>7, <1>8, <1>9 DEF Ages, k

(* Of ages that descend, all that InPeriod leaves are in the period.       *)
Descends(ages) == \A i, j \in DOMAIN ages : i <= j => ages[i] >= ages[j]

LEMMA InPeriodIsExact ==
  ASSUME NEW ages \in Ages, Descends(ages), setting.period \in Nat,
         NEW i \in 1..Len(ages), i > Cardinality(Late(ages))
  PROVE  ages[i] <= setting.period
<1>1. /\ Len(ages) \in Nat
      /\ DOMAIN ages = 1..Len(ages)
      /\ \A j \in 1..Len(ages) : ages[j] \in 0..MaxAge
  BY LenProperties, ElementOfSeq DEF Ages
<1>2. SUFFICES ASSUME ages[i] > setting.period PROVE FALSE
  BY <1>1, PeriodsFit
<1>3. 1..i \in SUBSET Late(ages)
  BY <1>1, <1>2, PeriodsFit, SMTT(30) DEF Late, Descends
<1>4. IsFiniteSet(Late(ages))
  <2>1. IsFiniteSet(1..Len(ages))
    BY <1>1, FS_Interval
  <2>2. Late(ages) \in SUBSET (1..Len(ages))
    BY <1>1 DEF Late
  <2>3. QED BY <2>1, <2>2, FS_Subset
<1>5. Cardinality(1..i) <= Cardinality(Late(ages))
  BY <1>3, <1>4, FS_Subset
<1>6. Cardinality(1..i) = i
  BY <1>1, FS_Interval
<1>7. Cardinality(Late(ages)) \in Nat
  BY <1>4, FS_CardinalityType
<1>8. QED BY <1>1, <1>5, <1>6, <1>7

LEMMA SendsType ==
  ASSUME NEW n \in Nat
  PROVE  Sends(n) \in Ages /\ Len(Sends(n)) = n /\ \A i \in 1..n : Sends(n)[i] = 0
<1>1. Sends(n) \in [1..n -> 0..MaxAge]
  BY PeriodsFit DEF Sends
<1>2. Sends(n) \in Seq(0..MaxAge)
  BY <1>1, SeqDef
<1>3. Len(Sends(n)) \in Nat /\ DOMAIN Sends(n) = 1..Len(Sends(n))
  BY <1>2, LenProperties
<1>4. DOMAIN Sends(n) = 1..n
  BY DEF Sends
<1>5. Len(Sends(n)) = n
  BY <1>3, <1>4, IntervalLength
<1>6. QED BY <1>2, <1>5 DEF Ages, Sends

LEMMA OlderType ==
  ASSUME NEW ages \in Ages
  PROVE  /\ Older(ages) \in Ages
         /\ Len(Older(ages)) = Len(ages)
         /\ Descends(ages) => Descends(Older(ages))
<1>1. /\ Len(ages) \in Nat
      /\ DOMAIN ages = 1..Len(ages)
      /\ \A i \in 1..Len(ages) : ages[i] \in 0..MaxAge
  BY LenProperties, ElementOfSeq DEF Ages
<1>2. Older(ages) \in [1..Len(ages) -> 0..MaxAge]
  BY <1>1, PeriodsFit DEF Older
<1>3. Older(ages) \in Seq(0..MaxAge)
  BY <1>1, <1>2, SeqDef
<1>4. Len(Older(ages)) \in Nat /\ DOMAIN Older(ages) = 1..Len(Older(ages))
  BY <1>3, LenProperties
<1>5. DOMAIN Older(ages) = 1..Len(ages)
  BY <1>1 DEF Older
<1>6. Len(Older(ages)) = Len(ages)
  BY <1>1, <1>4, <1>5, IntervalLength
<1>7. Descends(ages) => Descends(Older(ages))
  BY <1>1, PeriodsFit DEF Descends, Older
<1>8. QED BY <1>3, <1>6, <1>7 DEF Ages

-----------------------------------------------------------------------------
(* What is inductive: the sends since set_limit that are in the period are *)
(* the last ones of m_in_flight, so what process_request_queue counts is   *)
(* at least them.                                                          *)
RecentSends ==
  /\ recent \in Ages /\ rate_in_flight \in Ages
  /\ Len(recent) <= Len(rate_in_flight)
  /\ \A i \in 1..Len(recent) : recent[i] = rate_in_flight[Len(rate_in_flight) - Len(recent) + i]
  /\ \A i \in 1..Len(recent) : recent[i] <= setting.period
  /\ Descends(recent)

RateInv ==
  /\ RateTypeOK
  /\ RecentSends
  /\ RateHolds
  /\ WakeUpPending

(* How many of the recent sends InPeriod drops from m_in_flight: none.     *)
LEMMA RecentStay ==
  ASSUME RateTypeOK, RecentSends
  PROVE  Cardinality(Late(rate_in_flight)) <= Len(rate_in_flight) - Len(recent)
<1> DEFINE k == Cardinality(Late(rate_in_flight))
           older == Len(rate_in_flight) - Len(recent)
<1>1. /\ Len(recent) \in Nat /\ Len(rate_in_flight) \in Nat /\ older \in Nat
      /\ DOMAIN rate_in_flight = 1..Len(rate_in_flight)
  BY LenProperties DEF RecentSends, Ages
<1>2. setting.period \in Nat
  BY PeriodsFit DEF RateTypeOK
<1>3. Late(rate_in_flight) \in SUBSET (1..older)
  <2>1. SUFFICES ASSUME NEW i \in 1..Len(rate_in_flight), i > older, rate_in_flight[i] > setting.period
                 PROVE  FALSE
    BY <1>1 DEF Late
  <2>2. i - older \in 1..Len(recent) /\ older + (i - older) = i
    BY <1>1, <2>1
  <2>3. recent[i - older] = rate_in_flight[i] /\ recent[i - older] <= setting.period
    BY <2>2 DEF RecentSends
  <2>4. rate_in_flight[i] \in 0..MaxAge
    BY ElementOfSeq DEF RecentSends, Ages
  <2>5. QED BY <1>2, <2>1, <2>3, <2>4, PeriodsFit
<1>4. k <= Cardinality(1..older)
  <2>1. IsFiniteSet(1..older)
    BY <1>1, FS_Interval
  <2>2. QED BY <1>3, <2>1, FS_Subset
<1>5. Cardinality(1..older) = older
  BY <1>1, FS_Interval
<1>6. QED BY <1>4, <1>5

LEMMA SendNowRange ==
  ASSUME RateInv, NEW n \in Nat
  PROVE  /\ SendNow(n) \in 0..n
         /\ SendNow(n) > 0 => SendNow(n) + Len(InPeriod(rate_in_flight)) <= setting.rate
<1>1. Len(InPeriod(rate_in_flight)) \in Nat
  BY InPeriodDrops, LenProperties DEF RateInv, RecentSends, Ages
<1>2. setting.rate \in Nat
  BY PeriodsFit DEF RateInv, RateTypeOK
<1>3. QED BY <1>1, <1>2 DEF SendNow

(* process_request_queue, for any queue and any timer that it finds.       *)
LEMMA ProcessKeeps ==
  ASSUME RateInv, NEW q \in Seq(Ids), NEW idle \in Int, idle >= NoTimer,
         Process(q, idle)
  PROVE  RateInv'
<1> DEFINE n == SendNow(Len(q))
           kept == InPeriod(rate_in_flight)
           k == Cardinality(Late(rate_in_flight))
<1>1. /\ Len(q) \in Nat /\ Len(recent) \in Nat /\ Len(rate_in_flight) \in Nat
      /\ rate_in_flight \in Ages /\ recent \in Ages
  BY LenProperties DEF RateInv, RecentSends, Ages
<1>2. /\ n \in 0..Len(q)
      /\ n > 0 => n + Len(kept) <= setting.rate
  BY <1>1, SendNowRange
<1>3. /\ k \in 0..Len(rate_in_flight)
      /\ kept \in Ages
      /\ Len(kept) = Len(rate_in_flight) - k
      /\ \A i \in 1..(Len(rate_in_flight) - k) : kept[i] = rate_in_flight[k + i]
  BY <1>1, InPeriodDrops
<1>4. Len(recent) <= Len(kept)
  BY <1>1, <1>3, RecentStay DEF RateInv
<1>5. Sends(n) \in Ages /\ Len(Sends(n)) = n /\ \A i \in 1..n : Sends(n)[i] = 0
  BY <1>2, SendsType
<1>6. /\ rate_in_flight' = kept \o Sends(n)
      /\ recent' = recent \o Sends(n)
      /\ rate_queue' = SubSeq(q, n + 1, Len(q))
      /\ timer' = IF n < Len(q) THEN TimerInterval ELSE idle
      /\ setting' = setting
  BY DEF Process
<1> HIDE DEF n, kept, k
<1>7. /\ rate_in_flight' \in Ages
      /\ Len(rate_in_flight') = Len(kept) + n
      /\ \A i \in 1..(Len(kept) + n) :
           rate_in_flight'[i] = IF i <= Len(kept) THEN kept[i] ELSE Sends(n)[i - Len(kept)]
  <2>1. kept \in Seq(0..MaxAge) /\ Sends(n) \in Seq(0..MaxAge)
    BY <1>3, <1>5 DEF Ages
  <2>2. /\ kept \o Sends(n) \in Seq(0..MaxAge)
        /\ Len(kept \o Sends(n)) = Len(kept) + Len(Sends(n))
        /\ \A i \in 1..(Len(kept) + Len(Sends(n))) :
             (kept \o Sends(n))[i] = IF i <= Len(kept) THEN kept[i] ELSE Sends(n)[i - Len(kept)]
    BY <2>1, ConcatProperties
  <2>3. Len(Sends(n)) = n
    BY <1>5
  <2>4. QED BY <1>6, <2>2, <2>3 DEF Ages
<1>8. /\ recent' \in Ages
      /\ Len(recent') = Len(recent) + n
      /\ \A i \in 1..(Len(recent) + n) :
           recent'[i] = IF i <= Len(recent) THEN recent[i] ELSE Sends(n)[i - Len(recent)]
  BY <1>1, <1>5, <1>6, ConcatProperties DEF Ages
<1>9. /\ rate_queue' \in Seq(Ids)
      /\ n = Len(q) => rate_queue' = <<>>
  <2>1. \A i \in (n + 1)..Len(q) : q[i] \in Ids
    BY <1>1, <1>2, ElementOfSeq
  <2>2. rate_queue' \in Seq(Ids)
        /\ Len(rate_queue') = IF n + 1 <= Len(q) THEN Len(q) - (n + 1) + 1 ELSE 0
    BY <1>1, <1>2, <1>6, <2>1, SubSeqProperties
  <2>3. QED BY <1>1, <1>2, <2>2, EmptySeq
<1>10. setting.period \in Nat /\ setting.rate \in Nat /\ MaxAge \in Nat
  BY PeriodsFit DEF RateInv, RateTypeOK
<1>11. timer' \in Int /\ timer' >= NoTimer /\ (n < Len(q) => timer' # NoTimer)
  BY <1>6, TimerIntervalType DEF RateInv, RateTypeOK, NoTimer
<1>12. RateTypeOK'
  BY <1>6, <1>7, <1>8, <1>9, <1>11 DEF RateInv, RateTypeOK, Ages
<1>13. WakeUpPending'
  BY <1>1, <1>2, <1>9, <1>11 DEF WakeUpPending
<1>14. RateHolds'
  <2>1. Len(recent) <= setting.rate
    BY DEF RateInv, RateHolds
  <2>2. n \in Nat /\ Len(kept) \in Nat
    BY <1>1, <1>2, <1>3
  <2>3. Len(recent) + n <= setting.rate
    BY <1>1, <1>2, <1>4, <1>10, <2>1, <2>2
  <2>4. Len(recent') = Len(recent) + n /\ setting'.rate = setting.rate
    BY <1>6, <1>8
  <2>5. QED BY <2>3, <2>4 DEF RateHolds
<1>15. RecentSends'
  <2>1. Len(recent') <= Len(rate_in_flight')
    BY <1>1, <1>2, <1>3, <1>4, <1>7, <1>8
  <2>2. ASSUME NEW i \in 1..Len(recent')
        PROVE  recent'[i] = rate_in_flight'[Len(rate_in_flight') - Len(recent') + i]
    <3>1. /\ Len(kept) \in Nat /\ n \in Nat /\ Len(recent) <= Len(kept)
          /\ Len(rate_in_flight') = Len(kept) + n /\ Len(recent') = Len(recent) + n
          /\ Len(kept) = Len(rate_in_flight) - k /\ k \in Nat
      BY <1>1, <1>2, <1>3, <1>4, <1>7, <1>8
    <3> DEFINE j == Len(rate_in_flight') - Len(recent') + i
    <3>2. j = Len(kept) - Len(recent) + i /\ j \in 1..(Len(kept) + n)
      BY <1>1, <3>1
    <3> HIDE DEF j
    <3>3. CASE i <= Len(recent)
      <4>1. rate_in_flight'[j] = kept[j]
        <5>1. j <= Len(kept)
          BY <3>1, <3>2, <3>3
        <5>2. QED BY <1>7, <3>2, <5>1
      <4>2. kept[j] = rate_in_flight[k + j]
        <5>1. j \in 1..(Len(rate_in_flight) - k)
          BY <1>1, <3>1, <3>2, <3>3
        <5>2. QED BY <1>3, <5>1
      <4>3. k + j = Len(rate_in_flight) - Len(recent) + i
        BY <1>1, <3>1, <3>2
      <4>4. recent[i] = rate_in_flight[Len(rate_in_flight) - Len(recent) + i]
        BY <3>3, <1>1, <1>8 DEF RateInv, RecentSends
      <4>5. recent'[i] = recent[i]
        BY <1>1, <1>8, <3>1, <3>3
      <4>6. QED BY <4>1, <4>2, <4>3, <4>4, <4>5 DEF j
    <3>4. CASE i > Len(recent)
      <4>1. i - Len(recent) \in 1..n /\ j - Len(kept) \in 1..n
        BY <1>1, <3>1, <3>2, <3>4, SMTT(30)
      <4>2. recent'[i] = 0
        BY <1>1, <1>5, <1>8, <3>1, <3>4, <4>1, SMTT(30)
      <4>3. rate_in_flight'[j] = 0
        <5>1. ~(j <= Len(kept)) /\ j \in 1..(Len(kept) + n)
          BY <3>1, <3>2, <3>4, <1>1
        <5>2. rate_in_flight'[j] = Sends(n)[j - Len(kept)]
          BY <1>7, <5>1
        <5>3. QED BY <1>5, <4>1, <5>2
      <4>4. QED BY <4>2, <4>3 DEF j
    <3>5. QED BY <1>1, <1>2, <1>8, <3>3, <3>4
  <2>3. \A i \in 1..Len(recent') : recent'[i] <= setting'.period
    <3>1. ASSUME NEW i \in 1..Len(recent')
          PROVE  recent'[i] <= setting.period
      <4>1. CASE i <= Len(recent)
        BY <1>1, <1>2, <1>8, <4>1 DEF RateInv, RecentSends
      <4>2. CASE i > Len(recent)
        <5>1. i - Len(recent) \in 1..n
          BY <1>1, <1>2, <1>8, <4>2
        <5>2. QED BY <1>1, <1>2, <1>5, <1>8, <1>10, <4>2, <5>1
      <4>3. QED BY <1>1, <1>2, <1>8, <4>1, <4>2
    <3>2. QED BY <1>6, <3>1
  <2>4. Descends(recent')
    <3>1. DOMAIN recent' = 1..Len(recent') /\ DOMAIN recent = 1..Len(recent)
      BY <1>1, <1>8, LenProperties DEF Ages
    <3>2. \A i \in 1..Len(recent) : recent[i] \in 0..MaxAge
      BY <1>1, ElementOfSeq DEF Ages
    <3>3. \A i \in 1..Len(recent') :
            /\ i <= Len(recent) => i \in 1..Len(recent) /\ recent'[i] = recent[i]
            /\ i > Len(recent) => recent'[i] = 0
      <4>1. ASSUME NEW i \in 1..Len(recent'), i > Len(recent)
            PROVE  recent'[i] = 0
        <5>1. i - Len(recent) \in 1..n
          BY <1>1, <1>2, <1>8, <4>1
        <5>2. QED BY <1>1, <1>2, <1>5, <1>8, <4>1, <5>1
      <4>2. QED BY <1>1, <1>2, <1>8, <4>1
    <3>4. QED BY <1>1, <3>1, <3>2, <3>3 DEF RateInv, RecentSends, Descends
  <2>5. QED BY <1>7, <1>8, <2>1, <2>2, <2>3, <2>4 DEF RecentSends
<1>16. QED BY <1>12, <1>13, <1>14, <1>15 DEF RateInv

LEMMA TickKeeps ==
  ASSUME RateInv, Tick
  PROVE  RateInv'
<1> DEFINE older == Older(recent)
           k == Cardinality(Late(older))
<1>1. /\ rate_in_flight \in Ages /\ recent \in Ages
      /\ Len(recent) \in Nat /\ Len(rate_in_flight) \in Nat
      /\ DOMAIN recent = 1..Len(recent) /\ DOMAIN rate_in_flight = 1..Len(rate_in_flight)
  BY LenProperties DEF RateInv, RecentSends, Ages
<1>2. /\ rate_in_flight' = Older(rate_in_flight) /\ recent' = InPeriod(older)
      /\ timer' = IF timer > 0 THEN timer - 1 ELSE timer
      /\ setting' = setting /\ rate_queue' = rate_queue
  BY DEF Tick
<1>3. /\ rate_in_flight' \in Ages /\ Len(rate_in_flight') = Len(rate_in_flight)
      /\ older \in Ages /\ Len(older) = Len(recent) /\ Descends(older)
  BY <1>1, <1>2, OlderType DEF RateInv, RecentSends
<1>4. /\ k \in 0..Len(recent)
      /\ recent' \in Ages
      /\ Len(recent') = Len(recent) - k
      /\ \A i \in 1..(Len(recent) - k) : recent'[i] = older[k + i]
  BY <1>2, <1>3, InPeriodDrops
<1>5. setting.period \in Nat /\ MaxAge \in Nat
  BY PeriodsFit DEF RateInv, RateTypeOK
<1>6. \A i \in 1..(Len(recent) - k) : older[k + i] <= setting.period
  <2>1. ASSUME NEW i \in 1..(Len(recent) - k)
        PROVE  older[k + i] <= setting.period
    <3>1. k + i \in 1..Len(older) /\ k + i > k
      BY <1>1, <1>3, <1>4
    <3>2. QED BY <1>3, <1>5, <3>1, InPeriodIsExact
  <2>2. QED BY <2>1
<1>7. /\ DOMAIN older = 1..Len(recent)
      /\ \A i \in 1..Len(recent) : older[i] = IF recent[i] < MaxAge THEN recent[i] + 1 ELSE MaxAge
      /\ \A i \in 1..Len(rate_in_flight) :
           rate_in_flight'[i] = IF rate_in_flight[i] < MaxAge THEN rate_in_flight[i] + 1 ELSE MaxAge
  BY <1>1, <1>2 DEF Older
<1> HIDE DEF older, k
<1>8. RateTypeOK'
  BY <1>2, <1>3, <1>4 DEF RateInv, RateTypeOK, Ages, NoTimer
<1>9. WakeUpPending'
  BY <1>2 DEF RateInv, RateTypeOK, WakeUpPending, NoTimer
<1>10. RateHolds'
  <2>1. Len(recent) <= setting.rate /\ setting.rate \in Nat
    BY PeriodsFit DEF RateInv, RateHolds, RateTypeOK
  <2>2. QED BY <1>1, <1>2, <1>4, <2>1 DEF RateHolds
<1>11. RecentSends'
  <2>1. Len(recent') <= Len(rate_in_flight') /\ Len(recent) <= Len(rate_in_flight)
    BY <1>1, <1>3, <1>4 DEF RateInv, RecentSends
  <2>2. ASSUME NEW i \in 1..Len(recent')
        PROVE  recent'[i] = rate_in_flight'[Len(rate_in_flight') - Len(recent') + i]
    <3>1. k + i \in 1..Len(recent) /\ i \in 1..(Len(recent) - k)
      BY <1>1, <1>4
    <3>2. Len(rate_in_flight') - Len(recent') + i = Len(rate_in_flight) - Len(recent) + (k + i)
      BY <1>1, <1>3, <1>4
    <3>3. Len(rate_in_flight) - Len(recent) + (k + i) \in 1..Len(rate_in_flight)
      BY <1>1, <2>1, <3>1
    <3>4. recent[k + i] = rate_in_flight[Len(rate_in_flight) - Len(recent) + (k + i)]
      BY <3>1 DEF RateInv, RecentSends
    <3>5. QED BY <1>4, <1>7, <3>1, <3>2, <3>3, <3>4
  <2>3. \A i \in 1..Len(recent') : recent'[i] <= setting'.period
    BY <1>2, <1>4, <1>6
  <2>4. Descends(recent')
    <3>1. DOMAIN recent' = 1..Len(recent')
      BY <1>4, LenProperties DEF Ages
    <3>2. \A i \in 1..Len(recent') : k + i \in 1..Len(recent) /\ recent'[i] = older[k + i]
      BY <1>1, <1>4
    <3>3. ASSUME NEW i \in 1..Len(recent'), NEW j \in 1..Len(recent'), i <= j
          PROVE  recent'[i] >= recent'[j]
      <4>1. k + i <= k + j
        BY <1>1, <1>4, <3>3
      <4>2. QED BY <1>3, <1>7, <3>2, <4>1 DEF Descends
    <3>4. QED BY <3>1, <3>3 DEF Descends
  <2>5. QED BY <1>3, <1>4, <2>1, <2>2, <2>3, <2>4 DEF RecentSends
<1>12. QED BY <1>8, <1>9, <1>10, <1>11 DEF RateInv

LEMMA RateStarts ==
  ASSUME RateInit
  PROVE  RateInv
<1>1. <<>> \in Ages /\ <<>> \in Seq(Ids) /\ Len(<<>>) = 0
  BY EmptySeq DEF Ages
<1>2. setting.rate \in Nat
  BY SettingsType, PeriodsFit DEF RateInit
<1>3. QED
  BY <1>1, <1>2, SettingsType DEF RateInit, RateInv, RecentSends, Descends, RateHolds,
     WakeUpPending, RateTypeOK, Ages, NoTimer

LEMMA RateStep ==
  ASSUME RateInv, [RateNext]_rate_vars
  PROVE  RateInv'
<1>1. ASSUME NEW s \in Settings, SetRate(s)
      PROVE  RateInv'
  <2>1. <<>> \in Ages /\ Len(<<>>) = 0 /\ Len(rate_in_flight) \in Nat
    BY EmptySeq, LenProperties DEF RateInv, RecentSends, Ages
  <2>2. s.rate \in Nat
    BY PeriodsFit
  <2>3. QED
    BY <1>1, <2>1, <2>2 DEF SetRate, RateInv, RecentSends, Descends, RateHolds,
       WakeUpPending, RateTypeOK, Ages
<1>2. ASSUME NEW ids \in Seq(Ids), RateRequests(ids)
      PROVE  RateInv'
  <2>1. CASE ids = <<>>
    <3>1. UNCHANGED rate_vars
      BY <1>2, <2>1 DEF RateRequests
    <3>2. QED
      BY <3>1 DEF rate_vars, RateInv, RecentSends, RateHolds, WakeUpPending, RateTypeOK
  <2>2. CASE ids # <<>>
    <3>1. rate_queue \o ids \in Seq(Ids)
      BY ConcatProperties DEF RateInv, RateTypeOK
    <3>2. Process(rate_queue \o ids, timer)
      BY <1>2, <2>2 DEF RateRequests
    <3>3. QED BY <3>1, <3>2, ProcessKeeps DEF RateInv, RateTypeOK
  <2>3. QED BY <2>1, <2>2
<1>3. CASE TimerFires
  <2>1. rate_queue \in Seq(Ids) /\ NoTimer \in Int /\ NoTimer >= NoTimer
    BY DEF RateInv, RateTypeOK, NoTimer
  <2>2. QED BY <1>3, <2>1, ProcessKeeps DEF TimerFires
<1>4. CASE Tick
  BY <1>4, TickKeeps
<1>5. CASE UNCHANGED rate_vars
  BY <1>5 DEF rate_vars, RateInv, RecentSends, RateHolds, WakeUpPending, RateTypeOK
<1>6. QED BY <1>1, <1>2, <1>3, <1>4, <1>5 DEF RateNext

-----------------------------------------------------------------------------
(* A type-correct limiter passes on at most rate requests in any window of *)
(* one period between two calls of set_limit (process_request_queue).      *)
THEOREM RateIsKept == RateSpec => [](RateTypeOK /\ RateHolds)
<1>1. RateInit => RateInv
  BY RateStarts
<1>2. RateInv /\ [RateNext]_rate_vars => RateInv'
  BY RateStep
<1>3. RateInv => RateTypeOK /\ RateHolds
  BY DEF RateInv
<1>4. QED BY <1>1, <1>2, <1>3, PTL DEF RateSpec

(* No request waits for ever because nothing will look at the queue: while *)
(* one waits the timer runs (process_request_queue, m_update_timer).       *)
THEOREM NoneIsForgotten == RateSpec => []WakeUpPending
<1>1. RateInit => RateInv
  BY RateStarts
<1>2. RateInv /\ [RateNext]_rate_vars => RateInv'
  BY RateStep
<1>3. RateInv => WakeUpPending
  BY DEF RateInv
<1>4. QED BY <1>1, <1>2, <1>3, PTL DEF RateSpec

-----------------------------------------------------------------------------
(* How many quads of S come before q tells the quads of S apart.           *)
LEMMA PositionType ==
  ASSUME NEW S \in SUBSET Quads
  PROVE  /\ IsFiniteSet(S) /\ Cardinality(S) \in Nat
         /\ [q \in S |-> Cardinality(Before(q, S))] \in Injection(S, 0..Cardinality(S) - 1)
<1> DEFINE at == [q \in S |-> Cardinality(Before(q, S))]
<1>1. IsFiniteSet(S) /\ Cardinality(S) \in Nat
  BY QuadsFinite, FS_Subset, FS_CardinalityType
<1>2. ASSUME NEW q \in S
      PROVE  at[q] \in 0..Cardinality(S) - 1
  <2>1. Before(q, S) \in SUBSET (S \ {q})
    BY RankType DEF Before
  <2>2. IsFiniteSet(S \ {q}) /\ Cardinality(S \ {q}) = Cardinality(S) - 1
    BY <1>1, FS_RemoveElement
  <2>3. /\ IsFiniteSet(Before(q, S))
        /\ Cardinality(Before(q, S)) <= Cardinality(S) - 1
    BY <2>1, <2>2, FS_Subset
  <2>4. Cardinality(Before(q, S)) \in Nat
    BY <2>3, FS_CardinalityType
  <2>5. QED BY <1>1, <2>3, <2>4
<1>3. ASSUME NEW p \in S, NEW q \in S, Rank[p] < Rank[q]
      PROVE  at[p] # at[q]
  <2>1. Before(p, S) \in SUBSET (Before(q, S) \ {p})
    BY <1>3, RankType DEF Before
  <2>2. p \in Before(q, S)
    BY <1>3 DEF Before
  <2>3. Before(q, S) \in SUBSET S
    BY DEF Before
  <2>4. IsFiniteSet(Before(q, S))
    BY <1>1, <2>3, FS_Subset
  <2>5. /\ IsFiniteSet(Before(q, S) \ {p})
        /\ Cardinality(Before(q, S) \ {p}) = Cardinality(Before(q, S)) - 1
    BY <2>2, <2>4, FS_RemoveElement
  <2>6. Cardinality(Before(p, S)) <= Cardinality(Before(q, S)) - 1
    BY <2>1, <2>5, FS_Subset
  <2>7. Cardinality(Before(q, S)) \in Nat
    BY <2>4, FS_CardinalityType
  <2>8. at[p] \in Nat
    BY <1>1, <1>2
  <2>9. QED BY <2>6, <2>7, <2>8
<1>4. \A p, q \in S : p # q => Rank[p] < Rank[q] \/ Rank[q] < Rank[p]
  BY RankType
<1>5. \A p, q \in S : p # q => at[p] # at[q]
  BY <1>3, <1>4
<1> HIDE DEF at
<1>6. at \in [S -> 0..Cardinality(S) - 1]
  BY <1>2 DEF at
<1>7. at \in Injection(S, 0..Cardinality(S) - 1)
  BY <1>5, <1>6 DEF Injection, IsInjective
<1>8. QED BY <1>1, <1>7 DEF at

(* Each position is that of one quad.                                      *)
LEMMA PositionTaken ==
  ASSUME NEW S \in SUBSET Quads, NEW k \in 0..Cardinality(S) - 1
  PROVE  \E q \in S : Cardinality(Before(q, S)) = k
<1> DEFINE at == [q \in S |-> Cardinality(Before(q, S))]
<1>1. /\ Cardinality(S) \in Nat
      /\ at \in Injection(S, 0..Cardinality(S) - 1)
  BY PositionType
<1>2. /\ IsFiniteSet(0..Cardinality(S) - 1)
      /\ Cardinality(0..Cardinality(S) - 1) = Cardinality(S)
  BY <1>1, FS_Interval
<1> HIDE DEF at
<1>3. at \in Surjection(S, 0..Cardinality(S) - 1)
  BY <1>1, <1>2, FS_Injection
<1>4. \E q \in S : at[q] = k
  BY <1>3 DEF Surjection
<1>5. QED BY <1>4 DEF at

(* What a handler of the slot limiter emits is a list of quads.            *)
LEMMA InOrderType ==
  ASSUME NEW S \in SUBSET Quads
  PROVE  InOrder(S) \in Seq(Ids)
<1> DEFINE n == Cardinality(S)
<1>1. n \in Nat
  BY PositionType
<1>2. ASSUME NEW i \in 1..n
      PROVE  (CHOOSE q \in S : Cardinality(Before(q, S)) = i - 1) \in Ids
  <2>1. i - 1 \in 0..n - 1
    BY <1>1
  <2>2. \E q \in S : Cardinality(Before(q, S)) = i - 1
    BY <2>1, PositionTaken
  <2>3. QED BY <2>2, QuadsAreIds
<1>3. InOrder(S) \in [1..n -> Ids]
  BY <1>2 DEF InOrder
<1>4. QED BY <1>1, <1>3, SeqDef

(* Each step of the two as they are wired is one of each, or leaves it     *)
(* alone.                                                                  *)
LEMMA WiredStep ==
  ASSUME TypeOK, [LimitersNext]_all_vars
  PROVE  [Next]_vars /\ [RateNext]_rate_vars
<1>1. CASE UNCHANGED all_vars
  BY <1>1 DEF all_vars
<1>2. CASE \E n \in Limits : SetSlotLimit(n)
  BY <1>2 DEF SetSlotLimit, Next
<1>3. CASE \E s \in Settings : SetRateLimit(s)
  BY <1>3 DEF SetRateLimit, RateNext
<1>4. ASSUME NEW ids \in SUBSET Quads, ListArrives(ids)
      PROVE  [Next]_vars /\ [RateNext]_rate_vars
  <2>1. Admitted(ids) \in SUBSET Quads
    BY DEF Admitted, Fresh
  <2>2. InOrder(Admitted(ids)) \in Seq(Ids)
    BY <2>1, InOrderType
  <2>3. QED BY <1>4, <2>2 DEF ListArrives, Next, RateNext
<1>5. ASSUME NEW id \in Quads, QuadReturns(id)
      PROVE  [Next]_vars /\ [RateNext]_rate_vars
  <2>1. FirstOf(request_queue) \in SUBSET Quads
    BY DEF FirstOf, TypeOK
  <2>2. InOrder(FirstOf(request_queue)) \in Seq(Ids)
    BY <2>1, InOrderType
  <2>3. QED BY <1>5, <2>2 DEF QuadReturns, Next, RateNext
<1>6. CASE TimerRings
  BY <1>6 DEF TimerRings, RateNext
<1>7. CASE TimePasses
  BY <1>7 DEF TimePasses, RateNext
<1>8. QED BY <1>1, <1>2, <1>3, <1>4, <1>5, <1>6, <1>7 DEF LimitersNext

(* As setup.h wires them, both limiters keep what each promises alone: no  *)
(* quad waits while it is loaded, none waits beside a free slot, no window *)
(* carries more than its rate, and what waits has a timer.                 *)
THEOREM WiredLimitersKeepPromises ==
  LimitersSpec => [](NeverWaitsInFlight /\ WorkConserving /\ RateHolds /\ WakeUpPending)
<1>1. LimitersInit => IInv /\ RateInv
  BY SlotsStart, RateStarts DEF LimitersInit
<1>2. IInv /\ RateInv /\ [LimitersNext]_all_vars => (IInv /\ RateInv)'
  <2> SUFFICES ASSUME IInv, RateInv, [LimitersNext]_all_vars PROVE (IInv /\ RateInv)'
    OBVIOUS
  <2>1. [Next]_vars /\ [RateNext]_rate_vars
    BY WiredStep DEF IInv
  <2>2. QED BY <2>1, SlotsStep, RateStep
<1>3. IInv /\ RateInv => NeverWaitsInFlight /\ WorkConserving /\ RateHolds /\ WakeUpPending
  BY DEF IInv, RateInv
<1>4. QED BY <1>1, <1>2, <1>3, PTL DEF LimitersSpec

(* And the load grows past no limit.                                       *)
THEOREM WiredLoadsStayWithinLimit == LimitersSpec => GrowsWithinLimit
<1>1. IInv /\ RateInv /\ [LimitersNext]_all_vars => [Next]_vars
  BY WiredStep DEF IInv
<1>2. LimitersInit => IInv /\ RateInv
  BY SlotsStart, RateStarts DEF LimitersInit
<1>3. IInv /\ RateInv /\ [LimitersNext]_all_vars => (IInv /\ RateInv)'
  <2> SUFFICES ASSUME IInv, RateInv, [LimitersNext]_all_vars PROVE (IInv /\ RateInv)'
    OBVIOUS
  <2>1. [Next]_vars /\ [RateNext]_rate_vars
    BY WiredStep DEF IInv
  <2>2. QED BY <2>1, SlotsStep, RateStep
<1>4. IInv /\ [Next]_vars => [Grows]_vars
  BY StepGrowsWithinLimit DEF IInv
<1>5. Grows <=> (Cardinality(in_flight') > Cardinality(in_flight)
                    => Cardinality(in_flight') <= limit)
  BY DEF Grows
<1>6. QED BY <1>1, <1>2, <1>3, <1>4, <1>5, PTL DEF LimitersSpec, GrowsWithinLimit
=============================================================================
